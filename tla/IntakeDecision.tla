---------------------------- MODULE IntakeDecision ----------------------------
(***************************************************************************)
(* What the API decides about an upload before any parser sees it:         *)
(* inspect_file looks at the bytes (ingest/filetype.py), decide_intake at  *)
(* the detected format, the advertised formats and the intent of the user  *)
(* (ingest/policy.py).                                                     *)
(*                                                                         *)
(* A file is the evidence that the inspection can find in it:              *)
(*   magic    the signature at its start ("pk" is a ZIP signature without  *)
(*            a central directory), "none" or "empty"                       *)
(*   text     "none" (does not decode), "noisy" (decodes, with too many    *)
(*            control characters) or "safe"                                *)
(*   delim    the delimiter that its suffix asks for occurs                *)
(*   markup   the markup that its text opens with                          *)
(*   package  the package types that a ZIP declares                        *)
(*   marks    what else is found: "encrypted", "active", "unsafe",         *)
(*            "class", "shebang", "bomb"                                   *)
(*   suffix   the extension of the name that the client gave               *)
(* The raster formats are one format, image.                               *)
(***************************************************************************)
EXTENDS Naturals, FiniteSets

Evidence ==
    [magic : {"none", "empty", "executable", "pdf", "image", "rtf", "tar", "gzip", "audio", "video",
              "heif", "zip", "pk"},
     text : {"none", "noisy", "safe"}, suffix : STRING, delim : BOOLEAN, markup : STRING,
     package : SUBSET STRING, marks : SUBSET STRING]

Detected(family, format) == [family |-> family, format |-> format]

(* _UNIVERSAL_TEXT_EXTENSIONS; every other name is plain text. *)
TextFormats == {"md", "txt", "json", "xml", "html", "eml"}
TextFamily(fmt) ==
    CASE fmt \in {"json", "xml"} -> "structured" [] fmt = "html" -> "markup"
      [] fmt = "eml" -> "email" [] OTHER -> "text"

(* What the text opens with outranks its name. *)
UniversalTextEvidence(f) ==
    IF f.markup # "none" THEN f.markup
    ELSE IF f.suffix \in TextFormats THEN f.suffix ELSE "txt"

InspectTextFile(f) ==
    IF f.text # "safe" THEN Detected("opaque", "unknown")
    ELSE IF "shebang" \in f.marks THEN Detected("active", "script")
    ELSE Detected(TextFamily(UniversalTextEvidence(f)), UniversalTextEvidence(f))

(* A package declares one OOXML type that its members confirm, or the      *)
(* mimetype of an OpenDocument file; two Office types at once are none.    *)
DetectOoxmlType(f) ==
    LET office == f.package \cap {"docx", "xlsx"}
    IN  IF Cardinality(office) = 1 THEN CHOOSE t \in office : TRUE ELSE "none"

DetectZipPackageType(f) ==
    LET odf == f.package \cap {"odt", "ods", "odp"}
    IN  IF DetectOoxmlType(f) # "none" THEN DetectOoxmlType(f)
        ELSE IF "pptx" \in f.package THEN "pptx"
        ELSE IF odf # {} THEN CHOOSE t \in odf : TRUE
        ELSE "none"

PackageFamily(fmt) ==
    CASE fmt \in {"xlsx", "ods"} -> "spreadsheet" [] fmt = "pptx" -> "presentation"
      [] OTHER -> "document"

InspectZipFile(f) ==
    IF "bomb" \in f.marks THEN Detected("limit", "zip")
    ELSE IF "unsafe" \in f.marks THEN Detected("malformed", "zip")
    ELSE IF "encrypted" \in f.marks THEN Detected("encrypted", "zip")
    ELSE IF "active" \in f.marks THEN Detected("active", "ooxml")
    ELSE IF DetectZipPackageType(f) # "none"
    THEN Detected(PackageFamily(DetectZipPackageType(f)), DetectZipPackageType(f))
    ELSE IF "class" \in f.marks THEN Detected("executable", "executable-zip")
    ELSE Detected("container", "zip")

InspectPdfFile(f) ==
    IF "encrypted" \in f.marks THEN Detected("encrypted", "pdf")
    ELSE IF "active" \in f.marks THEN Detected("active", "pdf")
    ELSE Detected("document", "pdf")

(* What a GZip holds is not looked at: its name tells the two formats apart. *)
GzipFormat(f) == IF f.suffix = "tgz" THEN "tgz" ELSE "gz"

InspectSignature(f) ==
    CASE f.magic = "empty" -> Detected("empty", "empty")
      [] f.magic = "executable" -> Detected("executable", "elf")
      [] f.magic = "pdf" -> InspectPdfFile(f)
      [] f.magic = "image" -> Detected("image", "image")
      [] f.magic = "rtf" -> Detected("document", "rtf")
      [] f.magic = "tar" -> Detected("container", "tar")
      [] f.magic = "gzip" -> Detected("container", GzipFormat(f))
      [] f.magic \in {"audio", "video"} -> Detected(f.magic, "media")
      [] f.magic = "heif" -> Detected("image", "heif")
      [] f.magic = "zip" -> InspectZipFile(f)
      [] f.magic = "pk" -> Detected("malformed", "zip")

(* The signatures that are looked for before the name is consulted. *)
Leading == {"empty", "executable", "pdf", "image", "rtf", "tar", "gzip"}

DelimitedTextEvidence(f) == f.suffix \in {"csv", "tsv"} /\ f.text # "none" /\ f.delim

(* Wrong variant: the name of delimited text is trusted first. *)
InspectFileByName(f) ==
    IF f.suffix \in {"csv", "tsv"} /\ f.delim THEN Detected("tabular", f.suffix)
    ELSE IF f.magic # "none" THEN InspectSignature(f)
    ELSE InspectTextFile(f)

InspectFile(f) ==
    IF f.magic \in Leading THEN InspectSignature(f)
    ELSE IF DelimitedTextEvidence(f) THEN Detected("tabular", f.suffix)
    ELSE IF f.magic # "none" THEN InspectSignature(f)
    ELSE InspectTextFile(f)

(***************************************************************************)
(* decide_intake.  An intent is "legacy", "bill" or "generic".             *)
(***************************************************************************)
FamilyRejections == {"empty", "audio", "video", "executable", "active", "encrypted",
                     "malformed", "limit"}
IsTabularFormat(d) == d.family \in {"tabular", "spreadsheet"}
IsBillScanFormat(d) == d.family = "image" \/ d.format = "pdf"

(* Unavailable containers are refused, other unavailable formats are kept; *)
(* a table that the user wants to map is processed in any case.            *)
DecideIntake(d, formats, intent) ==
    IF \/ d.family \in FamilyRejections
       \/ intent = "bill" /\ ~IsBillScanFormat(d)
       \/ d.family = "container" /\ d.format \notin formats
    THEN "reject"
    ELSE IF d.format \in formats \/ (intent = "generic" /\ IsTabularFormat(d)) THEN "process"
    ELSE "store"

(***************************************************************************)
(* build_activation_candidate_registry: a sidecar that lost a format of    *)
(* the legacy pipeline is not a registry.                                  *)
(***************************************************************************)
LegacyRequired == {"md", "docx", "xlsx", "pdf", "image"}
IsRegistry(formats) == LegacyRequired \subseteq formats
=============================================================================
