--------------------------- MODULE ParserArtifacts ---------------------------
(***************************************************************************)
(* The files that a parse sends beside its document (parser_artifacts.py): *)
(* the page images of a PDF with their manifest, and the sanitized image.  *)
(* The server and the worker validate them against what the document       *)
(* announces.                                                              *)
(***************************************************************************)
EXTENDS IngestLimits

Artifacts == [role : {"pdf_page", "manifest", "sanitized_image"}, page : Nat, ocr : BOOLEAN]

PdfPage(page, ocr) == [role |-> "pdf_page", page |-> page, ocr |-> ocr]
PdfManifest == [role |-> "manifest", page |-> 0, ocr |-> FALSE]
SanitizedImage == [role |-> "sanitized_image", page |-> 1, ocr |-> TRUE]

(* validate_received_artifacts bounds the descriptors;                     *)
(* validate_result_artifact_set wants exactly the set that the normalized  *)
(* document announces.                                                     *)
ReceivedArtifacts(doc) == Len(doc.arts) <= Limits.fds

(* A ready preview has one image for each page and a manifest, any other   *)
(* nothing.                                                                *)
PdfAnnounced(doc) ==
    LET n == Len(doc.prov)
    IN  IF doc.preview # "ready" THEN doc.arts = <<>>
        ELSE /\ Len(doc.arts) = n + 1
             /\ doc.arts[n + 1] = PdfManifest
             /\ \A k \in 1..n : doc.arts[k] = PdfPage(k, doc.prov[k] = "ocr_required")

Announced(fmt, doc) ==
    CASE fmt = "image" -> doc.arts = <<SanitizedImage>> /\ doc.prov = <<"ocr_required">>
      [] fmt = "pdf" -> PdfAnnounced(doc)
      [] OTHER -> doc.arts = <<>>

(* _validate_pdf_artifact_set takes no ready preview without pages either. *)
ResultArtifactSet(fmt, doc) ==
    /\ fmt = "pdf" /\ doc.preview = "ready" => doc.prov # <<>>
    /\ Announced(fmt, doc)
=============================================================================
