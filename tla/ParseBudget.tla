----------------------------- MODULE ParseBudget -----------------------------
(***************************************************************************)
(* The resource bounds of one parse: the counters that every member of a   *)
(* source shares, and the ZIP metadata checks that run before any member   *)
(* is opened (ingest/limits.py).                                           *)
(*                                                                         *)
(* A parse is a record that the adapters thread through their steps.  The  *)
(* first failing check sets err and every later step leaves the parse as   *)
(* it is: that is the exception leaving the adapter.  Resource limits and  *)
(* rejected content stay apart because the service reports them apart.     *)
(***************************************************************************)
EXTENDS IngestLimits, SequencesExt

Fails(p, reason) == IF p.err = "none" THEN [p EXCEPT !.err = reason] ELSE p

(* raise ResourceLimitExceeded, raise ValueError *)
Over(p, cond) == IF cond THEN Fails(p, "resource_limit_exceeded") ELSE p
Reject(p, cond) == IF cond THEN Fails(p, "parser_failed") ELSE p

(* ParseBudget._consume: the counter moves only when the sum is allowed. *)
Consume(p, r, n) ==
    IF p.err # "none" THEN p
    ELSE IF p.used[r] + n > Limits[r] THEN Fails(p, "resource_limit_exceeded")
    ELSE [p EXCEPT !.used[r] = @ + n]

ConsumeNesting(p, depth) ==
    IF p.err # "none" THEN p
    ELSE IF depth > Limits.nesting THEN Fails(p, "resource_limit_exceeded")
    ELSE [p EXCEPT !.nesting = IF depth > @ THEN depth ELSE @]

(* read_bounded_source: the descriptor is read only below the upload bound *)
(* (its digest was verified when the request was accepted).                *)
ReadBoundedSource(src) == Over(Fresh, src.size > Limits.upload)

CheckImagePixels(p, px) == Over(Reject(p, px = 0), px > Limits.pixels)

(***************************************************************************)
(* safe_zip_central_directory and safe_zip_members.  A member declares a   *)
(* name, whether its path and type are safe, and its compressed and real   *)
(* sizes; the totals are checked while the metadata is streamed and the    *)
(* aggregate ratio at the end.                                             *)
(***************************************************************************)
TotalOf(f(_), s) == FoldLeft(LAMBDA n, m : n + f(m), 0, s)

CheckMemberExpansion(p, m) ==
    LET q == Over(p, m.size > 0 /\ m.comp = 0)
    IN  Over(q, m.size > Limits.ratio * m.comp)

SafeZipMembers(p, members) ==
    LET Add(q, i) ==
            LET m == members[i]
                named == Reject(Over(q, i > Limits.parts), m.path \in {"unsafe", "link"})
                sized == CheckMemberExpansion(named, m)
            IN  Over(sized, TotalOf(LAMBDA x : x.size, SubSeq(members, 1, i))
                                > Limits.bytes)
        all == FoldLeft(Add, Over(p, Len(members) > Limits.parts),
                        [i \in 1..Len(members) |-> i])
        size == TotalOf(LAMBDA x : x.size, members)
        comp == TotalOf(LAMBDA x : x.comp, members)
    IN  Over(Over(all, size > 0 /\ comp = 0), size > Limits.ratio * comp)

(* _validate_name_collisions: names are compared after normalisation, the  *)
(* model's names are already in that form.                                 *)
NamesCollide(members) ==
    \E i, j \in DOMAIN members : i < j /\ members[i].name = members[j].name

(***************************************************************************)
(* inspect_image_bytes: every frame of an embedded raster is charged.      *)
(***************************************************************************)
InspectImage(p, img) ==
    LET framed == Consume(p, "frames", img.frames)
        Frame(q, i) == Consume(CheckImagePixels(q, img.px), "pixels", img.px)
    IN  FoldLeft(Frame, framed, [i \in 1..img.frames |-> i])
=============================================================================
