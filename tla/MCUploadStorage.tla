-------------------------- MODULE MCUploadStorage --------------------------
(* Instances of UploadStorage for TLC. *)
EXTENDS UploadStorage, TLC

CONSTANTS u1, u2, h1, d1, k1

\* a retry of the same upload, and a worker whose derivative has those bytes
SharedBytes == u1 :> d1 @@ u2 :> d1 @@ h1 :> d1
OneKey == u1 :> k1 @@ u2 :> k1
Interchangeable == Permutations({u1, u2})

\* the same bytes uploaded twice
SameBytes == u1 :> d1 @@ u2 :> d1
NoKeys == [u \in Uploads |-> NoKey]

=============================================================================
