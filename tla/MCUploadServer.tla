--------------------------- MODULE MCUploadServer ---------------------------
(* Finite instances of UploadServer for TLC: the requests of each run, with   *)
(* their methods, and the extensions and inputs the cfgs share.               *)
EXTENDS UploadRefinement, TLC

CONSTANTS i1, i2, i3, f1,                  \* ids
          p1, p2, p3, w1, w2, w3, d1, d2, g1, h1   \* requests

(* p1, p2, ... are POST, w1, ... PATCH, d1 DELETE, g1 GET and h1 HEAD requests *)
MethodOf == [r \in Req |-> CASE r \in {p1, p2, p3} -> "POST"
                             [] r \in {w1, w2, w3} -> "PATCH"
                             [] r \in {d1, d2} -> "DELETE"
                             [] r = g1 -> "GET"
                             [] r = h1 -> "HEAD"]

NoParts == {}
DistinctParts == {<<x, y>> : x \in Id, y \in Id} \ {<<x, x>> : x \in Id}

AllExtensions == ExtensionNames
NoDeferredLength == ExtensionNames \ {"creation-defer-length"}
NoConcatenation == ExtensionNames \ {"concatenation"}
NoHooks == {}
FinishHook == {"post-finish"}
PreHooks == {"pre-create", "pre-terminate"}
NoEnv == {}
Parallel == {"parallel"}
Restarts == {"crash", "fault"}
AnyEnv == EnvKinds

Writers == Permutations({w1, w2})
ConcatSymmetry == Permutations({i1, i2, i3}) \cup Permutations({p1, p2, p3})
=============================================================================
