--------------------------- MODULE MCHybridServer ---------------------------
(* Finite instances of HybridServer for TLC, named as in MCUploadServer. *)
EXTENDS HybridRefinement, TLC

CONSTANTS i1, i2, p1, p2, w1, w2, d1, g1

MethodOf == [r \in Req |-> CASE r \in {p1, p2} -> "POST"
                             [] r \in {w1, w2} -> "PATCH"
                             [] r = d1 -> "DELETE"
                             [] r = g1 -> "GET"]

NoParts == {}
SinglePart == {<<x>> : x \in Id}
NoConcatenation == ExtensionNames \ {"concatenation"}
NoDeferredLength == ExtensionNames \ {"creation-defer-length"}
FinishHook == {"post-finish"}
SomeHooks == {"pre-create", "post-terminate"}
NoEnv == {}
AnyEnv == EnvKinds

Ids == Permutations({i1, i2}) \cup Permutations({p1, p2})
=============================================================================
