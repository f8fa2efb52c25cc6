----------------------------- MODULE MCS3Server -----------------------------
(* Finite instances of S3Server for TLC, named as in MCUploadServer. *)
EXTENDS S3Server

CONSTANTS i1, i2, p1, p2, w1, w2, d1, g1

MethodOf == [r \in Req |-> CASE r \in {p1, p2} -> "POST"
                             [] r \in {w1, w2} -> "PATCH"
                             [] r = d1 -> "DELETE"
                             [] r = g1 -> "GET"]

SinglePart == {<<x>> : x \in Id}
NoDeferredLength == ExtensionNames \ {"creation-defer-length"}
NoUpload == NoDeferredLength \ {"creation-with-upload"}
SomeHooks == {"pre-create", "post-terminate"}
AnyEnv == EnvKinds

(* Bound: the requests that are sent in one behaviour. *)
Scenarios == {{p1, w1, w2, d1}, {p1, p2, w1}, {p1, w1, g1}}
Sent(r) == pc[r] # "idle" \/ \E s \in Scenarios : r \in s /\ \A q \in Req \ s : pc[q] = "idle"
ScenarioSpec ==
  S3Init /\ [][(\E r \in Req : Sent(r) /\ S3Request(r)) \/ S3Background]_s3vars

Symmetric == Permutations({i1, i2}) \cup Permutations({w1, w2})
=============================================================================
