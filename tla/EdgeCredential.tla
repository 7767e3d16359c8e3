--------------------------- MODULE EdgeCredential ---------------------------
(***************************************************************************)
(* What an edge's identity is to the control plane: one credential, that   *)
(* the two of them change together.  EdgeIdentity, which writes it file by *)
(* file, reloads it, and asks for it with calls that fail, is shown to     *)
(* implement this as long as no persist is cut short and no rotation's     *)
(* answer is lost.                                                         *)
(*                                                                         *)
(* An edge enrolls only when it holds no credential that is still good;    *)
(* all that it signs is signed with the one that it holds; and a rotation  *)
(* gives it another at the moment the control plane takes the first away.  *)
(***************************************************************************)
EXTENDS Integers, Sequences

VARIABLES
    edgeOf,     \* of each credential issued, the edge it was issued to
    revokedIds, \* the edges revoked
    expired,    \* the credentials that have expired
    held,       \* the credential the edge holds, or 0
    signs       \* those a process of it signs with

plane == <<edgeOf, revokedIds, expired>>
credentialVars == <<plane, held, signs>>

Issued == 1..Len(edgeOf)

Latest(g) == g \in Issued /\ \A h \in Issued : edgeOf[h] = edgeOf[g] => h <= g

Init ==
    /\ edgeOf = <<>> /\ revokedIds = {} /\ expired = {}
    /\ held = 0 /\ signs = {}

(* A new edge is issued a credential, which may not reach it.              *)
Enroll ==
    /\ signs = {} /\ held \in expired \cup {0}
    /\ edgeOf' = Append(edgeOf, Len(edgeOf) + 1)
    /\ held' \in {held, Len(edgeOf')}
    /\ UNCHANGED <<revokedIds, expired, signs>>

Rotate ==
    /\ signs = {held} /\ Latest(held) /\ edgeOf[held] \notin revokedIds
    /\ edgeOf' = Append(edgeOf, edgeOf[held])
    /\ held' = Len(edgeOf')
    /\ signs' = {held'}
    /\ UNCHANGED <<revokedIds, expired>>

(* A process starts to sign, with what the edge holds, and ends.           *)
Starts ==
    /\ signs = {} /\ held # 0
    /\ signs' = {held}
    /\ UNCHANGED <<plane, held>>

Ends ==
    /\ signs' = {}
    /\ UNCHANGED <<plane, held>>

Revoke ==
    /\ \E g \in Issued : revokedIds' = revokedIds \cup {edgeOf[g]}
    /\ UNCHANGED <<edgeOf, expired, held, signs>>

Expire ==
    /\ \E g \in Issued : expired' = expired \cup {g}
    /\ UNCHANGED <<edgeOf, revokedIds, held, signs>>

Next == Enroll \/ Rotate \/ Starts \/ Ends \/ Revoke \/ Expire

Spec == Init /\ [][Next]_credentialVars
=============================================================================
