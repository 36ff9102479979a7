-------------------------- MODULE ArtifactRegister --------------------------
(***************************************************************************)
(* What atomic_write (decision_artifact.py) promises of an artifact that   *)
(* several commands write: a reader finds nothing or one whole content     *)
(* that some command made for it, whoever is killed and whatever fails;    *)
(* only a power failure may bring an earlier content back.                 *)
(***************************************************************************)
CONSTANT None

VARIABLES
  content,  \* what a reader finds
  offered   \* what the commands made for this artifact

Init == content = None /\ offered = {}

Offer == offered \subseteq offered' /\ UNCHANGED content

Publish == content' \in offered /\ UNCHANGED offered

Relapse == content' \in offered \cup {None} /\ UNCHANGED offered

Next == Offer \/ Publish \/ Relapse

Spec == Init /\ [][Next]_<<content, offered>>

=============================================================================
