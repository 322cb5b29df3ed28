------------------------------ MODULE MCAccess ------------------------------
(***************************************************************************)
(* Access and IncidentDesk for TLC.  The two share nothing: one run takes  *)
(* either of them, while the other rests in an initial state (Access       *)
(* beside no incidents).  Of three reference ids two have one secret;      *)
(* clients and users of incidents are interchangeable.                     *)
(***************************************************************************)
EXTENDS Access, IncidentDesk, TLC

CONSTANTS webhook, r1, r2
Folded == [r \in {webhook, r1, r2} |-> IF r = webhook THEN r2 ELSE r]
Symm == Permutations(Clients) \cup Permutations(Client) \cup Permutations(User) \cup Permutations(Incident)

EitherInit == Init /\ DeskInit
EitherNext ==
    \/ (\A i \in Incident : deskStatus[i] = "none") /\ (\A c \in Client : deskOps[c] = 0) /\ Next /\ UNCHANGED deskVars
    \/ ops = 0 /\ DeskNext /\ UNCHANGED vars
EitherSpec == EitherInit /\ [][EitherNext]_<<vars, deskVars>>
=============================================================================
