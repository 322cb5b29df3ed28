---------------------------- MODULE MCLastAlert ----------------------------
(* LastAlert for TLC: the payloads the UI and the API send. *)
EXTENDS LastAlert, TLC

Symm == Permutations(Writers) \cup Permutations(Requests) \cup Permutations(Fps)

TypedPayloads == {[status |-> "acknowledged"],
          [dismiss_mode |-> "dismiss_until", dismissed_until |-> "later"],
          [dismiss_mode |-> Null],
          [note |-> Blank],
          [status_disposable |-> TRUE]}
Legacy == {[dismissed |-> TRUE],
           [dismissed |-> FALSE, note |-> "note"],
           [dismissed |-> TRUE, dismiss_until |-> "later"],
           [dismiss_until |-> "later"]}
Mixes == {[dismiss_mode |-> "permanent", dismiss_until |-> Null]}
Wrong == {[color |-> "red"], [dismissed |-> TRUE, dismiss_until |-> "later", dismissed_until |-> "later"]}

MCPayloads == TypedPayloads \cup Legacy \cup Mixes \cup Wrong
MCClearLists == {{"status"}, {"note"}, {"dismissed"}, {"deleted", "dismiss_mode"}, {"assignees"}}
=============================================================================
