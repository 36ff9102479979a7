--------------------------- MODULE CampaignReview ---------------------------
(***************************************************************************)
(* What a release campaign promises to its reviewers, with no database,    *)
(* threads or tokens: a campaign is opened with a table of slots, revised  *)
(* any number of times, each revision replacing the whole table at once,   *)
(* and sealed at most once.  The seal is a table that was in force at some *)
(* moment, not always the last one (finalize_campaign does not compare     *)
(* tokens, so an edit may be accepted between its reads and its UPDATE);   *)
(* it may be sealed, and neither it nor the table changes afterwards.      *)
(***************************************************************************)

CONSTANTS
  Campaign,       \* campaign identifiers
  Content,        \* the tables a campaign can hold
  Sealable(_),    \* the tables that finalization may freeze
  Nothing         \* no table: the campaign is not open, or not sealed

VARIABLES
  current,        \* current[c]: the table in force, or Nothing
  past,           \* past[c]: every table that has been in force
  seal            \* seal[c]: the frozen table, or Nothing

vars == <<current, past, seal>>

Init ==
  /\ current = [c \in Campaign |-> Nothing]
  /\ past = [c \in Campaign |-> {}]
  /\ seal = [c \in Campaign |-> Nothing]

Put(c, content) ==
  /\ current' = [current EXCEPT ![c] = content]
  /\ past' = [past EXCEPT ![c] = @ \cup {content}]
  /\ UNCHANGED seal

Open(c) ==
  /\ current[c] = Nothing
  /\ \E content \in Content : Put(c, content)

Revise(c) ==
  /\ current[c] # Nothing
  /\ seal[c] = Nothing
  /\ \E content \in Content : Put(c, content)

Seal(c) ==
  /\ seal[c] = Nothing
  /\ \E content \in past[c] :
       /\ Sealable(content)
       /\ seal' = [seal EXCEPT ![c] = content]
  /\ UNCHANGED <<current, past>>

Next == \E c \in Campaign : Open(c) \/ Revise(c) \/ Seal(c)

Spec == Init /\ [][Next]_vars

=============================================================================
