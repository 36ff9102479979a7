----------------------------- MODULE GraphQLUser -----------------------------
(***************************************************************************)
(* GraphQLUser (graphql.py): query() first scores the text if a complexity *)
(* threshold is set, which may reject it, then posts it.  The scanner of   *)
(* _compute_complexity goes over the text character by character; here a   *)
(* text is a sequence of tokens, a name being one.                         *)
(***************************************************************************)
EXTENDS Integers, Sequences, FiniteSetsExt

CONSTANTS
  Text,        \* the texts that are queried
  Threshold,   \* complexity_threshold
  MaxQueries,  \* bound: queries of the user
  None         \* no text, no result

(* A text is a sequence of "{", "}", "(", ")", "#", "newline", "blank" and *)
(* of "name"; "keyword", a name that does not count ("on", "fragment",     *)
(* ...); "symbol", any character the scanner does not name, such as the    *)
(* colon of an alias, a dot of a fragment spread or the @ of a directive.  *)

VARIABLES
  at,       \* "idle", "scan", "post"
  text,     \* the text of the query
  i,        \* how much of it the scanner has passed
  depth, total,
  round,    \* flips at each round of the scanner's loop
  queries,  \* how many queries were made
  result    \* of the last query

vars == <<at, text, i, depth, total, round, queries, result>>

Init ==
  /\ at = "idle"
  /\ text = None
  /\ i = 0
  /\ depth = 1
  /\ total = 0
  /\ round = FALSE
  /\ queries = 0
  /\ result = None

(* query(): without a threshold the text is not scored, and score_query    *)
(* scores no blank text.                                                   *)
Query(t) ==
  /\ at = "idle"
  /\ queries < MaxQueries
  /\ queries' = queries + 1
  /\ text' = t
  /\ i' = 0 /\ depth' = 1 /\ total' = 0
  /\ at' = IF Threshold > 0 /\ \E k \in DOMAIN t : t[k] \notin {"blank", "newline"}
           THEN "scan" ELSE "post"
  /\ result' = None
  /\ UNCHANGED round

(* The position after the parentheses that open at position k + 1, or the  *)
(* end of the text.                                                        *)
Opened(k, j) ==
  Cardinality({m \in k + 1..j : text[m] = "("})
    - Cardinality({m \in k + 1..j : text[m] = ")"})

AfterArguments(k) ==
  IF k < Len(text) /\ text[k + 1] = "("
  THEN Min({Len(text)} \cup {j \in k + 1..Len(text) : Opened(k, j) = 0})
  ELSE k

(* One round of the loop.                                                  *)
Scan ==
  LET token == text[i + 1]
      named == IF token \in {"name", "keyword"} THEN i + 1 ELSE i
  IN  /\ at = "scan"
      /\ i < Len(text)
      /\ round' = ~round
      /\ i' = CASE token \in {"{", "}", ")", "blank", "newline"} -> i + 1
                [] token = "#" -> Min({Len(text)} \cup
                                      {j \in i..Len(text) - 1 : text[j + 1] = "newline"})
                [] OTHER -> AfterArguments(named)
      /\ depth' = CASE token = "{" -> depth + 1
                    [] token = "}" -> Max({depth - 1, 1})
                    [] OTHER -> depth
      /\ total' = IF token = "name" THEN total + 2 ^ (depth - 1) ELSE total
      /\ UNCHANGED <<at, text, queries, result>>

(* The score is compared; above the threshold query() raises ValueError.   *)
Compare ==
  /\ at = "scan"
  /\ i >= Len(text)
  /\ IF total > Threshold THEN at' = "idle" /\ result' = "rejected"
     ELSE at' = "post" /\ UNCHANGED result
  /\ UNCHANGED <<text, i, depth, total, round, queries>>

(* The answer to the POST, or an exception (status code 0); an answer with *)
(* GraphQL errors is returned, and counted as a failure.                   *)
Answer(outcome) ==
  /\ at = "post"
  /\ at' = "idle"
  /\ result' = outcome
  /\ UNCHANGED <<text, i, depth, total, round, queries>>

Next ==
  \/ \E t \in Text : Query(t)
  \/ Scan
  \/ Compare
  \/ \E outcome \in {"data", "errors", "exception"} : Answer(outcome)

(* The user's greenlet runs, and HTTP requests end.                        *)
Spec ==
  /\ Init /\ [][Next]_vars
  /\ WF_vars(Scan)
  /\ WF_vars(Compare)
  /\ WF_vars(\E outcome \in {"data", "errors", "exception"} : Answer(outcome))

-----------------------------------------------------------------------------
(* Every query is answered or rejected: score_query returns for every      *)
(* text, also for one that is not valid ("Returns 0 for empty,             *)
(* whitespace-only, or syntactically invalid queries", graphql.py).        *)
QueryReturns == at # "idle" ~> at = "idle"

=============================================================================
