-------------------------- MODULE MCClientSession --------------------------
(* TLC instances of ClientSession: two requests on a connection, bodies of two *)
(* pieces, any of which may arrive with what is before or behind it.           *)
EXTENDS ClientSession

get   == [method |-> "GET", framing |-> "none", body |-> 0, close |-> FALSE]
bye   == [get EXCEPT !.close = TRUE]
post  == [method |-> "POST", framing |-> "length", body |-> 2, close |-> FALSE]
chunk == [post EXCEPT !.framing = "chunked"]

plain == [tls |-> FALSE, tolerate |-> TRUE, sharing |-> TRUE, filters |-> FALSE,
          optimistic |-> FALSE, early |-> TRUE, kinds |-> {get, post, chunk},
          pipelined |-> {get, chunk}]

MCConfigurations ==
  {plain,
   [plain EXCEPT !.tolerate = FALSE, !.filters = TRUE, !.early = FALSE, !.kinds = {get, post, bye}],
   [plain EXCEPT !.optimistic = TRUE, !.kinds = {get, post}],
   [plain EXCEPT !.tls = TRUE, !.filters = TRUE, !.kinds = {get, post}, !.pipelined = {}]}

\* A chunked body over a connection that is used optimistically, and a client that pipelines
\* behind a body with a Content-Length.
FindingConfigurations ==
  {[plain EXCEPT !.optimistic = TRUE],
   [plain EXCEPT !.kinds = {get, post}, !.pipelined = {get, post}]}

\* What the theorems suppose is true of what is checked, and not of the findings.
ASSUME MCAssumption ==
  /\ \A c \in MCConfigurations : Separable(c) /\ SentWhole(c)
  /\ \A c \in FindingConfigurations : ~(Separable(c) /\ SentWhole(c))
=============================================================================
