----------------------------- MODULE ClientTags -----------------------------
(***************************************************************************)
(* Client-specific tags: which tags each client address has enabled, kept  *)
(* in one global list behind client_tags_mutex (client-tags.c), and how    *)
(* requests read and toggle them (jcc.c, cgisimple.c).                     *)
(*                                                                         *)
(* Every function that takes the mutex holds it to its end, so it is one   *)
(* step; requests of one or several clients interleave between the steps.  *)
(***************************************************************************)
EXTENDS Integers, SequencesExt

CONSTANTS
  Threads,      \* threads that serve requests
  Addresses,    \* client addresses
  Names,        \* names of tags
  Configured,   \* sets of tags that a configuration may define
  Lifetime,     \* client-tag-lifetime, for tags that are enabled temporarily
  MaxTime,      \* bound: the clock stops here
  Nobody

ASSUME TagAssumption ==
  /\ Nobody \notin Addresses
  /\ Configured \subseteq SUBSET Names
  /\ Lifetime \in Nat \ {0} /\ MaxTime \in Nat

VARIABLES
  requested,  \* requested_tags: a list of clients, each with its list of tags
  now,        \* time(NULL), in seconds
  at,         \* where each thread is: "idle" or "chat"
  req,        \* client address, configured tags and enlisted tags of its request
  asked       \* history: the tags each client asked for, with their end of life

tagVars == <<requested, now, at, req, asked>>

NoRequest == [client |-> Nobody, known |-> {}, tags |-> {}]
Forever   == 0

\* get_tags_for_client()
EntryOf(c) == {i \in DOMAIN requested : requested[i].client = c}
TagsOf(c)  == UNION {ToSet(requested[i].tags) : i \in EntryOf(c)}
\* client_has_requested_tag(): also when the tag has expired.
Has(c, n)  == \E e \in TagsOf(c) : e.name = n

ExpiredAtEnd(e) == e.eol # Forever /\ e.eol + 1 < now     \* mutant of Expired
Expired(e) == e.eol # Forever /\ e.eol < now

TagsInit ==
  /\ requested = <<>> /\ now = 1
  /\ at = [t \in Threads |-> "idle"]
  /\ req = [t \in Threads |-> NoRequest]
  /\ asked = [c \in Addresses |-> {}]

-----------------------------------------------------------------------------
(* client-tags.c                                                           *)

\* The list without the entries that have to go.
Unlinked(list, gone) ==
  LET Left[n \in 0..Len(list)] ==
        IF n = 0 THEN <<>>
        ELSE IF list[n] \in gone THEN Left[n - 1] ELSE Append(Left[n - 1], list[n])
  IN  Left[Len(list)]

\* Mutant of Without: the client's only tag is left in place.
WithoutIfMore(c, gone) ==
  [i \in DOMAIN requested |->
     IF requested[i].client = c /\ Len(requested[i].tags) > 1
     THEN [requested[i] EXCEPT !.tags = Unlinked(@, gone)]
     ELSE requested[i]]

\* remove_tag_for_client(), for every tag that has to go.  With its last tag the
\* client goes too, and when it was the first one, the list is marked as empty.
Without(c, gone) ==
  LET left == [i \in DOMAIN requested |->
                 IF requested[i].client = c
                 THEN [requested[i] EXCEPT !.tags = Unlinked(@, gone)]
                 ELSE requested[i]]
  IN  IF left # <<>> /\ left[1].tags = <<>> THEN <<>>
      ELSE Unlinked(left, {[client |-> c, tags |-> <<>>]})

\* add_tag_for_client()
Add(c, e) ==
  IF EntryOf(c) = {} THEN Append(requested, [client |-> c, tags |-> <<e>>])
  ELSE [i \in DOMAIN requested |->
          IF requested[i].client = c THEN [requested[i] EXCEPT !.tags = Append(@, e)]
                                     ELSE requested[i]]

-----------------------------------------------------------------------------
(* A request: its tags are enlisted, and a CGI request may toggle one.     *)

\* set_client_address() and get_tag_list_for_client()
Begin(t) ==
  /\ at[t] = "idle"
  /\ \E c \in Addresses, known \in Configured :
       /\ req' = [req EXCEPT ![t] = [client |-> c, known |-> known,
                                     tags |-> {e \in TagsOf(c) : ~Expired(e)}]]
       /\ requested' = Without(c, {e \in TagsOf(c) : Expired(e)})
       /\ asked' = [asked EXCEPT ![c] = {e \in @ : e.eol = Forever \/ now <= e.eol}]
  /\ at' = [at EXCEPT ![t] = "chat"]
  /\ UNCHANGED now

\* A tag that is enabled already stays as it is.
Enable(t, n) ==
  LET c == req[t].client IN
  /\ at[t] = "chat" /\ n \in req[t].known /\ ~Has(c, n)
  /\ \E ttl \in {0, Lifetime} :
       LET e == [name |-> n, eol |-> IF ttl = 0 THEN Forever ELSE now + ttl] IN
       /\ requested' = Add(c, e)
       /\ asked' = [asked EXCEPT ![c] = {f \in @ : f.name # n} \cup {e}]
  /\ at' = [at EXCEPT ![t] = "idle"] /\ req' = [req EXCEPT ![t] = NoRequest]
  /\ UNCHANGED now

Disable(t, n) ==
  LET c == req[t].client IN
  /\ at[t] = "chat" /\ n \in req[t].known /\ Has(c, n)
  /\ requested' = Without(c, {e \in TagsOf(c) : e.name = n})
  /\ asked' = [asked EXCEPT ![c] = {f \in @ : f.name # n}]
  /\ at' = [at EXCEPT ![t] = "idle"] /\ req' = [req EXCEPT ![t] = NoRequest]
  /\ UNCHANGED now

\* Any other request, and a toggle that changes nothing.
End(t) ==
  /\ at[t] = "chat"
  /\ at' = [at EXCEPT ![t] = "idle"] /\ req' = [req EXCEPT ![t] = NoRequest]
  /\ UNCHANGED <<requested, now, asked>>

Tick == now < MaxTime /\ now' = now + 1 /\ UNCHANGED <<requested, at, req, asked>>

TagsNext ==
  \/ \E t \in Threads :
       Begin(t) \/ (\E n \in Names : Enable(t, n) \/ Disable(t, n)) \/ End(t)
  \/ Tick

TagsSpec == TagsInit /\ [][TagsNext]_tagVars
-----------------------------------------------------------------------------
(* What client-specific tags promise.                                      *)

Tag == [name: Names, eol: Nat]

\* The list that add_tag_for_client() and remove_tag_for_client() walk: every
\* client at most once, and only with tags, none of them twice.  A duplicate
\* would outlive the removal of its twin.
ListWellFormed ==
  /\ \A i, j \in DOMAIN requested : requested[i].client = requested[j].client => i = j
  /\ \A i \in DOMAIN requested :
       LET tags == requested[i].tags IN
       tags # <<>> /\ \A k, l \in DOMAIN tags : tags[k].name = tags[l].name => k = l

\* Type invariant, with the shape of the list.
TagsTypeOK ==
  /\ requested \in Seq([client: Addresses, tags: Seq(Tag)]) /\ ListWellFormed
  /\ now \in Nat
  /\ at \in [Threads -> {"idle", "chat"}]
  /\ req \in [Threads -> [client: Addresses \cup {Nobody}, known: SUBSET Names,
                          tags: SUBSET Tag]]
  /\ asked \in [Addresses -> SUBSET Tag]

\* No client gets a tag that it did not enable itself, or disabled since: "Clients
\* can request tags to be set", and only for themselves.
OnlyWhatWasAsked == \A c \in Addresses : TagsOf(c) \subseteq asked[c]

\* The list has no client or tag twice, no client without tags, and nobody's tags but
\* those that were asked for.
TagsInv == TagsTypeOK /\ OnlyWhatWasAsked

\* "The tag will be set until the client-tag-lifetime is over": no request is
\* given a temporary tag later than that, whoever looked at the list in between.
AppliedInTime ==
  [][\A t \in Threads : at[t] = "idle" /\ at'[t] = "chat" =>
       \A e \in req'[t].tags : e.eol = Forever \/ now <= e.eol]_tagVars

(* What the documentation says of it, and the code does not do.            *)

\* "Client-specific tags allow Privoxy admins to create different profiles and
\* let the users chose which one they want without impacting other users": a tag
\* that has not expired goes only when a request of its client disables it.
OthersNotImpacted ==
  [][\A c \in Addresses : \A e \in TagsOf(c) :
       ~Expired(e) /\ e \notin TagsOf(c)' => \E t \in Threads : req[t].client = c]_tagVars
=============================================================================
