------------------------------ MODULE CgiEdit ------------------------------
(***************************************************************************)
(* The editor for actions files (cgiedit.c).  A page lists the lines of a  *)
(* file with their numbers and the modification time of the file.  A       *)
(* request names lines by those numbers and is refused when the file was   *)
(* modified since; otherwise the file is read, changed in memory and       *)
(* written over itself, in pieces, while other threads may do the same and *)
(* the listening thread may load it.                                       *)
(*                                                                         *)
(* A line of the file is a comment, a line of the blocks in {{...}} at the *)
(* top ("system"), the header of a section ("action") or a pattern ("url");*)
(* ids tell lines of a type apart.  Where writing stopped in the middle of *)
(* a line, what is left may be nothing that can be read ("broken").        *)
(***************************************************************************)
EXTENDS Integers, Sequences, SequencesExt, FiniteSets, FiniteSetsExt, Functions

CONSTANTS
  Threads,   \* each serves one user of the editor
  Files,     \* what the file may look like at first
  MaxClock,  \* bound: seconds
  MaxLine,   \* bound: line numbers in requests
  Tolerated  \* ACCEPTABLE_TIMESTAMP_MISMATCHES

New == 0     \* the id of what a request puts into the file

VARIABLES
  disk,     \* the lines of the file
  mtime,    \* its modification time
  clock,
  page,     \* for each user, the page it sees
  at,       \* what each thread does
  req,      \* its request, and the page it comes from
  edited,   \* the file in memory: its lines, then what is to be written
  written,  \* how many of its lines were written
  enabled,  \* RUNTIME_FEATURE_CGI_EDIT_ACTIONS
  failures, \* acceptable_failures
  loaded,   \* what the listening thread has: the "last" version of the file, one with an "old"
            \* modification time, or "half" of the last one: it was written to in the same second;
            \* "none" when it could not be read and the program ended
  overlapped, \* threads whose request overlaps with another modification
  mixed,    \* two threads were writing at the same time
  partial   \* who wrote the file last did not come to its end

requestVars == <<at, req, edited, written>>
editorVars  == <<enabled, failures>>
historyVars == <<overlapped, mixed, partial>>
vars == <<disk, mtime, clock, page, requestVars, editorVars, loaded, historyVars>>

-----------------------------------------------------------------------------
(* The file in memory: lines that begin with the comments above them, and  *)
(* a blank line that holds those at the end of the file.                   *)

Line(type, id, prefix) == [type |-> type, id |-> id, prefix |-> prefix]

\* edit_read_line(), edit_read_file_lines().
ReadLines(text) ==
  LET Upto[n \in 0..Len(text)] ==
        IF n = 0 THEN [lines |-> <<>>, prefix |-> <<>>]
        ELSE LET acc == Upto[n - 1] IN
             IF text[n].type = "comment" THEN [acc EXCEPT !.prefix = Append(@, text[n])]
             ELSE [lines |-> Append(acc.lines, Line(text[n].type, text[n].id, acc.prefix)), prefix |-> <<>>]
      all == Upto[Len(text)]
  IN  IF all.prefix = <<>> THEN all.lines ELSE Append(all.lines, Line("blank", New, all.prefix))

\* edit_write_file(): a changed line loses its raw form but not its comments.
Written(lines) ==
  LET Upto[n \in 0..Len(lines)] ==
        IF n = 0 THEN <<>>
        ELSE Upto[n - 1] \o lines[n].prefix
               \o (IF lines[n].type = "blank" THEN <<>> ELSE <<[type |-> lines[n].type, id |-> lines[n].id]>>)
  IN  Upto[Len(lines)]

\* edit_parse_actions_file(): the system lines come first, patterns are in a section, and
\* each line is what it has to be.  (Whether a pattern compiles only the loader asks.)
Parses(lines) ==
  \A i \in DOMAIN lines :
    /\ lines[i].type # "broken"
    /\ lines[i].type = "system" => \A j \in 1..i : lines[j].type # "action"
    /\ lines[i].type = "url" => \E j \in 1..i : lines[j].type = "action"

\* What the file looks like at first, and what another editor makes of it, can be loaded.
TextLine == [type: {"comment", "system", "action", "url", "broken"}, id: Nat]
ASSUME EditorAssumption ==
  /\ \A f \in Files : f \in Seq(TextLine) /\ Parses(ReadLines(f))
  /\ MaxLine \in Nat /\ MaxClock \in Nat /\ Tolerated \in Nat

-----------------------------------------------------------------------------
(* The edits.  Each gives the set of its results: none if it is refused or *)
(* leaves the file alone.                                                  *)

IsLine(lines, n, type) == n \in DOMAIN lines /\ lines[n].type = type

From(lines, n) == SubSeq(lines, n, Len(lines))

Added(lines, n, type) == SubSeq(lines, 1, n) \o <<Line(type, New, <<>>)>> \o From(lines, n + 1)

\* cgi_edit_actions_submit(), cgi_edit_actions_url().
Replace(lines, n, type) == {[lines EXCEPT ![n].id = New] : k \in {n} \cap {m \in DOMAIN lines : IsLine(lines, m, type)}}

\* cgi_edit_actions_add_url(): the pattern becomes the first of its section.
AddUrl(lines, n) == IF IsLine(lines, n, "action") THEN {Added(lines, n, "url")} ELSE {}

\* cgi_edit_actions_remove_url(): not the first line of the file.
RemoveUrl(lines, n) == IF IsLine(lines, n, "url") /\ n # 1 THEN {RemoveAt(lines, n)} ELSE {}

\* The line that is found by counting from 1 to n.
Counted(n) == IF n = 0 THEN 1 ELSE n

\* Mutant of NotEmpty: the patterns of a removed section go to the one above it.
NotEmptyUnchecked(lines, n) == FALSE
NotEmpty(lines, n) == IsLine(lines, n + 1, "url")

\* cgi_edit_actions_section_remove().
RemoveSection(lines, n) ==
  LET k == Counted(n) IN
  IF IsLine(lines, k, "action") /\ ~NotEmpty(lines, k) THEN {RemoveAt(lines, k)} ELSE {}

\* The last line before the next header.
EndOfSection(lines, n) == Max({k \in n..Len(lines) : \A j \in n + 1..k : lines[j].type # "action"})

\* cgi_edit_actions_section_add().
AddSection(lines, n) ==
  IF n <= 1
  THEN {Added(lines, IF lines = <<>> \/ IsLine(lines, 1, "action") THEN 0 ELSE EndOfSection(lines, 1), "action")}
  ELSE IF IsLine(lines, n, "action") THEN {Added(lines, EndOfSection(lines, n), "action")} ELSE {}

LastUrl(lines, n) == Max({k \in n..Len(lines) : \A j \in n + 1..k : lines[j].type = "url"})

\* cgi_edit_actions_section_swap().  The search for the second header begins behind the
\* first section.
Swap(lines, m, n) ==
  LET start1 == Counted(Min({m, n}))
      end1   == LastUrl(lines, start1)
      start2 == Max({end1 + 1, m, n})
      end2   == LastUrl(lines, start2)
  IN
  IF m # n /\ IsLine(lines, start1, "action") /\ IsLine(lines, start2, "action")
  THEN {SubSeq(lines, 1, start1 - 1) \o SubSeq(lines, start2, end2)
          \o SubSeq(lines, end1 + 1, start2 - 1) \o SubSeq(lines, start1, end1)
          \o From(lines, end2 + 1)}
  ELSE {}

Kinds == {"submit", "url", "add", "remove", "removeSection", "addSection", "swap"}

Results(kind, lines, m, n) ==
  CASE kind = "submit"        -> Replace(lines, m, "action")
    [] kind = "url"           -> Replace(lines, m, "url")
    [] kind = "add"           -> AddUrl(lines, m)
    [] kind = "remove"        -> RemoveUrl(lines, m)
    [] kind = "removeSection" -> RemoveSection(lines, m)
    [] kind = "addSection"    -> AddSection(lines, m)
    [] kind = "swap"          -> Swap(lines, m, n)

-----------------------------------------------------------------------------
NoPage == [time |-> 0, lines |-> <<>>, torn |-> TRUE]
NoRequest == [kind |-> "none", m |-> 0, n |-> 0, page |-> NoPage]

Init ==
  /\ disk \in Files /\ mtime = 1 /\ clock = 1
  /\ page = [t \in Threads |-> NoPage]
  /\ at = [t \in Threads |-> "idle"] /\ req = [t \in Threads |-> NoRequest]
  /\ edited = [t \in Threads |-> <<>>] /\ written = [t \in Threads |-> 0]
  /\ enabled = TRUE /\ failures = Tolerated - 1
  /\ loaded = "last"
  /\ overlapped = {} /\ mixed = FALSE /\ partial = FALSE

Busy    == {t \in Threads : at[t] # "idle"}
Writing == {t \in Threads : at[t] = "write"}

Tick == clock < MaxClock /\ clock' = clock + 1
        /\ UNCHANGED <<disk, mtime, page, requestVars, editorVars, loaded, historyVars>>

\* cgi_edit_actions_list(): does not look at a version.  What a torn page shows is left out.
Show(t) ==
  /\ at[t] = "idle" /\ enabled /\ loaded # "none"
  /\ Parses(ReadLines(disk))
  /\ page' = [page EXCEPT ![t] = [time  |-> mtime, torn |-> Writing # {},
                                  lines |-> IF Writing = {} THEN ReadLines(disk) ELSE <<>>]]
  /\ UNCHANGED <<disk, mtime, clock, requestVars, editorVars, loaded, historyVars>>

\* Mutant of Unmodified: the version is not compared.
UnmodifiedUnchecked(p) == TRUE
\* edit_read_file(): version != specified_version.
Unmodified(p) == p.time = mtime

\* edit_read_actions_file() when the file was modified: a few mismatches are tolerated.
Mismatch ==
  IF failures > 0 THEN failures' = failures - 1 /\ enabled' = enabled
                  ELSE failures' = failures /\ enabled' = FALSE

\* A request, up to the comparison of the versions.
Begin(t) ==
  /\ at[t] = "idle" /\ enabled /\ loaded # "none" /\ page[t] # NoPage
  /\ IF Unmodified(page[t])
     THEN /\ at' = [at EXCEPT ![t] = "read"]
          /\ req' = [req EXCEPT ![t].page = page[t]]
          /\ UNCHANGED editorVars
     ELSE Mismatch /\ UNCHANGED <<req, at>>
  /\ UNCHANGED <<disk, mtime, clock, page, edited, written, loaded, historyVars>>

End(t) ==
  /\ at' = [at EXCEPT ![t] = "idle"]
  /\ req' = [req EXCEPT ![t] = NoRequest]
  /\ edited' = [edited EXCEPT ![t] = <<>>]
  /\ written' = [written EXCEPT ![t] = 0]

\* edit_read_file() and edit_parse_actions_file().
Read(t) ==
  LET lines == ReadLines(disk) IN
  /\ at[t] = "read"
  /\ IF Parses(lines)
     THEN /\ edited' = [edited EXCEPT ![t] = lines]
          /\ at' = [at EXCEPT ![t] = "open"]
          /\ UNCHANGED <<req, written, overlapped>>
     ELSE End(t) /\ overlapped' = overlapped \ {t}
  /\ UNCHANGED <<disk, mtime, clock, page, editorVars, loaded, mixed, partial>>

\* What a modification by the threads ts means for the others.
Modify(ts) ==
  /\ mtime' = clock
  /\ loaded' = CASE loaded = "none" -> "none"
                  [] loaded # "none" /\ clock # mtime -> "old"
                  [] OTHER -> IF loaded = "last" THEN "half" ELSE loaded
  /\ overlapped' = overlapped \cup (Busy \ ts) \cup (IF Writing \ ts = {} THEN {} ELSE ts)
  /\ mixed' = (mixed \/ Writing \ ts # {})

\* The change in memory, and fopen(..., "wb").  What the request asks for is chosen here,
\* where it first matters; line numbers need not come from a page.
\* Assumption: two modifications do not begin in the same second.
Open(t) ==
  /\ at[t] = "open" /\ clock > mtime
  /\ \E kind \in Kinds, m \in 0..MaxLine, n \in 0..MaxLine :
       /\ IF kind = "swap" THEN m < n ELSE n = 0
       /\ \E result \in Results(kind, edited[t], m, n) :
            edited' = [edited EXCEPT ![t] = Written(result)]
       /\ req' = [req EXCEPT ![t] = [kind |-> kind, m |-> m, n |-> n, page |-> @.page]]
  /\ disk' = <<>> /\ at' = [at EXCEPT ![t] = "write"] /\ Modify({t}) /\ partial' = FALSE
  /\ UNCHANGED <<clock, page, written, editorVars>>

\* A request that is refused, or a file that is read-only.
Refuse(t) ==
  /\ at[t] = "open"
  /\ End(t) /\ overlapped' = overlapped \ {t}
  /\ UNCHANGED <<disk, mtime, clock, page, editorVars, loaded, mixed, partial>>

\* What is left of a line that is cut.  The beginning of a comment is a comment, that of a
\* pattern a pattern; a header misses its "}", a line of a block may miss its "}}" or its value.
Beginning(line) ==
  (IF line.type = "action" THEN {} ELSE {[type |-> line.type, id |-> New]})
  \cup (IF line.type \in {"system", "action"} THEN {[type |-> "broken", id |-> New]} ELSE {})

\* What may follow the first n lines of a text: nothing, or the beginning of the next line.
Cuts(text, n) ==
  {<<>>} \cup (IF n < Len(text) THEN {<<l>> : l \in Beginning(text[n + 1])} ELSE {})

\* fputs() and fclose(): the buffer of the stream is written when it is full, which may be in
\* the middle of a line, and as far as there is room.  What is written goes behind what this
\* thread wrote before, whatever others did.  Bound: the first piece is a line or all, or the
\* beginning of a line more.
Flush(t) ==
  /\ at[t] = "write"
  /\ \E n \in {written[t], 1, Len(edited[t])} : \E cut \in Cuts(edited[t], n) :
       /\ written[t] < n \/ (written[t] = n /\ cut # <<>>)
       /\ n <= Len(edited[t])
       /\ disk' = SubSeq(edited[t], 1, n) \o cut \o From(disk, n + Len(cut) + 1)
       /\ written' = [written EXCEPT ![t] = n]
       /\ Modify({t})
  /\ UNCHANGED <<clock, page, at, req, edited, editorVars, partial>>

\* The request ends when everything is written, or with the disk full: what fclose() could
\* not write is lost, even in the middle of a line, and nobody is told.
Close(t) ==
  /\ at[t] = "write"
  /\ End(t) /\ overlapped' = overlapped \ {t} /\ partial' = (written[t] < Len(edited[t]))
  /\ UNCHANGED <<disk, mtime, clock, page, editorVars, loaded, mixed>>

\* check_file_changed() and load_one_actions_file(), also of a program that is started again.
Load ==
  /\ loaded \in {"old", "none"} /\ Parses(ReadLines(disk))
  /\ loaded' = "last"
  /\ UNCHANGED <<disk, mtime, clock, page, requestVars, editorVars, historyVars>>

\* load_one_actions_file() cannot read the file: LOG_LEVEL_FATAL ends the program, whatever
\* its threads do.
Fatal ==
  /\ loaded = "old" /\ ~Parses(ReadLines(disk))
  /\ loaded' = "none"
  /\ at' = [t \in Threads |-> "idle"] /\ req' = [t \in Threads |-> NoRequest]
  /\ edited' = [t \in Threads |-> <<>>] /\ written' = [t \in Threads |-> 0]
  /\ enabled' = TRUE /\ failures' = Tolerated - 1
  /\ overlapped' = {}
  /\ partial' = (partial \/ \E t \in Writing : written[t] < Len(edited[t]))
  /\ UNCHANGED <<disk, mtime, clock, page, mixed>>

\* The administrator's own editor replaces the file.
Outside ==
  /\ clock > mtime
  /\ disk' \in Files /\ disk' # disk
  /\ Modify({}) /\ partial' = FALSE
  /\ UNCHANGED <<clock, page, requestVars, editorVars>>

\* "Reload the configuration file to re-enable it."
Reconfigure ==
  /\ ~enabled /\ enabled' = TRUE
  /\ UNCHANGED <<disk, mtime, clock, page, requestVars, failures, loaded, historyVars>>

Next ==
  \/ \E t \in Threads : Show(t) \/ Begin(t) \/ Read(t) \/ Open(t) \/ Refuse(t) \/ Flush(t) \/ Close(t)
  \/ Tick \/ Load \/ Fatal \/ Outside \/ Reconfigure

Spec == Init /\ [][Next]_vars

-----------------------------------------------------------------------------
(* What a user of the editor is promised, in terms of the sections of a    *)
(* file instead of its lines.                                              *)

Sections(lines) ==
  LET step(acc, l) ==
        CASE l.type = "action" -> Append(acc, [id |-> l.id, urls |-> <<>>])
          [] l.type = "url"    -> [acc EXCEPT ![Len(acc)].urls = Append(@, l.id)]
          [] OTHER             -> acc
  IN  FoldLeft(step, <<>>, lines)

\* The section line n belongs to, and the place of a pattern in it.
SectionOf(lines, n) == Cardinality({k \in 1..n : lines[k].type = "action"})
PlaceOf(lines, n) == n - Max({k \in 1..n : lines[k].type = "action"})

\* What the sections become.  A new section has no pattern; a section that is removed too.
Intended(kind, lines, m, n) ==
  LET ss == Sections(lines)
      k  == SectionOf(lines, m)
  IN
  CASE kind = "submit"        -> [ss EXCEPT ![k].id = New]
    [] kind = "url"           -> [ss EXCEPT ![k].urls[PlaceOf(lines, m)] = New]
    [] kind = "add"           -> [ss EXCEPT ![k].urls = <<New>> \o @]
    [] kind = "remove"        -> [ss EXCEPT ![k].urls = RemoveAt(@, PlaceOf(lines, m))]
    [] kind = "removeSection" -> RemoveAt(ss, k)
    [] kind = "addSection"    -> InsertAt(ss, k + 1, [id |-> New, urls |-> <<>>])
    [] kind = "swap"          -> [i \in DOMAIN ss |-> ss[CASE i = k -> SectionOf(lines, n)
                                                          [] i = SectionOf(lines, n) -> k
                                                          [] OTHER -> i]]

\* The line numbers a page has in its links.
OnPage(kind, lines, m, n) ==
  CASE kind \in {"url", "remove"} -> IsLine(lines, m, "url")
    [] kind = "addSection"        -> m = 0 \/ IsLine(lines, m, "action")
    [] kind = "swap"              -> IsLine(lines, m, "action") /\ IsLine(lines, n, "action") /\ m # n
    [] OTHER                      -> IsLine(lines, m, "action")

SystemLines(lines) == SelectSeq(lines, LAMBDA l : l.type = "system")
Comments(lines) == UNION {{c.id : c \in Range(lines[i].prefix)} : i \in DOMAIN lines}

\* The comments a request may lose are those of a line it removes.
MayLose(r) ==
  IF r.kind \in {"remove", "removeSection"} THEN {c.id : c \in Range(r.page.lines[r.m].prefix)} ELSE {}

AsAsked(r) ==
  LET was == r.page.lines
      is  == ReadLines(disk)
  IN
  /\ Sections(is) = Intended(r.kind, was, r.m, r.n)
  /\ SystemLines(is) = SystemLines(was)
  /\ Comments(was) \ MayLose(r) \subseteq Comments(is)

\* A request that finished its work and did not overlap with another modification.
Done(t) ==
  /\ at[t] = "write" /\ at'[t] = "idle" /\ written[t] = Len(edited[t])
  /\ t \notin overlapped /\ ~req[t].page.torn
  /\ OnPage(req[t].kind, req[t].page.lines, req[t].m, req[t].n)

-----------------------------------------------------------------------------
(* Properties.                                                             *)

\* An edit changes the section or the pattern its user saw at that place of the page and
\* nothing else, whatever happened to the file between the page and the request: a
\* request with the numbers of an older version is refused.  (A section added below one
\* in the first line is FirstSection's.)
EditDoesWhatWasAsked ==
  [][\A t \in Threads :
       Done(t) /\ ~(req[t].kind = "addSection" /\ req[t].m = 1) => AsAsked(req[t])]_vars

\* "Line number of section to add after, 0 for start of file" (cgi_edit_actions_section_add()).
FirstSection ==
  [][\A t \in Threads : Done(t) /\ req[t].kind = "addSection" => AsAsked(req[t])]_vars

\* A file without the line at its end that was cut.
Whole(text) == IF text # <<>> /\ text[Len(text)].type = "broken" THEN SubSeq(text, 1, Len(text) - 1) ELSE text

\* Whatever line numbers requests have, and however often they are repeated, the editor
\* leaves a file that it can read again, unless two threads were writing at the same time.  A
\* file that was not written to its end (a full disk, a killed program) can be read but for
\* one line, its last.
FileStaysValid ==
  Writing = {} /\ ~mixed => Parses(ReadLines(IF partial THEN Whole(disk) ELSE disk))

\* When no request is served, a change of the file that was not loaded will be: its
\* modification time tells ("reloaded with the first request after the change was done").
LoadedAsWritten == Busy = {} => loaded # "half"
=============================================================================
