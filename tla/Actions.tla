------------------------------ MODULE Actions ------------------------------
(***************************************************************************)
(* From actions files to the action that is in force for a request:        *)
(* loading a file (actions.c), the sections that match its URL             *)
(* (filters.c), those that match a tag a tagger gave it while its headers  *)
(* or its body were looked at (parsers.c, filters.c).                      *)
(*                                                                         *)
(* csp has action, tags, clientTags, http, head and files, the             *)
(* actions_list: a sequence of [loaded, sections].                         *)
(***************************************************************************)
EXTENDS ActionSpecs, UrlMatch

CONSTANTS
  Taggers,        \* the taggers of the filter files
  Tag(_, _, _),   \* what a client-header tagger makes of a header's name and value
  BodyTag(_, _)   \* what a client-body tagger makes of a body; "" if there is no tag

\* There are finitely many filter files.
ASSUME TaggersAssumption == IsFiniteSet(Taggers)

-----------------------------------------------------------------------------
(* load_one_actions_file().  A line is a heading "{{...}}", a section      *)
(* "{...}" or text, which means something else in each part of a file.     *)

Heading(name)  == [kind |-> "heading", name |-> name]
Section(words) == [kind |-> "section", words |-> words]
Text(newer, name, words, pattern) ==
  [kind |-> "text", newer |-> newer, name |-> name, words |-> words, pattern |-> pattern]

\* The shape of a line.
IsLine(line) ==
  /\ line.kind \in {"heading", "section", "text"}
  /\ line.kind # "heading" => line.words \in Seq(Range(line.words))

NoPattern == [kind |-> "none"]
Version(newer)     == Text(newer, "", <<>>, NoPattern)
Alias(name, words) == Text(FALSE, name, words, NoPattern)
Pattern(p)         == Text(FALSE, "", <<>>, p)

Mode == [start |-> 1, settings |-> 2, description |-> 3, alias |-> 4, actions |-> 5]

StartOfFile == [ok |-> TRUE, mode |-> Mode.start, aliases |-> <<>>, spec |-> EmptySpec, sections |-> <<>>]
Fatal(f) == [f EXCEPT !.ok = FALSE]

\* The parts come in this order and at most once.
ReadHeading(f, name) ==
  IF name \notin {"settings", "description", "alias"} \/ f.mode >= Mode[name] THEN Fatal(f)
  ELSE [f EXCEPT !.mode = Mode[name]]

ReadSection(f, words) ==
  LET r == get_actions(words, f.aliases)
  IN  IF r.ok THEN [f EXCEPT !.mode = Mode.actions, !.spec = r.spec] ELSE Fatal(f)

\* The newest alias of a name hides the others.
NewAlias(aliases, name, meaning) ==
  [a \in DOMAIN aliases \cup {name} |-> IF a = name THEN meaning ELSE aliases[a]]
ReadAlias(f, name, words) ==
  LET r == get_actions(words, f.aliases)
  IN  IF name = "" \/ words = <<>> \/ ~r.ok THEN Fatal(f)
      ELSE [f EXCEPT !.aliases = NewAlias(@, name, r.spec)]

ReadPattern(f, pattern) ==
  IF pattern = NoPattern THEN Fatal(f)
  ELSE [f EXCEPT !.sections = Append(@, [url |-> pattern, action |-> f.spec])]

ReadText(f, line) ==
  CASE f.mode = Mode.settings     -> IF line.newer THEN Fatal(f) ELSE f
    [] f.mode = Mode.description  -> f
    [] f.mode = Mode.alias        -> ReadAlias(f, line.name, line.words)
    [] f.mode = Mode.actions      -> ReadPattern(f, line.pattern)
    [] OTHER                      -> Fatal(f)

ReadLine(f, line) ==
  IF ~f.ok THEN f
  ELSE CASE line.kind = "heading" -> ReadHeading(f, line.name)
         [] line.kind = "section" -> ReadSection(f, line.words)
         [] line.kind = "text"    -> ReadText(f, line)

load_one_actions_file(lines) ==
  LET After[n \in 0..Len(lines)] == IF n = 0 THEN StartOfFile ELSE ReadLine(After[n - 1], lines[n])
  IN  After[Len(lines)]

\* load_action_files(); Privoxy exits when a file can't be loaded.
load_action_files(files) ==
  LET read == [i \in DOMAIN files |-> load_one_actions_file(files[i])]
  IN  [ok |-> \A i \in DOMAIN read : read[i].ok,
       list |-> [i \in DOMAIN read |-> [loaded |-> TRUE, sections |-> read[i].sections]]]

-----------------------------------------------------------------------------
(* The sections that match a request's URL or one of the client's tags.    *)

client_tag_match(p, tags) == p.kind = "CLIENT-TAG" /\ tags \cap p.tags # {}

Sections(csp) == UNION {Range(csp.files[i].sections) : i \in DOMAIN csp.files}

\* The sections that apply, one after the other.
apply_url_actions(sections, action, applying) ==
  LET After[n \in 0..Len(sections)] ==
        IF n = 0 THEN action
        ELSE IF sections[n] \in applying THEN merge_current_action(After[n - 1], sections[n].action)
        ELSE After[n - 1]
  IN  After[Len(sections)]

Merged(csp, action, applying) ==
  LET After[n \in 0..Len(csp.files)] ==
        IF n = 0 THEN action ELSE apply_url_actions(csp.files[n].sections, After[n - 1], applying)
  IN  After[Len(csp.files)]

\* The files in front of the first one that is missing.
get_url_actions(csp) ==
  LET missing  == {i \in DOMAIN csp.files : ~csp.files[i].loaded}
      found    == SelectInSeq(csp.files, LAMBDA f : ~f.loaded)
      used     == [csp EXCEPT !.files = IF missing = {} THEN @ ELSE SubSeq(@, 1, found - 1)]
      applying == {s \in Sections(csp) : url_match(s.url, csp.http) \/ client_tag_match(s.url, csp.clientTags)}
  IN  [csp EXCEPT !.action = Merged(used, NoAction, applying)]

-----------------------------------------------------------------------------
(* Tags.                                                                   *)

ForTag(csp, tag)     == {s \in Sections(csp) : s.url.kind = "TAG" /\ tag \in s.url.tags}
ForMissingTags(csp)  == {s \in Sections(csp) : s.url.kind = "NO-REQUEST-TAG" /\ csp.tags \cap s.url.tags = {}}

update_action_bits_for_tag(csp, action, tag) == Merged(csp, action, ForTag(csp, tag))
check_negative_tag_patterns(csp) == [csp EXCEPT !.action = Merged(csp, @, ForMissingTags(csp))]

\* A tagger's result; the action changes at once.  r is what taggers change, [action, tags].
Tagged(csp, r, tag) ==
  IF tag = "" \/ tag \in r.action.multi["suppress-tag"] \/ tag \in r.tags THEN r
  ELSE [action |-> update_action_bits_for_tag(csp, r.action, tag), tags |-> r.tags \cup {tag}]

\* The list of taggers is walked while the sections of a tag may add to it.
Walk(csp, first, kind, tags) ==
  LET Ran(w) ==
        LET left == w.r.action.multi[kind] \ w.ran
            next == CHOOSE t \in left : TRUE
        IN  IF left = {} THEN w ELSE [r |-> Tagged(csp, w.r, tags[next]), ran |-> w.ran \cup {next}]
      After[n \in 0..Cardinality(Taggers)] == IF n = 0 THEN [r |-> first, ran |-> {}] ELSE Ran(After[n - 1])
  IN  After[Cardinality(Taggers)].r

Rated(csp) == [action |-> csp.action, tags |-> csp.tags]
Rates(csp, r) == [csp EXCEPT !.action = r.action, !.tags = r.tags]

header_tagger(csp, r, name) ==
  Walk(csp, r, "client-header-tagger", [t \in Taggers |-> Tag(t, name, csp.head[name])])

\* The request line is the first header.
scan_headers(csp) ==
  LET names == DOMAIN csp.head \ {"line"}
      Scanned(w) ==
        LET left == names \ w.seen
            next == CHOOSE n \in left : TRUE
        IN  IF left = {} THEN w ELSE [r |-> header_tagger(csp, w.r, next), seen |-> w.seen \cup {next}]
      After[n \in 0..Cardinality(names)] ==
        IF n = 0 THEN [r |-> header_tagger(csp, Rated(csp), "line"), seen |-> {}] ELSE Scanned(After[n - 1])
  IN  Rates(csp, After[Cardinality(names)].r)

\* A tag is made of the body as it was received.
execute_client_body_taggers(csp, body) ==
  Rates(csp, Walk(csp, Rated(csp), "client-body-tagger", [t \in Taggers |-> BodyTag(t, body)]))
=============================================================================
