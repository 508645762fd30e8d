---------------------------- MODULE ActionSpecs ----------------------------
(***************************************************************************)
(* Action sections and their algebra (actions.c).  A line of an actions    *)
(* file is compiled into an action specification, get_actions(); aliases   *)
(* are compiled once and merged in, merge_actions(); what applies to a     *)
(* request is the current action, into which the sections that match are   *)
(* merged one after the other, merge_current_action().                     *)
(*                                                                         *)
(* An action is a bit, a bit with a string, or a list of strings, of which *)
(* the model keeps the members and not the order.                          *)
(***************************************************************************)
EXTENDS Integers, SequencesExt

CONSTANTS
  Bools,     \* actions that are on or off
  Strings,   \* actions with a string
  Multis,    \* actions with a list of strings
  NoValue,
  Braced     \* the values with a closing brace in them, written "\}" in a file

\* The tables of actionlist.h name every action once.
ASSUME ActionKinds == Bools \cap Strings = {} /\ (Bools \cup Strings) \cap Multis = {}
                     /\ "obsolete" \notin Bools \cup Strings \cup Multis

\* The reason of "+block" without one; NoValue is a null pointer.
NoReason == "No reason specified."
ASSUME ReasonAssumption == NoReason # NoValue

Flags == Bools \cup Strings
Names == Flags \cup Multis
NoStrings == [n \in Strings |-> NoValue]
NoLists   == [n \in Multis |-> {}]

\* init_action(), with the mask that get_actions() sets.
EmptySpec ==
  [mask |-> Flags, add |-> {}, string |-> NoStrings,
   removeAll |-> {}, remove |-> NoLists, madd |-> NoLists]

\* init_current_action()
NoAction == [flags |-> {}, string |-> NoStrings, multi |-> NoLists]

Overridden(old, new) == [n \in Strings |-> IF new[n] # NoValue THEN new[n] ELSE old[n]]

AddedStay(dest, src) == dest.add                          \* mutant of AddedLeft
AddedLeft(dest, src) == dest.add \cap src.mask

merge_actions(dest, src) ==
  [mask      |-> dest.mask \cap src.mask,
   add       |-> AddedLeft(dest, src) \cup src.add,
   string    |-> Overridden(dest.string, src.string),
   removeAll |-> dest.removeAll \cup src.removeAll,
   remove    |-> [n \in Multis |-> CASE n \in src.removeAll  -> {}
                                     [] n \in dest.removeAll -> dest.remove[n]
                                     [] OTHER -> dest.remove[n] \cup src.remove[n]],
   madd      |-> [n \in Multis |-> IF n \in src.removeAll THEN src.madd[n]
                                   ELSE (dest.madd[n] \ src.remove[n]) \cup src.madd[n]]]

merge_current_action(dest, src) ==
  [flags  |-> (dest.flags \cap src.mask) \cup src.add,
   string |-> Overridden(dest.string, src.string),
   multi  |-> [n \in Multis |-> IF n \in src.removeAll THEN src.madd[n]
                                ELSE (dest.multi[n] \ src.remove[n]) \cup src.madd[n]]]

-----------------------------------------------------------------------------
(* get_actions(): a line is a sequence of words [sign, name, value]; sign  *)
(* is "+", "-" or "" for an alias.                                         *)

Word(sign, name, value) == [sign |-> sign, name |-> name, value |-> value]
Failed   == [ok |-> FALSE, spec |-> EmptySpec]
Is(spec) == [ok |-> TRUE, spec |-> spec]

AddBit(spec, n) == [spec EXCEPT !.add = @ \cup {n}]
RemoveBit(spec, n) == [spec EXCEPT !.mask = @ \ {n}, !.add = @ \ {n}]

\* "+block" without a reason is tolerated.
AddString(spec, w) ==
  IF w.value # NoValue THEN Is([AddBit(spec, w.name) EXCEPT !.string[w.name] = w.value])
  ELSE IF w.name = "block" THEN Is([AddBit(spec, w.name) EXCEPT !.string[w.name] = NoReason])
  ELSE Failed

AddMulti(spec, w) ==
  IF w.value = NoValue THEN Failed
  ELSE Is([spec EXCEPT !.remove[w.name] = @ \ {w.value}, !.madd[w.name] = @ \cup {w.value}])

RemoveMulti(spec, w) ==
  IF w.value = NoValue
  THEN [spec EXCEPT !.removeAll = @ \cup {w.name}, !.remove[w.name] = {}, !.madd[w.name] = {}]
  ELSE [spec EXCEPT !.madd[w.name] = @ \ {w.value},
                    !.remove[w.name] = IF w.name \in spec.removeAll THEN @ ELSE @ \cup {w.value}]

\* Names that used to be valid are ignored, unknown ones are errors.
Option(spec, w, aliases) ==
  CASE w.name \in Bools   -> IF w.value # NoValue THEN Failed
                             ELSE Is(IF w.sign = "+" THEN AddBit(spec, w.name) ELSE RemoveBit(spec, w.name))
    [] w.name \in Strings -> IF w.sign = "+" THEN AddString(spec, w)
                             ELSE Is([RemoveBit(spec, w.name) EXCEPT !.string[w.name] = NoValue])
    [] w.name \in Multis  -> IF w.sign = "+" THEN AddMulti(spec, w) ELSE Is(RemoveMulti(spec, w))
    [] w.name \in DOMAIN aliases \ Names -> Is(merge_actions(spec, aliases[w.name]))
    [] w.name = "obsolete" /\ "obsolete" \notin DOMAIN aliases -> Is(spec)
    [] OTHER -> Failed

Taken(r, w, aliases) == IF r.ok THEN Option(r.spec, w, aliases) ELSE r
get_actions(line, aliases) ==
  LET After[n \in 0..Len(line)] == IF n = 0 THEN Is(EmptySpec) ELSE Taken(After[n - 1], line[n], aliases)
  IN  After[Len(line)]

-----------------------------------------------------------------------------
(* actions_to_text(), with which the editor of the web interface writes a  *)
(* section back, and what a reader makes of it: a closing brace within a   *)
(* value ends the value early.                                             *)

ListText(spec, n) ==
  (IF n \in spec.removeAll THEN <<Word("-", n, NoValue)>>
   ELSE SetToSeq({Word("-", n, v) : v \in spec.remove[n]}))
  \o SetToSeq({Word("+", n, v) : v \in spec.madd[n]})

actions_to_text(spec) ==
  LET mask == spec.mask \cup spec.add IN
  SetToSeq({Word("-", n, NoValue) : n \in Flags \ mask}
           \cup {Word("+", n, IF n \in Strings THEN spec.string[n] ELSE NoValue) : n \in spec.add})
  \o FoldSet(LAMBDA n, text : text \o ListText(spec, n), <<>>, Multis)

get_action_token(w) == IF w.value \in Braced THEN Word(w.sign, "unknown", NoValue) ELSE w
ReadBack(text)      == get_actions([i \in DOMAIN text |-> get_action_token(text[i])], <<>>)

-----------------------------------------------------------------------------
(* What sections are documented to mean: "the last match wins", word by    *)
(* word.                                                                   *)

\* Only "+block" may come without a value.
Meant(w) == IF w.value = NoValue THEN NoReason ELSE w.value

\* The effect of one word on what is in force.
OneWord(c, w) ==
  CASE w.name \in Flags -> [c EXCEPT !.flags = IF w.sign = "+" THEN @ \cup {w.name} ELSE @ \ {w.name},
                              !.string = IF w.name \in Strings /\ w.sign = "+"
                                         THEN [@ EXCEPT ![w.name] = Meant(w)] ELSE @]
    [] w.name \in Multis -> [c EXCEPT !.multi[w.name] =
                               IF w.sign = "+" THEN @ \cup {w.value}
                               ELSE IF w.value = NoValue THEN {} ELSE @ \ {w.value}]
    [] OTHER -> c
WordByWord(c, line) ==
  LET After[n \in 0..Len(line)] == IF n = 0 THEN c ELSE OneWord(After[n - 1], line[n])
  IN  After[Len(line)]

\* The string of an action that is off is not looked at.
InForce(c) ==
  [flags |-> c.flags, multi |-> c.multi,
   string |-> [n \in Strings |-> IF n \in c.flags THEN c.string[n] ELSE NoValue]]
=============================================================================
