-------------------------- MODULE MCServerResponse --------------------------
(* TLC instances of ServerResponse: bodies of up to three chunks, one with a  *)
(* longer size line, larger than the buffer and smaller than five bytes.      *)
EXTENDS ServerResponse, Sequences

\* The chunks of a body, from the lengths of size lines and data.
Start[lengths \in Seq(Nat \X Nat)] ==
  IF lengths = <<>> THEN 0
  ELSE Start[SubSeq(lengths, 1, Len(lengths) - 1)]
         + lengths[Len(lengths)][1] + lengths[Len(lengths)][2] + 2

Body(lengths) ==
  LET pos(i) == Start[SubSeq(lengths, 1, i - 1)] IN
  [framing |-> "chunked", length |-> pos(Len(lengths) + 1),
   chunks |-> {[start |-> pos(i), data |-> pos(i) + lengths[i][1], next |-> pos(i + 1),
                last |-> i = Len(lengths)] : i \in DOMAIN lengths}]

Plain(framing, n) == [framing |-> framing, length |-> n, chunks |-> {}]

MCResponses ==
  { Body(<< <<3, 0>> >>), Body(<< <<3, 2>>, <<3, 0>> >>),
    Body(<< <<3, 1>>, <<4, 7>>, <<3, 0>> >>), Body(<< <<5, 3>>, <<3, 1>>, <<3, 1>>, <<3, 0>> >>),
    Plain("length", 0), Plain("length", 3), Plain("length", 24),
    Plain("close", 24), Plain("none", 0) }
=============================================================================
