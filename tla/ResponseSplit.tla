---------------------------- MODULE ResponseSplit ----------------------------
(* split_response of status.rs: a reply cut into messages of at most TelegramMax characters, at   *)
(* paragraphs where it can, then at lines, then anywhere.  A text is a sequence of naturals and 0 *)
(* is the newline; a character is one element, as chars() counts them.                            *)
EXTENDS Naturals, Sequences, SequencesExt

CONSTANT TelegramMax

ASSUME TelegramMaxAssumption == TelegramMax \in Nat \ {0}

NL == 0
Text == Seq(Nat)

(* A loop over a sequence: Step of what the elements before gave and the next one.  A recursive   *)
(* function of the number of elements read, so that proofs can unfold it.                         *)
Loop(Step(_, _), start, seq) ==
  LET after[n \in 0..Len(seq)] == IF n = 0 THEN start ELSE Step(after[n - 1], seq[n])
  IN after[Len(seq)]

(* What a reader sees of a text: every character but the newlines.                                *)
See(letters, c) == IF c = NL THEN letters ELSE Append(letters, c)
Letters(text) == Loop(See, <<>>, text)

(* A text read into parts: those that ended and the one that is read.                             *)
NoParts == [parts |-> <<>>, part |-> <<>>]
Extend(acc, c) == [acc EXCEPT !.part = Append(@, c)]
Cut(acc, part) == [parts |-> Append(acc.parts, part), part |-> <<>>]
AllParts(acc) == Append(acc.parts, acc.part)

(* text.split("\n\n"): separators are found from the left and do not overlap.                     *)
ReadParagraph(acc, c) ==
  IF c = NL /\ acc.part # <<>> /\ Last(acc.part) = NL THEN Cut(acc, Front(acc.part))
  ELSE Extend(acc, c)
Paragraphs(text) == AllParts(Loop(ReadParagraph, NoParts, text))

ReadLine(acc, c) == IF c = NL THEN Cut(acc, acc.part) ELSE Extend(acc, c)
Lines(text) == AllParts(Loop(ReadLine, NoParts, text))

TrimEnd(text) ==
  LET seen == {i \in 1..Len(text) : text[i] # NL}
  IN IF seen = {} THEN <<>> ELSE SubSeq(text, 1, Max(seen))

(* The loop's state: the chunks pushed and the one being filled.                                  *)
Separator(s, sep) == IF s.current = <<>> THEN <<>> ELSE sep

Fits(s, sep, part) == Len(s.current) + Len(Separator(s, sep)) + Len(part) <= TelegramMax

Join(s, sep, part) == [s EXCEPT !.current = @ \o Separator(s, sep) \o part]

Push(s) == IF s.current = <<>> THEN s
           ELSE [chunks |-> Append(s.chunks, s.current), current |-> <<>>]

(* Full pieces are pushed only when another character follows: the last, of 1..TelegramMax        *)
(* characters, stays current.                                                                     *)
HardCut(s, line) ==
  LET full == (Len(line) - 1) \div TelegramMax
      Piece(i) == SubSeq(line, (i - 1) * TelegramMax + 1, i * TelegramMax)
  IN [chunks |-> s.chunks \o [i \in 1..full |-> Piece(i)],
      current |-> SubSeq(line, full * TelegramMax + 1, Len(line))]

AddLine(s, line) ==
  IF Fits(s, <<NL>>, line) THEN Join(s, <<NL>>, line)
  ELSE IF Len(line) <= TelegramMax THEN [Push(s) EXCEPT !.current = line]
  ELSE HardCut(Push(s), line)

AddParagraph(s, paragraph) ==
  LET para == TrimEnd(paragraph)
  IN IF Fits(s, <<NL, NL>>, para) THEN Join(s, <<NL, NL>>, para)
     ELSE IF Len(para) <= TelegramMax THEN [Push(s) EXCEPT !.current = para]
     ELSE Loop(AddLine, Push(s), Lines(para))

split_response(text) ==
  Push(Loop(AddParagraph, [chunks |-> <<>>, current |-> <<>>], Paragraphs(text))).chunks

(* What the messages promise of a text: nothing a reader sees is lost, added or moved, and every  *)
(* message is one Telegram takes, neither too long nor blank.                                     *)
SplitIsFaithful(text) ==
  LET chunks == split_response(text)
  IN /\ Letters(FlattenSeq(chunks)) = Letters(text)
     /\ \A i \in 1..Len(chunks) : Len(chunks[i]) <= TelegramMax /\ Letters(chunks[i]) # <<>>
===============================================================================
