------------------------------ MODULE Console ------------------------------
(***************************************************************************)
(* The input ring of console.c.  "input" is the C structure: r, w and e are *)
(* unsigned integers that wrap at Width, a multiple of INPUT_BUF.           *)
(***************************************************************************)
EXTENDS Integers, Sequences

CONSTANTS INPUT_BUF, Width

ASSUME ConsoleAssumption ==
  /\ INPUT_BUF \in Nat \ {0} /\ Width \in Nat \ {0}
  /\ Width % INPUT_BUF = 0 /\ Width > INPUT_BUF

Add(a, b) == (a + b) % Width
Sub(a, b) == (a - b) % Width

\* The characters of buf from index a up to b.
Between(in, a, b) == [i \in 1 .. Sub(b, a) |-> in.buf[Add(a, i - 1) % INPUT_BUF]]

\* ^U: back to the start of the line, or to a newline in it.
KillLine(in) ==
  LET Newline(i) == in.buf[Sub(in.e, i) % INPUT_BUF] = "nl"
      back == CHOOSE m \in 0 .. Sub(in.e, in.w) :
                /\ \A i \in 1 .. m : ~Newline(i)
                /\ m = Sub(in.e, in.w) \/ Newline(m + 1)
  IN  [in EXCEPT !.e = Sub(@, back)]

Backspace(in) == IF in.e # in.w THEN [in EXCEPT !.e = Sub(@, 1)] ELSE in

\* Mutant: one more than fits.
HasRoom_more(in) == Sub(in.e, in.r) <= INPUT_BUF

HasRoom(in) == Sub(in.e, in.r) < INPUT_BUF

\* The ring after the character c has been stored: it is entered at the end of
\* a line, by ^D, and when the ring is full.
EntersLine(in, c) == c \in {"nl", "eot"} \/ Add(in.e, 1) = Add(in.r, INPUT_BUF)

Stored(in, c) ==
  [in EXCEPT !.buf[in.e % INPUT_BUF] = c, !.e = Add(@, 1),
             !.w = IF EntersLine(in, c) THEN Add(in.e, 1) ELSE @]

NextChar(in) == in.buf[in.r % INPUT_BUF]
=============================================================================
