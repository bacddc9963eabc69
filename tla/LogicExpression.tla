--------------------------- MODULE LogicExpression ---------------------------
(***************************************************************************)
(* The trigger expression of LogicFilter: infixtorpn.cxx turns an infix        *)
(* expression into reverse Polish notation, LogiCalc.cxx filters and           *)
(* evaluates that, TriggerMap.cxx tabulates it.  No variables.                 *)
(*                                                                         *)
(* Abstractions.  An expression is a sequence of tokens; how characters make   *)
(* tokens is left out.  The bits of a table index are the set of signals that  *)
(* are on.                                                                  *)
(***************************************************************************)
EXTENDS Integers, SequencesExt

CONSTANT NsigMax   (* fNsigMax: signals have ids below it; also the bits of an *)
                   (* int, which limit the size of the table; 32 in the code *)

Op(c)  == [kind |-> c, id |-> -1]
Sig(n) == [kind |-> "signal", id |-> n]

(* "x" and "d" are commands of LogiCalc only, "RPN" marks an expression that is in     *)
(* reverse Polish notation, "other" is whatever else somebody may write.           *)
Tokens ==
  [kind : {"&", "|", "!", "(", ")", "x", "d", "RPN", "other"}, id : {-1}] \cup [kind : {"signal"}, id : Nat]

StartsWith(s, c) == s # <<>> /\ Head(s).kind = c

-----------------------------------------------------------------------------
(* The parser.  A result is a node, of which only its RPN is kept, or the null *)
(* pointer, or an exception; rest are the tokens that are left.                *)

Results == [status : {"node", "null", "thrown"}, rpn : Seq(Tokens), rest : Seq(Tokens)]

Node(rpn, rest) == [status |-> "node", rpn |-> rpn, rest |-> rest]
Null(rest)      == [status |-> "null", rpn |-> <<>>, rest |-> rest]
Thrown          == [status |-> "thrown", rpn |-> <<>>, rest |-> <<>>]

(* left op right, where right may be null: to_rpn leaves it out.               *)
Binary(left, right, op) ==
  IF right.status = "thrown" THEN Thrown ELSE Node(left.rpn \o right.rpn \o <<Op(op)>>, right.rest)

(* A call of a rule has the operand on the left, for the rules that begin with an  *)
(* operand the null pointer, and with it the tokens that are left.               *)
Calls == [rule : {"or", "orLoop", "and", "andLoop", "not"}, left : Results]

Call(rule, left) == [rule |-> rule, left |-> left]

(* The rules call each other through a recursive function, Parse.  It is passed on   *)
(* as P.                                                                    *)
ParseValue(P, s) ==
  CASE s = <<>> -> Null(s)
    [] StartsWith(s, "signal") -> Node(<<Head(s)>>, Tail(s))
    [] StartsWith(s, "(") ->
         LET inner == P[Call("or", Null(Tail(s)))] IN
         IF inner.status # "thrown" /\ StartsWith(inner.rest, ")")
         THEN [inner EXCEPT !.rest = Tail(@)] ELSE Thrown
    [] OTHER -> Thrown

(* Mutant: "!" reaches to the end of the conjunction.                        *)
ParseNot_Greedy(P, s) ==
  IF StartsWith(s, "!")
  THEN LET operand == P[Call("and", Null(Tail(s)))] IN
       IF operand.status = "thrown" THEN Thrown ELSE Node(operand.rpn \o <<Op("!")>>, operand.rest)
  ELSE ParseValue(P, s)

ParseNot(P, s) ==
  IF StartsWith(s, "!")
  THEN LET operand == P[Call("not", Null(Tail(s)))] IN
       IF operand.status = "thrown" THEN Thrown ELSE Node(operand.rpn \o <<Op("!")>>, operand.rest)
  ELSE ParseValue(P, s)

(* The loops, from the operand on their left.                                 *)
AndLoop(P, left) ==
  IF left.status = "node" /\ StartsWith(left.rest, "&")
  THEN P[Call("andLoop", Binary(left, P[Call("not", Null(Tail(left.rest)))], "&"))] ELSE left

OrLoop(P, left) ==
  IF left.status = "node" /\ StartsWith(left.rest, "|")
  THEN P[Call("orLoop", Binary(left, P[Call("and", Null(Tail(left.rest)))], "|"))] ELSE left

Rule(P, call) ==
  CASE call.rule = "not"     -> ParseNot(P, call.left.rest)
    [] call.rule = "andLoop" -> AndLoop(P, call.left)
    [] call.rule = "and"     -> AndLoop(P, ParseNot(P, call.left.rest))
    [] call.rule = "orLoop"  -> OrLoop(P, call.left)
    [] call.rule = "or"      -> OrLoop(P, P[Call("and", call.left)])

Parse[call \in Calls] == Rule(Parse, call)

(* to_rpn of the null pointer, for an empty expression, has no defined outcome. *)
InfixToRPN(s) ==
  LET ast == Parse[Call("or", Null(s))] IN IF ast.rest # <<>> THEN Thrown ELSE ast

-----------------------------------------------------------------------------
(* LogiCalc.                                                               *)

(* SetFormula: an expression may be in reverse Polish notation already.        *)
Formula(s) == IF StartsWith(s, "RPN") THEN Node(Tail(s), <<>>) ELSE InfixToRPN(s)

(* ComPushBack: what is no operator and no signal below the limit is reported  *)
(* and dropped.                                                            *)
IsCommand(c) ==
  IF c.kind = "signal" THEN c.id < NsigMax ELSE c.kind \in {"&", "|", "!", "x", "d"}

Commands(rpn) ==
  LET kept[n \in 0 .. Len(rpn)] ==
        IF n = 0 THEN <<>> ELSE IF IsCommand(rpn[n]) THEN Append(kept[n - 1], rpn[n]) ELSE kept[n - 1]
  IN  kept[Len(rpn)]

(* fSigMax begins at 0.                                                      *)
SigMax(commands) ==
  Max({n \in 0 .. NsigMax - 1 : n = 0 \/ \E i \in DOMAIN commands : commands[i] = Sig(n)})

(* A command on the stack, whose top is its last element.  A command without   *)
(* its operands is skipped, but "!" reads the top of an empty stack.            *)
Step(state, c, on) ==
  LET n   == Len(state.stack)
      top == state.stack[n]
      two == [state EXCEPT !.stack = SubSeq(@, 1, n - 2)]
  IN CASE c.kind = "signal" -> [state EXCEPT !.stack = Append(@, c.id \in on)]
       [] c.kind = "&" /\ n > 1 ->
            [two EXCEPT !.stack = Append(@, top /\ state.stack[n - 1])]
       [] c.kind = "|" /\ n > 1 ->
            [two EXCEPT !.stack = Append(@, top \/ state.stack[n - 1])]
       [] c.kind = "x" /\ n > 1 -> [two EXCEPT !.stack = @ \o <<top, state.stack[n - 1]>>]
       [] c.kind = "d" /\ n > 0 -> [state EXCEPT !.stack = Front(@)]
       [] c.kind = "!" /\ n > 0 -> [state EXCEPT !.stack[n] = ~@]
       [] c.kind = "!" /\ n = 0 -> [state EXCEPT !.defined = FALSE]
       [] OTHER -> state

Calc(commands, on) ==
  LET after[n \in 0 .. Len(commands)] ==
        IF n = 0 THEN [stack |-> <<>>, defined |-> TRUE] ELSE Step(after[n - 1], commands[n], on)
      end == after[Len(commands)]
  IN  [defined |-> end.defined,
       value   |-> end.stack # <<>> /\ Last(end.stack)]

-----------------------------------------------------------------------------
(* TriggerMap: the table has as many bits as the expression has signals.        *)

MakeTable(commands) ==
  [nsignal |-> SigMax(commands) + 1,
   lut     |-> {on \in SUBSET (0 .. SigMax(commands)) : Calc(commands, on).value}]

(* The size of the table is 1 << nsignal, undefined for as many as an int has   *)
(* bits; and no "!" may meet an empty stack.                                 *)
Defined(commands) == SigMax(commands) + 1 < NsigMax /\ Calc(commands, {}).defined

LookUp(map, on) == on \subseteq 0 .. map.nsignal - 1 /\ on \in map.lut

-----------------------------------------------------------------------------
(* What an expression means, by its grammar: the reference that the table is       *)
(* compared with.  A sum is a term or a sum "|" a term, a term is a factor or a      *)
(* term "&" a factor, a factor is "!" a factor, or a sum in parentheses, or a       *)
(* signal.  A reading is the set of the combinations of signals that make the       *)
(* expression true.                                                          *)

Combinations == SUBSET (0 .. NsigMax - 1)

Places(s, c) == {i \in DOMAIN s : s[i].kind = c}
Before(s, i) == SubSeq(s, 1, i - 1)
After(s, i)  == SubSeq(s, i + 1, Len(s))
Inside(s)    == SubSeq(s, 2, Len(s) - 1)

(* The readings of "!", "&" and "|" from those of their operands.                 *)
Not(A)       == {Combinations \ a : a \in A}
Both(A, B)   == {a \cap b : a \in A, b \in B}
Either(A, B) == {a \cup b : a \in A, b \in B}

(* The readings of s as a factor, a term and a sum, from those of what is shorter,  *)
(* which is passed on as R.                                                   *)
Factors(R, s) ==
  CASE StartsWith(s, "!") -> Not(R[Tail(s)].factor)
    [] StartsWith(s, "(") /\ Last(s).kind = ")" -> R[Inside(s)].sum
    [] StartsWith(s, "signal") /\ Len(s) = 1 -> {{on \in Combinations : Head(s).id \in on}}
    [] OTHER -> {}

Terms(R, s) ==
  Factors(R, s) \cup
  UNION {Both(R[Before(s, i)].term, R[After(s, i)].factor) : i \in Places(s, "&")}

Sums(R, s) ==
  Terms(R, s) \cup
  UNION {Either(R[Before(s, i)].sum, R[After(s, i)].term) : i \in Places(s, "|")}

(* The readings of an expression. *)
Readings(s) ==
  LET of[r \in Seq(Tokens)] == [factor |-> Factors(of, r), term |-> Terms(of, r), sum |-> Sums(of, r)]
  IN  of[s].sum

WellFormed(s) == Readings(s) # {}

(* The combinations of signals that make the well-formed expression s true: it has  *)
(* one reading.                                                             *)
Meaning(s) == UNION Readings(s)

=============================================================================
