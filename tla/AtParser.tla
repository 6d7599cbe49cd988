------------------------------ MODULE AtParser ------------------------------
(***************************************************************************)
(* What the manager makes of the bytes of the modem endpoint:              *)
(* modem_response (modem.c) looks for two reports in the read buffer and   *)
(* gives the transfer to at_parse (atcmd.c), whose scanner is atcmd.l and  *)
(* whose grammar is atcmd.y.  A transfer may end anywhere in a line.       *)
(*                                                                         *)
(* The read buffer keeps the bytes of earlier transfers behind the new     *)
(* ones, and the scanner keeps its start condition from one transfer to    *)
(* the next.  A transfer is handled in one step: nothing interleaves.      *)
(*                                                                         *)
(* Names are cut to a letter: "R" stands for the RROR of ERROR, "N" for    *)
(* NWSTATEIND, "C" for CGACT, "a" for any other letter.  A character that  *)
(* is no letter and no digit has its name, as in "plus" for +.             *)
(***************************************************************************)
EXTENDS Integers, Sequences, FiniteSets, SequencesExt

CONSTANTS
  Conversations, \* bound: the sequences of lines the modem may send
  MaxTransfers   \* bound: transfers they arrive in

Kinds == {"ok", "error", "response", "quoted", "dash", "cme", "nw3", "nw5", "inactive", "echo", "ate1"}

ASSUME ParserAssumption == Conversations \subseteq Seq(Kinds) /\ MaxTransfers \in Nat

CRLF == <<"CR", "LF">>
Quote == "quote"

\* What the modem sends: the text of a line ...
Text == [
  ok       |-> CRLF \o <<"O", "K">> \o CRLF,
  error    |-> CRLF \o <<"E", "R">> \o CRLF,
  response |-> CRLF \o <<"plus", "a", "colon", "space", "1", "comma", "0">> \o CRLF,
  quoted   |-> CRLF \o <<"plus", "a", "colon", "space", Quote, "a", Quote, "comma", Quote, Quote>> \o CRLF,
  dash     |-> CRLF \o <<"plus", "a", "colon", Quote, "a", "hyphen", "a", Quote>> \o CRLF,
  cme      |-> CRLF \o <<"plus", "a", "space", "E", "R", "colon", "1">> \o CRLF,
  nw3      |-> CRLF \o <<"plus", "N", "colon", "space", "3">> \o CRLF,
  nw5      |-> CRLF \o <<"plus", "N", "colon", "space", "5">> \o CRLF,
  inactive |-> CRLF \o <<"plus", "C", "colon", "1", "comma", "0">> \o CRLF,
  echo     |-> <<"A", "T", "plus", "a", "equals", Quote, "a", Quote>> \o CRLF,
  ate1     |-> <<"A", "T", "E", "1">> \o CRLF ]

\* ... and the callback it is meant for.
Meant(type, name, args) == [type |-> type, name |-> name, args |-> args]
NoName == << >>
NULL == << >>

Gives == [
  ok       |-> Meant("OK", NoName, << >>),
  error    |-> Meant("ERROR", NoName, << >>),
  response |-> Meant("RESPONSE", <<"a">>, << <<"1">>, <<"0">> >>),
  quoted   |-> Meant("RESPONSE", <<"a">>, << <<"a">>, NULL >>),
  dash     |-> Meant("RESPONSE", <<"a">>, << <<"a", "hyphen", "a">> >>),
  cme      |-> Meant("RESPONSE", <<"a", "space", "E", "R">>, << <<"1">> >>),
  nw3      |-> Meant("RESPONSE", <<"N">>, << <<"3">> >>),
  nw5      |-> Meant("RESPONSE", <<"N">>, << <<"5">> >>),
  inactive |-> Meant("RESPONSE", <<"C">>, << <<"1">>, <<"0">> >>),
  echo     |-> Meant("COMMAND", <<"a">>, << <<"a">> >>),
  ate1     |-> Meant("COMMAND", <<"A", "T", "E", "1">>, << >>) ]

VARIABLES
  sent,      \* the lines of the modem, in order
  pos,       \* how many of their characters have been transferred
  transfers, \* how many transfers there were
  c,         \* read_buffer_modem, as far as it was ever written
  nwstate, cgact_1_0,
  start,     \* the start condition of the scanner
  flexmark,
  args,      \* args, up to narg
  handled,   \* history: the callbacks, each with the line whose end caused it
  cuts       \* history: the places where a transfer ended

vars == <<sent, pos, transfers, c, nwstate, cgact_1_0, start, flexmark, args, handled, cuts>>

\* The characters of a sequence of lines.
Spelling(lines) == FoldLeft(LAMBDA s, l : s \o Text[l], << >>, lines)
Stream == Spelling(sent)

-----------------------------------------------------------------------------
(* The scanner, atcmd.l.                                                   *)

Letters == {"A", "T", "O", "K", "E", "R", "N", "C", "a", "0", "1", "3", "5"}
Marks   == {"CR", "LF", "plus", "amp", "comma", "semi", "colon", "caret", "query", "equals"}

Token(kind, text) == [is |-> kind, text |-> text]

\* The longest match, and of two rules that match as much the first.
Word(text) ==
  CASE text = <<"A", "T">> -> Token("AT", text)
    [] Len(text) > 2 /\ SubSeq(text, 1, 2) = <<"A", "T">> /\ "space" \notin ToSet(text) ->
         Token("ATCMD", text)
    [] text = <<"O", "K">> -> Token("OK", text)
    [] text = <<"E", "R">> -> Token("ERROR", text)
    [] OTHER -> Token("TXT", text)

-----------------------------------------------------------------------------
(* The grammar, atcmd.y: it is regular, and this is its automaton.  No arc *)
(* from a state with a token: a syntax error, yyparse returns.             *)

Arcs ==
       { <<"line", "CR", "cr">>, <<"cr", "LF", "retline">>,
         <<"retline", "OK", "end">>, <<"retline", "ERROR", "end">>,
         <<"retline", "plus", "reply">>, <<"reply", "TXT", "name">>, <<"name", "colon", "arglist">>,
         <<"line", "AT", "at">>, <<"line", "ATCMD", "at">>,
         <<"at", "TXT", "cmd">>, <<"sep", "TXT", "cmd">>,
         <<"arg", "comma", "arglist">>, <<"eq", "query", "end">>, <<"endcr", "LF", "line">> }
  \cup {"at"} \X {"amp", "plus", "caret"} \X {"sep"}
  \cup {"at", "cmd"} \X {"query"} \X {"end"} \cup {"at", "cmd"} \X {"equals"} \X {"eq"}
  \cup {"eq", "arglist"} \X {"TXT", "TXTARG"} \X {"arg"}
  \cup {"name", "at", "cmd", "arg", "end"} \X {"CR"} \X {"endcr"}

\* Mutant: narg is not reset at the end of a line.
on_endline_KeepsArgs(p) ==
  [p EXCEPT !.got = Append(@, [cb |-> Meant(p.type, p.name, p.args), at |-> p.at])]

on_endline(p) ==
  [p EXCEPT !.got = Append(@, [cb |-> Meant(p.type, p.name, p.args), at |-> p.at]),
            !.args = << >>]

\* on_command, on_response, and the assignments to cmdtype for OK and ERROR.
Named(p, type, name) == [p EXCEPT !.type = type, !.name = name]

on_arg(p, text) == [p EXCEPT !.args = Append(@, text)]

\* yyparse gets a token.
Parse(p, token) ==
  LET next == {arc[3] : arc \in {x \in Arcs : x[1] = p.state /\ x[2] = token.is}}
      q    == [p EXCEPT !.state = CHOOSE s \in next : TRUE]
  IN  IF next = {} THEN [p EXCEPT !.state = "error"]
      ELSE CASE token.is \in {"AT", "ATCMD"} \/ (p.state \in {"at", "sep"} /\ token.is = "TXT") ->
                  Named(q, "COMMAND", token.text)
             [] p.state = "reply" -> Named(q, "RESPONSE", token.text)
             [] token.is \in {"OK", "ERROR"} -> Named(q, token.is, NoName)
             [] p.state \in {"eq", "arglist"} /\ token.is # "query" -> on_arg(q, token.text)
             [] p.state = "endcr" -> on_endline(q)
             [] OTHER -> q

-----------------------------------------------------------------------------
(* yylex, a character at a time: run is the word it is in the middle of.   *)

\* Mutant: in a quotation every character is text.
InRun_Any(p, ch) ==
  IF p.start = "ESC" THEN ch # Quote
  ELSE ch \in Letters \/ (ch = "space" /\ p.run # << >>)

InRun(p, ch) ==
  IF p.start = "ESC" THEN ch \in Letters \cup {"space", "comma"}
  ELSE ch \in Letters \/ (ch = "space" /\ p.run # << >>)

EndRun(p) ==
  IF p.run = << >> \/ p.state = "error" THEN p
  ELSE IF p.start = "ESC"
       THEN Parse([p EXCEPT !.run = << >>, !.flexmark = TRUE], Token("TXTARG", p.run))
       ELSE Parse([p EXCEPT !.run = << >>], Word(p.run))

\* Mutant: the closing quote leaves ESC only behind a text.
quote_KeepsEsc(p) ==
  CASE p.start = "INITIAL" -> [p EXCEPT !.start = "ESC", !.flexmark = FALSE]
    [] p.start = "ESC" /\ p.flexmark -> [p EXCEPT !.start = "INITIAL"]
    [] OTHER -> Parse(p, Token("TXTARG", NULL))

quote(p) ==
  CASE p.start = "INITIAL" -> [p EXCEPT !.start = "ESC", !.flexmark = FALSE]
    [] p.start = "ESC" /\ p.flexmark -> [p EXCEPT !.start = "INITIAL"]
    [] OTHER -> Parse([p EXCEPT !.start = "INITIAL"], Token("TXTARG", NULL))

\* A character no rule takes is dropped, in ESC also a mark.
Char(p, ch) ==
  IF p.state = "error" THEN p
  ELSE CASE ch = Quote -> quote(p)
         [] ch \in Marks /\ p.start = "INITIAL" -> Parse(p, Token(ch, << >>))
         [] OTHER -> p

Scan(p, ch) ==
  LET q == [p EXCEPT !.at = @ + 1]
  IN  IF p.state = "error" THEN p
      ELSE IF InRun(p, ch) THEN [q EXCEPT !.run = Append(@, ch)]
      ELSE Char(EndRun(q), ch)

Parser == [start |-> start, flexmark |-> flexmark, state |-> "line", run |-> << >>,
           type |-> "OK", name |-> NoName, args |-> << >>, got |-> << >>, at |-> pos]

\* Mutant: at_parse does not reset narg.
at_parse_KeepsArgs(text) == EndRun(FoldLeft(Scan, [Parser EXCEPT !.args = args], text))

\* Mutant: a syntax error puts the scanner back into its first start condition.
at_parse_Restarts(text) ==
  LET p == EndRun(FoldLeft(Scan, Parser, text))
  IN  IF p.state = "error" THEN [p EXCEPT !.start = "INITIAL"] ELSE p

at_parse(text) == EndRun(FoldLeft(Scan, Parser, text))

-----------------------------------------------------------------------------
(* modem_response.                                                         *)

NWSTATEIND == <<"plus", "N", "colon", "space">>
CGACT      == <<"plus", "C", "colon", "1", "comma", "0">>

\* The places of s behind each occurrence of pattern.
Behind(s, pattern) ==
  {k + Len(pattern) : k \in {j \in 1..(Len(s) - Len(pattern) + 1) :
                               SubSeq(s, j, j + Len(pattern) - 1) = pattern}}

Digit == [d \in {"0", "1", "3", "5"} |->
            CASE d = "0" -> 0 [] d = "1" -> 1 [] d = "3" -> 3 [] d = "5" -> 5]

atoi(s) ==
  LET read(acc, ch) == IF acc.end \/ ch \notin DOMAIN Digit THEN [acc EXCEPT !.end = TRUE]
                       ELSE [acc EXCEPT !.value = 10 * @ + Digit[ch]]
  IN  FoldLeft(read, [value |-> 0, end |-> FALSE], s).value

\* strstr sees the buffer up to its first 0.
String(s) == LET zeros == {k \in DOMAIN s : s[k] = "NUL"}
             IN  IF zeros = {} THEN s
                 ELSE SubSeq(s, 1, (CHOOSE k \in zeros : \A j \in zeros : k <= j) - 1)

Reports(s) == {atoi(SubSeq(s, k, Len(s))) : k \in Behind(s, NWSTATEIND)}

Largest(S) == CHOOSE m \in S : \A n \in S : n <= m

\* Mutant: only the first report of a buffer is read, and taken as it is.
nwstate_First(s) ==
  LET places == Behind(s, NWSTATEIND)
  IN  IF places = {} THEN nwstate
      ELSE atoi(SubSeq(s, CHOOSE k \in places : \A j \in places : k <= j, Len(s)))

\* The loop _find_nws.
find_nws(s) == Largest({nwstate} \cup Reports(s))

\* A transfer of n characters, whose callback is modem_response.
modem_response(n) ==
  LET new  == SubSeq(Stream, pos + 1, pos + n)
      full == new \o SubSeq(c, n + 1, Len(c))
      p    == at_parse(new)
  IN  /\ c' = new \o <<"NUL">> \o SubSeq(c, n + 2, Len(c))
      /\ nwstate' = find_nws(String(full))
      /\ cgact_1_0' = (cgact_1_0 \/ Behind(String(full), CGACT) # {})
      /\ start' = p.start /\ flexmark' = p.flexmark /\ args' = p.args
      /\ handled' = handled \o p.got

-----------------------------------------------------------------------------
Init ==
  /\ sent \in Conversations
  /\ pos = 0 /\ transfers = 0
  /\ c = << >> /\ nwstate = 0 /\ cgact_1_0 = FALSE
  /\ start = "INITIAL" /\ flexmark = FALSE /\ args = << >>
  /\ handled = << >> /\ cuts = {}

Transfer(n) ==
  /\ transfers < MaxTransfers
  /\ modem_response(n)
  /\ pos' = pos + n /\ transfers' = transfers + 1 /\ cuts' = cuts \cup {pos + n}
  /\ UNCHANGED sent

Next == \E n \in 1..(Len(Stream) - pos) : Transfer(n)

Spec == Init /\ [][Next]_vars

-----------------------------------------------------------------------------
(* Properties.                                                             *)

\* The place behind line k, and the lines that end in from+1..to.
End(k) == Len(Spelling(SubSeq(sent, 1, k)))
LinesIn(from, to) == {k \in DOMAIN sent : from < End(k) /\ End(k) <= to}

\* Line k arrived in more than one transfer.
IsCut(k) == \E x \in cuts : End(k - 1) < x /\ x < End(k)

TypeOK ==
  /\ sent \in Conversations
  /\ pos \in 0..Len(Stream) /\ transfers \in 0..MaxTransfers
  /\ Len(c) <= pos + 1
  /\ nwstate \in Nat /\ cgact_1_0 \in BOOLEAN
  /\ start \in {"INITIAL", "ESC"} /\ flexmark \in BOOLEAN
  /\ args \in Seq(Seq(Letters \cup {"space", "comma"}))
  /\ Len(handled) <= Len(sent)
  /\ cuts \subseteq 1..Len(Stream)

\* Wherever the transfers end, no callback gets less, more or something else than
\* its line: an OK, an ERROR or a response comes from a line that is one, with the
\* arguments of that line alone (atcmd.y:26-33, atcmd.c:107-132).  A command is only
\* an echo; the end of a cut one can pass for another command.
HandledAsSent ==
  \A j \in DOMAIN handled :
    \E k \in DOMAIN sent :
      /\ handled[j].at = End(k)
      /\ handled[j].cb.type # "COMMAND" => handled[j].cb = Gives[sent[k]]

\* narg, which nothing compares with the size of args, never grows over more than
\* one line, not even by lines that end in a syntax error (atcmd.c:88, atcmd.c:145).
ArgsOfOneLine == \A j \in DOMAIN handled : Len(handled[j].cb.args) <= 2 /\ Len(args) <= 2

\* Each callback of a transfer of whole lines, in order: what the grammar is for.
\* (Every kind of line but "dash": a quotation with a character the scanner has
\* no rule for.)
HearsWholeLines ==
  [][ /\ start = "INITIAL"
      /\ {pos, pos'} \subseteq {0} \cup {End(k) : k \in DOMAIN sent}
      /\ \A k \in LinesIn(pos, pos') : sent[k] # "dash"
      => \A k \in LinesIn(pos, pos') :
           \E j \in DOMAIN handled' : handled'[j] = [cb |-> Gives[sent[k]], at |-> End(k)] ]_vars

\* The scanner is left inside a quotation only by a line with a quote that was cut,
\* or that has a character in its quotation the scanner has no rule for (atcmd.l:26).
DeafOnlyByQuotation ==
  start = "ESC" => \E k \in DOMAIN sent : sent[k] = "dash" \/ (Quote \in ToSet(Text[sent[k]]) /\ IsCut(k))

\* Once it is, nothing the modem sends is heard, OK or not, until a transfer has
\* a quote in front of every other text (atcmd.l:26-34, atcmd.c:156-159).
DeafUntilQuote ==
  [][ LET new   == SubSeq(Stream, pos + 1, pos')
          first == SelectInSeq(new, LAMBDA ch : ch \in Letters \cup {"space", "comma", Quote})
      IN  start = "ESC" /\ (first = 0 \/ new[first] # Quote) => handled' = handled /\ start' = "ESC" ]_vars

\* If no report was cut, nwstate is the largest the modem has reported, and
\* cgact_1_0 says that it reported +CGACT:1,0: the bytes that earlier transfers left
\* behind the new ones in the buffer do no harm (modem.c:59-78).
StateFromReports ==
  LET arrived == LinesIn(0, pos)
      partly  == {k \in DOMAIN sent : IsCut(k) /\ sent[k] \in {"nw3", "nw5", "inactive"}}
  IN  partly = {} =>
        /\ nwstate = Largest({0} \cup {3 : k \in {x \in arrived : sent[x] = "nw3"}}
                                 \cup {5 : k \in {x \in arrived : sent[x] = "nw5"}})
        /\ cgact_1_0 = \E k \in arrived : sent[k] = "inactive"
=============================================================================
