--------------------------- MODULE AtParserProofs ---------------------------
(***************************************************************************)
(* What AtParser guarantees for every sequence of lines and every way of   *)
(* cutting it into transfers.                                              *)
(***************************************************************************)
EXTENDS AtParser, SequenceTheorems, WellFoundedInduction, TLAPS

LEMMA LeastNumber ==
  ASSUME NEW T \in SUBSET Nat, T # {}
  PROVE  \E m \in T : \A n \in T : m <= n
<1>1. PICK m \in T : \A n \in T : ~(<<n, m>> \in OpToRel(<, Nat))
  BY WFMin, NatLessThanWellFounded
<1>2. ASSUME NEW n \in T PROVE m <= n
  <2>1. n \in Nat /\ m \in Nat
    OBVIOUS
  <2>2. CASE n < m
    <3>1. <<n, m>> \in {ss \in Nat \X Nat : ss[1] < ss[2]}
      BY <2>1, <2>2
    <3> QED
      BY <1>1, <3>1, Zenon DEF OpToRel
  <2> QED
    BY <2>1, <2>2
<1> QED
  BY <1>2

\* The largest index, as Max has it.
MaxOf(s) == CHOOSE x \in s : \A y \in s : x >= y

LEMMA MaxOfPrefix ==
  ASSUME NEW n \in Nat, NEW s \in SUBSET (1..(n + 1)), n + 1 \in s
  PROVE  MaxOf(s) = n + 1
<1>1. \A y \in s : n + 1 >= y
  OBVIOUS
<1>2. MaxOf(s) \in s /\ \A y \in s : MaxOf(s) >= y
  BY <1>1 DEF MaxOf
<1>3. ASSUME NEW x \in 1..(n + 1), n + 1 >= x, x >= n + 1 PROVE x = n + 1
  BY <1>3
<1> QED
  BY <1>1, <1>2, <1>3
-----------------------------------------------------------------------------
(* The folds of the model: the scanner over the characters of a transfer,  *)
(* the spelling of lines, and atoi.                                        *)

Reading(acc, ch) == IF acc.end \/ ch \notin DOMAIN Digit THEN [acc EXCEPT !.end = TRUE]
                    ELSE [acc EXCEPT !.value = 10 * @ + Digit[ch]]

Base(kind) == CASE kind = "scan" -> Parser
                [] kind = "spell" -> << >>
                [] kind = "read" -> [value |-> 0, end |-> FALSE]
Step(kind, x, e) == CASE kind = "scan" -> Scan(x, e)
                      [] kind = "spell" -> x \o Text[e]
                      [] kind = "read" -> Reading(x, e)

\* f gives the fold over each set of indices, st over the first k of them.
IsFold(kind, seq, S, f) ==
  f = [s \in SUBSET S |-> IF s = {} THEN Base(kind) ELSE Step(kind, f[s \ {MaxOf(s)}], seq[MaxOf(s)])]

Folded(kind, seq, st) ==
  /\ st[0] = Base(kind)
  /\ \A k \in 1..Len(seq) : st[k] = Step(kind, st[k - 1], seq[k])

LEMMA FoldGoesOn ==
  ASSUME NEW kind, NEW seq, NEW n \in Nat, NEW f, IsFold(kind, seq, 1..n, f)
  PROVE  \E g : IsFold(kind, seq, 1..(n + 1), g)
<1> DEFINE S == SUBSET (1..(n + 1))
           g == [s \in S |-> IF n + 1 \in s THEN Step(kind, f[s \ {n + 1}], seq[n + 1]) ELSE f[s]]
           body(s) == IF s = {} THEN Base(kind) ELSE Step(kind, g[s \ {MaxOf(s)}], seq[MaxOf(s)])
<1>1. ASSUME NEW s \in S PROVE g[s] = body(s)
  <2>1. CASE n + 1 \in s
    <3>1. s # {} /\ MaxOf(s) = n + 1
      BY <2>1, MaxOfPrefix
    <3>2. s \ {n + 1} \in S /\ n + 1 \notin s \ {n + 1}
      OBVIOUS
    <3>3. g[s \ {n + 1}] = f[s \ {n + 1}]
      BY <3>2
    <3>4. g[s] = Step(kind, f[s \ {n + 1}], seq[n + 1])
      BY <2>1
    <3> QED
      BY <3>1, <3>3, <3>4
  <2>2. CASE n + 1 \notin s
    <3>1. s \in SUBSET (1..n)
      BY <2>2
    <3>2. f[s] = IF s = {} THEN Base(kind) ELSE Step(kind, f[s \ {MaxOf(s)}], seq[MaxOf(s)])
      BY <3>1, Zenon DEF IsFold
    <3>3. g[s \ {MaxOf(s)}] = f[s \ {MaxOf(s)}]
      BY <2>2
    <3>4. g[s] = f[s]
      BY <2>2
    <3> QED
      BY <3>2, <3>3, <3>4
  <2> QED
    BY <2>1, <2>2
<1>2. g = [s \in S |-> body(s)]
  <2>1. g = [s \in S |-> g[s]]
    OBVIOUS
  <2> HIDE DEF g
  <2>2. [s \in S |-> g[s]] = [s \in S |-> body(s)]
    BY <1>1
  <2> QED
    BY <2>1, <2>2
<1> HIDE DEF g
<1> QED
  BY <1>2, Zenon DEF IsFold

LEMMA FoldExists ==
  ASSUME NEW kind, NEW seq, NEW n \in Nat
  PROVE  \E f : IsFold(kind, seq, 1..n, f)
<1> DEFINE T == {k \in Nat : ~\E f : IsFold(kind, seq, 1..k, f)}
<1>1. ASSUME T # {} PROVE FALSE
  <2>1. PICK k \in T : \A j \in T : k <= j
    BY <1>1, LeastNumber
  <2>2. CASE k = 0
    <3> DEFINE f == [s \in SUBSET (1..0) |-> Base(kind)]
    <3>1. SUBSET (1..0) = {{}}
      BY SMT
    <3>2. f = [s \in SUBSET (1..0) |-> IF s = {} THEN Base(kind)
                                       ELSE Step(kind, f[s \ {MaxOf(s)}], seq[MaxOf(s)])]
      BY <3>1, Zenon
    <3>3. IsFold(kind, seq, 1..0, f)
      BY <3>2, Zenon DEF IsFold
    <3> QED
      BY <2>2, <3>3
  <2>3. CASE k # 0
    <3>1. PICK j \in Nat : j + 1 = k /\ j \notin T
      <4>1. k - 1 \in Nat /\ (k - 1) + 1 = k /\ ~(k <= k - 1)
        BY <2>3
      <4> QED
        BY <2>1, <4>1
    <3>2. PICK f : IsFold(kind, seq, 1..j, f)
      BY <3>1
    <3>3. \E g : IsFold(kind, seq, 1..(j + 1), g)
      BY <3>2, FoldGoesOn
    <3> QED
      BY <3>1, <3>3
  <2> QED
    BY <2>2, <2>3
<1> QED
  BY <1>1

LEMMA FoldStepwise ==
  ASSUME NEW kind, NEW S, NEW seq \in Seq(S), NEW f, IsFold(kind, seq, DOMAIN seq, f)
  PROVE  \E st : Folded(kind, seq, st) /\ f[DOMAIN seq] = st[Len(seq)]
<1> DEFINE st == [k \in 0..Len(seq) |-> f[1..k]]
<1>1. Len(seq) \in Nat /\ DOMAIN seq = 1..Len(seq)
  OBVIOUS
<1>2. IsFold(kind, seq, 1..Len(seq), f)
  BY <1>1
<1>3. f[{}] = Base(kind)
  BY <1>2, Zenon DEF IsFold
<1>4. ASSUME NEW k \in 1..Len(seq) PROVE st[k] = Step(kind, st[k - 1], seq[k])
  <2>1. PICK j \in Nat : j = k - 1 /\ j + 1 = k
    <3>1. k - 1 \in Nat /\ (k - 1) + 1 = k
      BY <1>1
    <3> QED
      BY <3>1
  <2>2. 1..k \in SUBSET (1..Len(seq)) /\ 1..k # {}
    <3>1. 1..k \subseteq 1..Len(seq) /\ 1 \in 1..k
      BY <1>1
    <3> QED
      BY <3>1
  <2>3. MaxOf(1..(j + 1)) = j + 1 /\ (1..(j + 1)) \ {j + 1} = 1..j
    BY MaxOfPrefix
  <2>4. f[1..k] = Step(kind, f[(1..k) \ {MaxOf(1..k)}], seq[MaxOf(1..k)])
    BY <1>2, <2>2, Zenon DEF IsFold
  <2>5. f[1..k] = Step(kind, f[1..j], seq[k])
    BY <2>1, <2>3, <2>4
  <2>6. k \in 0..Len(seq) /\ j \in 0..Len(seq)
    BY <1>1, <2>1
  <2> QED
    BY <2>1, <2>5, <2>6
<1>5. st[0] = Base(kind) /\ st[Len(seq)] = f[1..Len(seq)]
  <2>1. 1..0 = {}
    OBVIOUS
  <2> QED
    BY <1>1, <1>3, <2>1
<1> HIDE DEF st
<1>6. Folded(kind, seq, st)
  BY <1>4, <1>5 DEF Folded
<1> QED
  BY <1>1, <1>5, <1>6

LEMMA StepIs ==
  /\ Base("scan") = Parser /\ \A x, e : Step("scan", x, e) = Scan(x, e)
  /\ Base("spell") = << >> /\ \A x, e : Step("spell", x, e) = x \o Text[e]
  /\ Base("read") = [value |-> 0, end |-> FALSE] /\ \A x, e : Step("read", x, e) = Reading(x, e)
BY DEF Base, Step

\* The scanner.
IsScan(text, S, f) ==
  f = [s \in SUBSET S |-> IF s = {} THEN Parser ELSE Scan(f[s \ {MaxOf(s)}], text[MaxOf(s)])]
ScanOf(text) == CHOOSE f : IsScan(text, DOMAIN text, f)

Scanned(text, st) ==
  /\ st[0] = Parser
  /\ \A k \in 1..Len(text) : st[k] = Scan(st[k - 1], text[k])

LEMMA ScanIsFold == ASSUME NEW text PROVE at_parse(text) = EndRun(ScanOf(text)[DOMAIN text])
BY DEF at_parse, FoldLeft, MapThenFoldSet, ScanOf, IsScan, Max, MaxOf

LEMMA ScanStepwise ==
  ASSUME NEW S, NEW text \in Seq(S)
  PROVE  \E st : Scanned(text, st) /\ at_parse(text) = EndRun(st[Len(text)])
<1>1. \A f : IsScan(text, DOMAIN text, f) <=> IsFold("scan", text, DOMAIN text, f)
  BY StepIs DEF IsScan, IsFold
<1>2. \E f : IsFold("scan", text, DOMAIN text, f)
  <2>1. DOMAIN text = 1..Len(text) /\ Len(text) \in Nat
    OBVIOUS
  <2> QED
    BY <2>1, FoldExists
<1>3. IsFold("scan", text, DOMAIN text, ScanOf(text))
  BY <1>1, <1>2, Zenon DEF ScanOf
<1>4. PICK st : Folded("scan", text, st) /\ ScanOf(text)[DOMAIN text] = st[Len(text)]
  BY <1>3, FoldStepwise
<1>5. Scanned(text, st)
  BY <1>4, StepIs DEF Scanned, Folded
<1> QED
  BY <1>4, <1>5, ScanIsFold

\* The lines of the modem: st[k] is how the first k of them are spelt.
IsSpelt(lines, S, f) ==
  f = [s \in SUBSET S |-> IF s = {} THEN << >> ELSE f[s \ {MaxOf(s)}] \o Text[lines[MaxOf(s)]]]
SpellOf(lines) == CHOOSE f : IsSpelt(lines, DOMAIN lines, f)

Spelt(lines, st) ==
  /\ st[0] = << >>
  /\ \A k \in 1..Len(lines) : st[k] = st[k - 1] \o Text[lines[k]]

LEMMA SpellIsFold == ASSUME NEW lines PROVE Spelling(lines) = SpellOf(lines)[DOMAIN lines]
BY DEF Spelling, FoldLeft, MapThenFoldSet, SpellOf, IsSpelt, Max, MaxOf

LEMMA SpellStepwise ==
  ASSUME NEW S, NEW lines \in Seq(S)
  PROVE  \E st : Spelt(lines, st) /\ Spelling(lines) = st[Len(lines)]
<1>1. \A f : IsSpelt(lines, DOMAIN lines, f) <=> IsFold("spell", lines, DOMAIN lines, f)
  <2>1. ASSUME NEW f PROVE IsSpelt(lines, DOMAIN lines, f) <=> IsFold("spell", lines, DOMAIN lines, f)
    <3> DEFINE D == SUBSET DOMAIN lines
               one(s) == IF s = {} THEN << >> ELSE f[s \ {MaxOf(s)}] \o Text[lines[MaxOf(s)]]
               two(s) == IF s = {} THEN Base("spell")
                         ELSE Step("spell", f[s \ {MaxOf(s)}], lines[MaxOf(s)])
    <3>1. \A s \in D : one(s) = two(s)
      BY StepIs, Zenon
    <3> HIDE DEF one, two
    <3>2. [s \in D |-> one(s)] = [s \in D |-> two(s)]
      BY <3>1
    <3> QED
      BY <3>2, Zenon DEF IsSpelt, IsFold, one, two
  <2> QED
    BY <2>1
<1>2. \E f : IsFold("spell", lines, DOMAIN lines, f)
  <2>1. DOMAIN lines = 1..Len(lines) /\ Len(lines) \in Nat
    OBVIOUS
  <2> QED
    BY <2>1, FoldExists
<1>3. IsFold("spell", lines, DOMAIN lines, SpellOf(lines))
  BY <1>1, <1>2, Zenon DEF SpellOf
<1>4. PICK st : Folded("spell", lines, st) /\ SpellOf(lines)[DOMAIN lines] = st[Len(lines)]
  BY <1>3, FoldStepwise
<1>5. Spelt(lines, st)
  BY <1>4, StepIs DEF Spelt, Folded
<1> QED
  BY <1>4, <1>5, SpellIsFold

\* The digits of a number: st[k] is what atoi has read behind k characters.
IsRead(text, S, f) ==
  f = [s \in SUBSET S |-> IF s = {} THEN [value |-> 0, end |-> FALSE]
                          ELSE Reading(f[s \ {MaxOf(s)}], text[MaxOf(s)])]
ReadOf(text) == CHOOSE f : IsRead(text, DOMAIN text, f)

Read(text, st) ==
  /\ st[0] = [value |-> 0, end |-> FALSE]
  /\ \A k \in 1..Len(text) : st[k] = Reading(st[k - 1], text[k])

LEMMA ReadIsFold == ASSUME NEW text PROVE atoi(text) = ReadOf(text)[DOMAIN text].value
BY DEF atoi, FoldLeft, MapThenFoldSet, ReadOf, IsRead, Reading, Max, MaxOf

LEMMA ReadStepwise ==
  ASSUME NEW S, NEW text \in Seq(S)
  PROVE  \E st : Read(text, st) /\ atoi(text) = st[Len(text)].value
<1>1. \A f : IsRead(text, DOMAIN text, f) <=> IsFold("read", text, DOMAIN text, f)
  BY ZenonT(60), StepIs DEF IsRead, IsFold
<1>2. \E f : IsFold("read", text, DOMAIN text, f)
  <2>1. DOMAIN text = 1..Len(text) /\ Len(text) \in Nat
    OBVIOUS
  <2> QED
    BY <2>1, FoldExists
<1>3. IsFold("read", text, DOMAIN text, ReadOf(text))
  BY <1>1, <1>2, Zenon DEF ReadOf
<1>4. PICK st : Folded("read", text, st) /\ ReadOf(text)[DOMAIN text] = st[Len(text)]
  BY <1>3, FoldStepwise
<1>5. Read(text, st)
  BY <1>4, StepIs DEF Read, Folded
<1> QED
  BY <1>4, <1>5, ReadIsFold

-----------------------------------------------------------------------------
(* The types of the scanner.                                               *)

InWords == Letters \cup {"space", "comma"}
Texts   == Seq(InWords)
Tags    == {"AT", "ATCMD", "OK", "ERROR", "TXT", "TXTARG", "COMMAND", "RESPONSE"} \cup Marks
States  == {"line", "error"} \cup {arc[3] : arc \in Arcs}
Called  == [cb : [type : Tags, name : Texts, args : Seq(Texts)], at : Int]
Parsers == [start : {"INITIAL", "ESC"}, flexmark : BOOLEAN, state : States, run : Texts,
            type : Tags, name : Texts, args : Seq(Texts), got : Seq(Called), at : Int]
Tokens  == [is : Tags, text : Texts]

LEMMA NoText == << >> \in Texts
BY DEF Texts

LEMMA TokenTyped ==
  ASSUME NEW kind \in Tags, NEW text \in Texts
  PROVE  Token(kind, text) \in Tokens
<1>1. [is |-> kind, text |-> text] \in [is : Tags, text : Texts]
  OBVIOUS
<1> QED
  BY <1>1, Zenon DEF Token, Tokens

LEMMA WordTyped == ASSUME NEW text \in Texts PROVE Word(text) \in Tokens
<1>1. Word(text) \in {Token("AT", text), Token("ATCMD", text), Token("OK", text),
                      Token("ERROR", text), Token("TXT", text)}
  BY Zenon DEF Word
<1>2. /\ Token("AT", text) \in Tokens /\ Token("ATCMD", text) \in Tokens
      /\ Token("OK", text) \in Tokens /\ Token("ERROR", text) \in Tokens
      /\ Token("TXT", text) \in Tokens
  BY TokenTyped DEF Tags
<1> QED
  BY <1>1, <1>2, Zenon

LEMMA ParseTyped ==
  ASSUME NEW p \in Parsers, NEW token \in Tokens
  PROVE  Parse(p, token) \in Parsers
<1> DEFINE next == {arc[3] : arc \in {x \in Arcs : x[1] = p.state /\ x[2] = token.is}}
           q0   == [p EXCEPT !.state = CHOOSE s \in next : TRUE]
<1>0. Parse(p, token) =
        IF next = {} THEN [p EXCEPT !.state = "error"]
        ELSE CASE token.is \in {"AT", "ATCMD"} \/ (p.state \in {"at", "sep"} /\ token.is = "TXT") ->
                    Named(q0, "COMMAND", token.text)
               [] p.state = "reply" -> Named(q0, "RESPONSE", token.text)
               [] token.is \in {"OK", "ERROR"} -> Named(q0, token.is, NoName)
               [] p.state \in {"eq", "arglist"} /\ token.is # "query" -> on_arg(q0, token.text)
               [] p.state = "endcr" -> on_endline(q0)
               [] OTHER -> q0
  BY DEF Parse
<1>1. CASE next = {}
  <2>1. "error" \in States
    BY DEF States
  <2>2. [p EXCEPT !.state = "error"] \in Parsers
    BY <2>1 DEF Parsers
  <2>3. Parse(p, token) = [p EXCEPT !.state = "error"]
    <3> HIDE DEF next
    <3> QED
      BY <1>0, <1>1, Zenon
  <2> QED
    BY <2>2, <2>3
<1>2. CASE next # {}
  <2>1. PICK s : s = CHOOSE t \in next : TRUE
    OBVIOUS
  <2>2. s \in next
    BY <1>2, <2>1
  <2>3. s \in States
    BY <2>2 DEF States
  <2>4. PICK q : q = [p EXCEPT !.state = s]
    OBVIOUS
  <2>5. q \in Parsers
    BY <2>3, <2>4 DEF Parsers
  <2>6. token.is \in Tags /\ token.text \in Texts /\ << >> \in Texts
    <3>1. token.is \in Tags /\ token.text \in Texts
      BY DEF Tokens
    <3> QED
      BY <3>1, NoText
  <2>7. ASSUME NEW type \in Tags, NEW name \in Texts PROVE Named(q, type, name) \in Parsers
    BY <2>5 DEF Named, Parsers
  <2>8. on_arg(q, token.text) \in Parsers
    <3>1. q.args \in Seq(Texts)
      BY <2>5 DEF Parsers
    <3>2. Append(q.args, token.text) \in Seq(Texts)
      BY <2>6, <3>1, AppendProperties
    <3> QED
      BY <2>5, <3>2 DEF on_arg, Parsers
  <2>9. on_endline(q) \in Parsers
    <3>1. PICK e : e = [cb |-> Meant(q.type, q.name, q.args), at |-> q.at]
      OBVIOUS
    <3>2. e \in Called
      BY <2>5, <3>1 DEF Called, Parsers, Meant
    <3>3. Append(q.got, e) \in Seq(Called) /\ << >> \in Seq(Texts)
      BY <2>5, <3>2 DEF Parsers
    <3> QED
      BY <2>5, <3>1, <3>3 DEF on_endline, Parsers
  <2>10. Parse(p, token) \in {Named(q, "COMMAND", token.text), Named(q, "RESPONSE", token.text),
                              Named(q, token.is, NoName), on_arg(q, token.text), on_endline(q), q}
    <3> HIDE DEF next
    <3> QED
      BY <1>0, <1>2, <2>1, <2>4
  <2>11. /\ Named(q, "COMMAND", token.text) \in Parsers
         /\ Named(q, "RESPONSE", token.text) \in Parsers
         /\ Named(q, token.is, NoName) \in Parsers
    <3>1. NoName \in Texts
      BY NoText, Zenon DEF NoName
    <3>2. "COMMAND" \in Tags /\ "RESPONSE" \in Tags
      BY DEF Tags
    <3> QED
      BY <2>6, <2>7, <3>1, <3>2, Zenon
  <2> QED
    BY <2>5, <2>8, <2>9, <2>10, <2>11
<1> QED
  BY <1>1, <1>2

LEMMA EndRunTyped == ASSUME NEW p \in Parsers PROVE EndRun(p) \in Parsers
<1>1. << >> \in Texts /\ p.run \in Texts /\ TRUE \in BOOLEAN
  BY NoText DEF Parsers
<1>2. [p EXCEPT !.run = << >>] \in Parsers /\ [p EXCEPT !.run = << >>, !.flexmark = TRUE] \in Parsers
  BY <1>1 DEF Parsers
<1>3. Token("TXTARG", p.run) \in Tokens /\ Word(p.run) \in Tokens
  <2>1. Token("TXTARG", p.run) \in Tokens
    BY <1>1, TokenTyped DEF Tags
  <2> QED
    BY <1>1, <2>1, WordTyped
<1>4. /\ Parse([p EXCEPT !.run = << >>, !.flexmark = TRUE], Token("TXTARG", p.run)) \in Parsers
      /\ Parse([p EXCEPT !.run = << >>], Word(p.run)) \in Parsers
  BY <1>2, <1>3, ParseTyped
<1> QED
  BY <1>4 DEF EndRun

LEMMA CharTyped == ASSUME NEW p \in Parsers, NEW ch PROVE Char(p, ch) \in Parsers
<1>1. << >> \in Texts /\ FALSE \in BOOLEAN
  BY NoText
<1>2. /\ [p EXCEPT !.start = "ESC", !.flexmark = FALSE] \in Parsers
      /\ [p EXCEPT !.start = "INITIAL"] \in Parsers
  BY <1>1 DEF Parsers
<1>3. Token("TXTARG", NULL) \in Tokens /\ (ch \in Marks => Token(ch, << >>) \in Tokens)
  <2>1. NULL \in Texts
    BY NoText, Zenon DEF NULL
  <2> QED
    BY <1>1, <2>1, TokenTyped DEF Tags
<1>4. quote(p) \in Parsers
  BY <1>2, <1>3, ParseTyped DEF quote
<1>5. ch \in Marks => Parse(p, Token(ch, << >>)) \in Parsers
  BY <1>3, ParseTyped
<1> QED
  BY <1>4, <1>5 DEF Char

LEMMA ScanTyped == ASSUME NEW p \in Parsers, NEW ch PROVE Scan(p, ch) \in Parsers
<1> DEFINE q == [p EXCEPT !.at = @ + 1]
<1>1. q \in Parsers
  BY DEF Parsers
<1>2. ASSUME InRun(p, ch) PROVE [q EXCEPT !.run = Append(@, ch)] \in Parsers
  <2>1. ch \in InWords /\ q.run \in Texts
    BY <1>1, <1>2 DEF InRun, InWords, Parsers
  <2>2. Append(q.run, ch) \in Texts
    BY <2>1 DEF Texts
  <2> QED
    BY <1>1, <2>2 DEF Parsers
<1>3. Char(EndRun(q), ch) \in Parsers
  BY <1>1, EndRunTyped, CharTyped
<1> QED
  BY <1>2, <1>3 DEF Scan

LEMMA ScannedTyped ==
  ASSUME NEW S, NEW text \in Seq(S), NEW st, Scanned(text, st), Parser \in Parsers,
         NEW k \in 0..Len(text)
  PROVE  st[k] \in Parsers
<1> DEFINE T == {j \in 0..Len(text) : st[j] \notin Parsers}
<1>1. Len(text) \in Nat
  OBVIOUS
<1>2. ASSUME T # {} PROVE FALSE
  <2>1. T \in SUBSET Nat
    BY <1>1
  <2>2. PICK j \in T : \A i \in T : j <= i
    BY <1>2, <2>1, LeastNumber
  <2>3. j # 0
    BY DEF Scanned
  <2>4. PICK i \in 0..Len(text) : i = j - 1 /\ i \notin T
    <3>1. j \in Nat /\ j <= Len(text) /\ j # 0
      BY <1>1, <2>3
    <3>2. j - 1 \in 0..Len(text) /\ ~(j <= j - 1)
      BY <1>1, <3>1
    <3> QED
      BY <2>2, <3>2
  <2>5. j \in 1..Len(text)
    BY <1>1, <2>3
  <2>6. st[j] = Scan(st[i], text[j])
    BY <2>4, <2>5 DEF Scanned
  <2> QED
    BY <2>4, <2>5, <2>6, ScanTyped
<1> QED
  BY <1>2

-----------------------------------------------------------------------------
(* The specification.                                                      *)

Chars == Letters \cup Marks \cup {"space", Quote, "hyphen"}

LEMMA CharsOfText == \A l \in Kinds : Text[l] \in Seq(Chars)
<1>1. CRLF \in Seq(Chars)
  BY DEF CRLF, Chars, Marks
<1>2. ASSUME NEW t \in Seq(Chars) PROVE CRLF \o t \o CRLF \in Seq(Chars) /\ t \o CRLF \in Seq(Chars)
  BY <1>1, ConcatProperties
<1>3. Text["ok"] \in Seq(Chars)
  <2>1. <<"O", "K">> \in Seq(Chars)
    BY DEF Chars, Letters, Marks, Quote
  <2>2. Text["ok"] = CRLF \o <<"O", "K">> \o CRLF
    BY DEF Text
  <2> QED
    BY <1>2, <2>1, <2>2
<1>4. Text["error"] \in Seq(Chars)
  <2>1. <<"E", "R">> \in Seq(Chars)
    BY DEF Chars, Letters, Marks, Quote
  <2>2. Text["error"] = CRLF \o <<"E", "R">> \o CRLF
    BY DEF Text
  <2> QED
    BY <1>2, <2>1, <2>2
<1>5. Text["response"] \in Seq(Chars)
  <2>1. <<"plus", "a", "colon", "space", "1", "comma", "0">> \in Seq(Chars)
    BY DEF Chars, Letters, Marks, Quote
  <2>2. Text["response"] = CRLF \o <<"plus", "a", "colon", "space", "1", "comma", "0">> \o CRLF
    BY DEF Text
  <2> QED
    BY <1>2, <2>1, <2>2
<1>6. Text["quoted"] \in Seq(Chars)
  <2>1. <<"plus", "a", "colon", "space", Quote, "a", Quote, "comma", Quote, Quote>> \in Seq(Chars)
    BY DEF Chars, Letters, Marks, Quote
  <2>2. Text["quoted"] = CRLF \o <<"plus", "a", "colon", "space", Quote, "a", Quote,
                                   "comma", Quote, Quote>> \o CRLF
    BY DEF Text
  <2> QED
    BY <1>2, <2>1, <2>2
<1>7. Text["dash"] \in Seq(Chars)
  <2>1. <<"plus", "a", "colon", Quote, "a", "hyphen", "a", Quote>> \in Seq(Chars)
    BY DEF Chars, Letters, Marks, Quote
  <2>2. Text["dash"] = CRLF \o <<"plus", "a", "colon", Quote, "a", "hyphen", "a", Quote>> \o CRLF
    BY DEF Text
  <2> QED
    BY <1>2, <2>1, <2>2
<1>8. Text["cme"] \in Seq(Chars)
  <2>1. <<"plus", "a", "space", "E", "R", "colon", "1">> \in Seq(Chars)
    BY DEF Chars, Letters, Marks, Quote
  <2>2. Text["cme"] = CRLF \o <<"plus", "a", "space", "E", "R", "colon", "1">> \o CRLF
    BY DEF Text
  <2> QED
    BY <1>2, <2>1, <2>2
<1>9. Text["nw3"] \in Seq(Chars)
  <2>1. <<"plus", "N", "colon", "space", "3">> \in Seq(Chars)
    BY DEF Chars, Letters, Marks, Quote
  <2>2. Text["nw3"] = CRLF \o <<"plus", "N", "colon", "space", "3">> \o CRLF
    BY DEF Text
  <2> QED
    BY <1>2, <2>1, <2>2
<1>10. Text["nw5"] \in Seq(Chars)
  <2>1. <<"plus", "N", "colon", "space", "5">> \in Seq(Chars)
    BY DEF Chars, Letters, Marks, Quote
  <2>2. Text["nw5"] = CRLF \o <<"plus", "N", "colon", "space", "5">> \o CRLF
    BY DEF Text
  <2> QED
    BY <1>2, <2>1, <2>2
<1>11. Text["inactive"] \in Seq(Chars)
  <2>1. <<"plus", "C", "colon", "1", "comma", "0">> \in Seq(Chars)
    BY DEF Chars, Letters, Marks, Quote
  <2>2. Text["inactive"] = CRLF \o <<"plus", "C", "colon", "1", "comma", "0">> \o CRLF
    BY DEF Text
  <2> QED
    BY <1>2, <2>1, <2>2
<1>12. Text["echo"] \in Seq(Chars)
  <2>1. <<"A", "T", "plus", "a", "equals", Quote, "a", Quote>> \in Seq(Chars)
    BY DEF Chars, Letters, Marks, Quote
  <2>2. Text["echo"] = <<"A", "T", "plus", "a", "equals", Quote, "a", Quote>> \o CRLF
    BY DEF Text
  <2> QED
    BY <1>2, <2>1, <2>2
<1>13. Text["ate1"] \in Seq(Chars)
  <2>1. <<"A", "T", "E", "1">> \in Seq(Chars)
    BY DEF Chars, Letters, Marks, Quote
  <2>2. Text["ate1"] = <<"A", "T", "E", "1">> \o CRLF
    BY DEF Text
  <2> QED
    BY <1>2, <2>1, <2>2
<1> QED
  BY <1>3, <1>4, <1>5, <1>6, <1>7, <1>8, <1>9, <1>10, <1>11, <1>12, <1>13 DEF Kinds

LEMMA StreamTyped == ASSUME sent \in Seq(Kinds) PROVE Stream \in Seq(Chars)
<1>1. PICK st : Spelt(sent, st) /\ Stream = st[Len(sent)]
  BY SpellStepwise DEF Stream
<1>2. Len(sent) \in Nat
  OBVIOUS
<1> DEFINE T == {j \in 0..Len(sent) : st[j] \notin Seq(Chars)}
<1>3. ASSUME T # {} PROVE FALSE
  <2>1. T \in SUBSET Nat
    BY <1>2
  <2>2. PICK j \in T : \A i \in T : j <= i
    BY <1>3, <2>1, LeastNumber
  <2>3. j # 0
    <3>1. st[0] = << >> /\ << >> \in Seq(Chars)
      BY <1>1 DEF Spelt
    <3> QED
      BY <3>1
  <2>4. PICK i \in 0..Len(sent) : i = j - 1 /\ i \notin T
    <3>1. j \in Nat /\ j <= Len(sent) /\ j # 0
      BY <1>2, <2>3
    <3>2. j - 1 \in 0..Len(sent) /\ ~(j <= j - 1)
      BY <1>2, <3>1
    <3> QED
      BY <2>2, <3>2
  <2>5. j \in 1..Len(sent) /\ sent[j] \in Kinds
    BY <1>2, <2>3
  <2>6. st[j] = st[i] \o Text[sent[j]]
    BY <1>1, <2>4, <2>5 DEF Spelt
  <2>7. st[i] \in Seq(Chars) /\ Text[sent[j]] \in Seq(Chars)
    BY <2>4, <2>5, CharsOfText
  <2>8. st[j] \in Seq(Chars)
    BY <2>6, <2>7, ConcatProperties
  <2> QED
    BY <2>8
<1>4. Len(sent) \in 0..Len(sent)
  BY <1>2
<1> QED
  BY <1>1, <1>3, <1>4

LEMMA StreamStays == sent' = sent => Stream' = Stream
BY Zenon DEF Stream, Spelling, FoldLeft, MapThenFoldSet

\* The part of the types that the next-state relation keeps by itself.
ScannerInv ==
  /\ sent \in Seq(Kinds)
  /\ pos \in 0..Len(Stream)
  /\ Parser \in Parsers
  /\ handled \in Seq(Called)

LEMMA ParserTyped ==
  ASSUME start \in {"INITIAL", "ESC"}, flexmark \in BOOLEAN, args \in Seq(Texts), pos \in Int
  PROVE  Parser \in Parsers
<1>1. "line" \in States /\ "OK" \in Tags
  BY DEF States, Tags
<1>2. << >> \in Texts /\ NoName \in Texts
  BY NoText, Zenon DEF NoName
<1>3. << >> \in Seq(Called)
  OBVIOUS
<1> QED
  BY <1>1, <1>2, <1>3 DEF Parser, Parsers

LEMMA InitScanner == Init => ScannerInv
<1> SUFFICES ASSUME Init PROVE ScannerInv
  OBVIOUS
<1>1. sent \in Seq(Kinds)
  BY ParserAssumption DEF Init
<1>2. Len(Stream) \in Nat
  BY <1>1, StreamTyped
<1>3. Parser \in Parsers
  <2>1. args \in Seq(Texts) /\ flexmark \in BOOLEAN /\ pos \in Int
    <3>1. args = << >> /\ flexmark = FALSE /\ pos = 0
      BY DEF Init
    <3>2. << >> \in Seq(Texts)
      OBVIOUS
    <3>3. flexmark \in BOOLEAN
      BY <3>1
    <3>4. args \in Seq(Texts)
      BY <3>1, <3>2, Zenon
    <3>5. pos \in Int
      BY <3>1
    <3> QED
      BY <3>3, <3>4, <3>5
  <2> QED
    BY <2>1, ParserTyped DEF Init
<1> QED
  BY <1>1, <1>2, <1>3 DEF Init, ScannerInv

\* The characters of a transfer.
LEMMA TransferOf ==
  ASSUME ScannerInv, NEW n \in 1..(Len(Stream) - pos)
  PROVE  /\ SubSeq(Stream, pos + 1, pos + n) \in Seq(Chars)
         /\ Len(SubSeq(Stream, pos + 1, pos + n)) = n
         /\ pos + n \in 0..Len(Stream)
<1>1. Stream \in Seq(Chars) /\ Len(Stream) \in Nat /\ pos \in 0..Len(Stream)
  BY StreamTyped DEF ScannerInv
<1>2. n \in Nat /\ n >= 1 /\ pos + n <= Len(Stream)
  BY <1>1
<1>3. \A i \in (pos + 1)..(pos + n) : Stream[i] \in Chars
  BY <1>1, <1>2
<1>4. /\ SubSeq(Stream, pos + 1, pos + n) \in Seq(Chars)
      /\ Len(SubSeq(Stream, pos + 1, pos + n)) =
           IF pos + 1 <= pos + n THEN (pos + n) - (pos + 1) + 1 ELSE 0
  BY <1>1, <1>2, <1>3, SubSeqProperties
<1> QED
  BY <1>1, <1>2, <1>4

LEMMA CharOfTransfer ==
  ASSUME ScannerInv, NEW n \in 1..(Len(Stream) - pos), NEW text, text = SubSeq(Stream, pos + 1, pos + n),
         NEW i \in 1..n
  PROVE  text[i] = Stream[pos + i]
<1>1. PICK a \in Nat : a = pos /\ a + n <= Len(Stream) /\ Stream \in Seq(Chars) /\ Len(Stream) \in Nat
  <2>1. Stream \in Seq(Chars) /\ Len(Stream) \in Nat /\ pos \in 0..Len(Stream)
    BY StreamTyped DEF ScannerInv
  <2> QED
    BY <2>1
<1>2. a + 1 \in Int /\ a + n \in Int /\ i \in 1..((a + n) - (a + 1) + 1) /\ (a + 1) + i - 1 = a + i
  BY <1>1
<1>3. \A y \in (a + 1)..(a + n) : Stream[y] \in Chars
  BY <1>1
<1>4. SubSeq(Stream, a + 1, a + n)[i] = Stream[(a + 1) + i - 1]
  BY <1>2, <1>3, SubSeqProperties
<1> QED
  BY <1>1, <1>2, <1>4

LEMMA ParsedTyped ==
  ASSUME NEW S, NEW text \in Seq(S), Parser \in Parsers
  PROVE  at_parse(text) \in Parsers
<1>1. PICK st : Scanned(text, st) /\ at_parse(text) = EndRun(st[Len(text)])
  BY ScanStepwise
<1>2. Len(text) \in 0..Len(text)
  OBVIOUS
<1> QED
  BY <1>1, <1>2, ScannedTyped, EndRunTyped

LEMMA NextScanner == ScannerInv /\ [Next]_vars => ScannerInv'
<1> SUFFICES ASSUME ScannerInv, [Next]_vars PROVE ScannerInv'
  OBVIOUS
<1>1. CASE Next
  <2>1. PICK n \in 1..(Len(Stream) - pos) : Transfer(n)
    BY <1>1 DEF Next
  <2>2. PICK text : text = SubSeq(Stream, pos + 1, pos + n)
    OBVIOUS
  <2>3. text \in Seq(Chars) /\ pos + n \in 0..Len(Stream)
    BY <2>2, TransferOf
  <2>4. PICK p : p = at_parse(text)
    OBVIOUS
  <2>5. p \in Parsers
    BY <2>3, <2>4, ParsedTyped DEF ScannerInv
  <2>6. /\ start' = p.start /\ flexmark' = p.flexmark /\ args' = p.args
        /\ handled' = handled \o p.got /\ sent' = sent /\ pos' = pos + n
    BY <2>1, <2>2, <2>4 DEF Transfer, modem_response
  <2>7. Stream' = Stream
    BY <2>6, StreamStays
  <2>8. Parser' \in Parsers
    <3>1. /\ start' \in {"INITIAL", "ESC"} /\ flexmark' \in BOOLEAN
          /\ args' \in Seq(Texts) /\ pos' \in Int
      BY <2>3, <2>5, <2>6 DEF Parsers
    <3>2. "line" \in States /\ "OK" \in Tags
      BY DEF States, Tags
    <3>3. << >> \in Texts /\ NoName \in Texts
      BY NoText, Zenon DEF NoName
    <3>4. << >> \in Seq(Called)
      OBVIOUS
    <3> QED
      BY <3>1, <3>2, <3>3, <3>4 DEF Parser, Parsers
  <2>9. handled' \in Seq(Called)
    BY <2>5, <2>6, ConcatProperties DEF ScannerInv, Parsers
  <2> QED
    BY <2>3, <2>6, <2>7, <2>8, <2>9, Zenon DEF ScannerInv
<1>2. CASE UNCHANGED vars
  <2>1. Stream' = Stream
    BY <1>2, StreamStays DEF vars
  <2>2. Parser' = Parser
    BY <1>2 DEF vars, Parser
  <2> QED
    BY <1>2, <2>1, <2>2 DEF vars, ScannerInv
<1> QED
  BY <1>1, <1>2

LEMMA ScannerInvariant == Spec => []ScannerInv
BY InitScanner, NextScanner, PTL DEF Spec

-----------------------------------------------------------------------------
(* A transfer that finds the scanner inside a quotation.                   *)

\* No arc leads from the start of a line by a text in quotes: a syntax error.
LEMMA NoLineBeginsQuoted ==
  ASSUME NEW p \in Parsers, p.state = "line", NEW text \in Texts
  PROVE  Parse(p, Token("TXTARG", text)) = [p EXCEPT !.state = "error"]
<1> DEFINE token == Token("TXTARG", text)
           next  == {arc[3] : arc \in {x \in Arcs : x[1] = p.state /\ x[2] = token.is}}
<1>1. token.is = "TXTARG"
  BY DEF Token
<1>2. \A x \in Arcs : ~(x[1] = "line" /\ x[2] = "TXTARG")
  <2> DEFINE
        listed == { <<"line", "CR", "cr">>, <<"cr", "LF", "retline">>,
                    <<"retline", "OK", "end">>, <<"retline", "ERROR", "end">>,
                    <<"retline", "plus", "reply">>, <<"reply", "TXT", "name">>,
                    <<"name", "colon", "arglist">>,
                    <<"line", "AT", "at">>, <<"line", "ATCMD", "at">>,
                    <<"at", "TXT", "cmd">>, <<"sep", "TXT", "cmd">>,
                    <<"arg", "comma", "arglist">>, <<"eq", "query", "end">>, <<"endcr", "LF", "line">> }
        seps   == {"at"} \X {"amp", "plus", "caret"} \X {"sep"}
        asks   == {"at", "cmd"} \X {"query"} \X {"end"}
        sets   == {"at", "cmd"} \X {"equals"} \X {"eq"}
        takes  == {"eq", "arglist"} \X {"TXT", "TXTARG"} \X {"arg"}
        closes == {"name", "at", "cmd", "arg", "end"} \X {"CR"} \X {"endcr"}
        Taken(y) == y[1] = "line" /\ y[2] = "TXTARG"
  <2>1. Arcs = listed \cup seps \cup asks \cup sets \cup takes \cup closes
    BY Zenon DEF Arcs
  <2>2. ASSUME NEW x \in listed PROVE x[1] # "line" \/ x[2] # "TXTARG"
    <3>1. \/ x \in { <<"line", "CR", "cr">>, <<"line", "AT", "at">>, <<"line", "ATCMD", "at">> }
          \/ x \in { <<"cr", "LF", "retline">>, <<"retline", "OK", "end">>,
                     <<"retline", "ERROR", "end">>, <<"retline", "plus", "reply">> }
          \/ x \in { <<"reply", "TXT", "name">>, <<"name", "colon", "arglist">>,
                     <<"at", "TXT", "cmd">>, <<"sep", "TXT", "cmd">> }
          \/ x = <<"arg", "comma", "arglist">> \/ x = <<"eq", "query", "end">>
          \/ x = <<"endcr", "LF", "line">>
      BY Zenon
    <3> HIDE DEF listed
    <3>2. CASE x = <<"arg", "comma", "arglist">> \/ x = <<"eq", "query", "end">>
      <4>1. PICK s, t, u : x = <<s, t, u>> /\ s \in {"arg", "eq"}
        BY <3>2, Zenon
      <4>2. x[1] = s
        BY <4>1
      <4> QED
        BY <4>1, <4>2
    <3>3. CASE x = <<"endcr", "LF", "line">>
      <4>1. PICK s : x = <<s, "LF", "line">>
        BY <3>3, Zenon
      <4>2. x[2] = "LF"
        BY <4>1
      <4> QED
        BY <4>2
    <3>4. CASE x \in { <<"line", "CR", "cr">>, <<"line", "AT", "at">>, <<"line", "ATCMD", "at">> }
      BY <3>4
    <3>5. CASE x \in { <<"cr", "LF", "retline">>, <<"retline", "OK", "end">>,
                       <<"retline", "ERROR", "end">>, <<"retline", "plus", "reply">> }
      BY <3>5
    <3>6. CASE x \in { <<"reply", "TXT", "name">>, <<"name", "colon", "arglist">>,
                       <<"at", "TXT", "cmd">>, <<"sep", "TXT", "cmd">> }
      BY <3>6
    <3> QED
      BY <3>1, <3>2, <3>3, <3>4, <3>5, <3>6
  <2>3. \A x \in listed : ~Taken(x)
    BY <2>2
  <2>4. \A x \in seps : ~Taken(x)
    OBVIOUS
  <2>5. \A x \in asks : ~Taken(x)
    OBVIOUS
  <2>6. \A x \in sets : ~Taken(x)
    OBVIOUS
  <2>7. \A x \in takes : ~Taken(x)
    OBVIOUS
  <2>8. \A x \in closes : ~Taken(x)
    OBVIOUS
  <2> HIDE DEF listed, seps, asks, sets, takes, closes
  <2>9. \A x \in Arcs : ~Taken(x)
    BY <2>1, <2>3, <2>4, <2>5, <2>6, <2>7, <2>8, Zenon
  <2> QED
    BY <2>9
<1>3. next = {}
  BY <1>1, <1>2
<1> QED
  BY <1>3, Zenon DEF Parse

\* The scanner when it has found nothing but dropped characters, the text it is
\* in the middle of, or the syntax error that text is.
Deaf(p) == /\ p.start = "ESC" /\ p.got = << >>
           /\ p.state \in {"line", "error"}
Silent(p) == Deaf(p) /\ p.state = "line" /\ p.run = << >>

Heard(ch) == ch \in Letters \cup {"space", "comma", Quote}

LEMMA EndRunDeaf ==
  ASSUME NEW p \in Parsers, Deaf(p), ~Silent(p)
  PROVE  Deaf(EndRun(p)) /\ EndRun(p).state = "error"
<1>1. CASE p.state = "error"
  BY <1>1 DEF EndRun, Deaf
<1>2. CASE p.state = "line"
  <2>1. p.run # << >> /\ p.run \in Texts
    BY <1>2 DEF Silent, Parsers
  <2>2. PICK q : q = [p EXCEPT !.run = << >>, !.flexmark = TRUE]
    OBVIOUS
  <2>3. q \in Parsers /\ q.state = "line" /\ q.start = "ESC" /\ q.got = << >>
    BY <1>2, <2>2, NoText DEF Parsers, Deaf
  <2>4. EndRun(p) = Parse(q, Token("TXTARG", p.run))
    BY <1>2, <2>1, <2>2 DEF EndRun, Deaf
  <2>5. EndRun(p) = [q EXCEPT !.state = "error"]
    BY <2>1, <2>3, <2>4, NoLineBeginsQuoted
  <2> QED
    BY <2>3, <2>5 DEF Deaf, Parsers
<1> QED
  BY <1>1, <1>2 DEF Deaf

LEMMA ScanDeaf ==
  ASSUME NEW p \in Parsers, NEW ch, Deaf(p), Silent(p) => ch # Quote
  PROVE  /\ Deaf(Scan(p, ch))
         /\ Silent(Scan(p, ch)) => Silent(p) /\ ~Heard(ch)
<1> DEFINE q == [p EXCEPT !.at = @ + 1]
<1>1. q \in Parsers /\ Deaf(q) /\ q.run = p.run /\ q.state = p.state
  BY DEF Parsers, Deaf
<1>2. CASE p.state = "error"
  BY <1>2 DEF Scan, Silent
<1>3. CASE p.state = "line" /\ InRun(p, ch)
  <2>1. PICK r : r = [q EXCEPT !.run = Append(@, ch)]
    OBVIOUS
  <2>2. Scan(p, ch) = r
    BY <1>3, <2>1 DEF Scan
  <2>3. q.run \in Texts /\ ch \in InWords
    BY <1>1, <1>3 DEF Parsers, InRun, Deaf, InWords
  <2>4. Append(q.run, ch) # << >>
    BY <2>3, AppendProperties DEF Texts
  <2>5. r.run # << >> /\ Deaf(r)
    BY <1>1, <2>1, <2>4 DEF Deaf, Parsers
  <2> QED
    BY <2>2, <2>5 DEF Silent
<1>4. CASE p.state = "line" /\ ~InRun(p, ch) /\ Silent(p)
  <2>1. ~Heard(ch)
    BY <1>4 DEF InRun, Heard, Silent, Deaf
  <2>2. EndRun(q) = q
    BY <1>1, <1>4 DEF EndRun, Silent
  <2>3. Char(q, ch) = q
    BY <1>1, <1>4 DEF Char, Deaf
  <2>4. Scan(p, ch) = q
    BY <1>4, <2>2, <2>3 DEF Scan
  <2> QED
    BY <1>1, <1>4, <2>1, <2>4
<1>5. CASE p.state = "line" /\ ~InRun(p, ch) /\ ~Silent(p)
  <2>1. ~Silent(q)
    BY <1>1, <1>5 DEF Silent
  <2>2. Deaf(EndRun(q)) /\ EndRun(q).state = "error"
    BY <1>1, <2>1, EndRunDeaf
  <2>3. Scan(p, ch) = EndRun(q)
    BY <1>5, <2>2 DEF Scan, Char
  <2> QED
    BY <2>2, <2>3 DEF Silent
<1> QED
  BY <1>2, <1>3, <1>4, <1>5 DEF Deaf

\* The first character that is heard, if there is one, is no quote.
NoQuoteFirst(text) ==
  \A i \in 1..Len(text) : text[i] = Quote => \E j \in 1..Len(text) : j < i /\ Heard(text[j])

LEMMA ScannedDeaf ==
  ASSUME NEW S, NEW text \in Seq(S), NEW st, Scanned(text, st), Parser \in Parsers,
         start = "ESC", NoQuoteFirst(text), NEW k \in 0..Len(text)
  PROVE  /\ Deaf(st[k])
         /\ Silent(st[k]) => \A i \in 1..k : ~Heard(text[i])
<1> DEFINE Good(j) == /\ Deaf(st[j])
                      /\ Silent(st[j]) => \A i \in 1..j : ~Heard(text[i])
           T == {j \in 0..Len(text) : ~Good(j)}
<1>1. Len(text) \in Nat
  OBVIOUS
<1>2. ASSUME T # {} PROVE FALSE
  <2>1. T \in SUBSET Nat
    BY <1>1
  <2>2. PICK j \in T : \A i \in T : j <= i
    BY <1>2, <2>1, LeastNumber
  <2>3. j # 0
    <3>1. Deaf(Parser)
      BY DEF Deaf, Parser
    <3>2. st[0] = Parser
      BY DEF Scanned
    <3>3. Good(0)
      BY <3>1, <3>2
    <3> QED
      BY <3>3
  <2>4. PICK i \in 0..Len(text) : i = j - 1 /\ i \notin T
    <3>1. j \in Nat /\ j <= Len(text) /\ j # 0
      BY <1>1, <2>3
    <3>2. j - 1 \in 0..Len(text) /\ ~(j <= j - 1)
      BY <1>1, <3>1
    <3> QED
      BY <2>2, <3>2
  <2>5. Good(i)
    BY <2>4
  <2>6. j \in 1..Len(text) /\ st[j] = Scan(st[i], text[j])
    <3>1. j \in 1..Len(text)
      BY <1>1, <2>3
    <3> QED
      BY <2>4, <3>1 DEF Scanned
  <2>7. st[i] \in Parsers
    BY ScannedTyped
  <2>8. Silent(st[i]) => text[j] # Quote
    <3> SUFFICES ASSUME Silent(st[i]), text[j] = Quote PROVE FALSE
      OBVIOUS
    <3>1. PICK m \in 1..Len(text) : m < j /\ Heard(text[m])
      BY <2>6 DEF NoQuoteFirst
    <3>2. m \in 1..i
      BY <1>1, <2>4, <2>6, <3>1
    <3> QED
      BY <2>5, <3>1, <3>2
  <2>9. /\ Deaf(st[j])
        /\ Silent(st[j]) => Silent(st[i]) /\ ~Heard(text[j])
    BY <2>5, <2>6, <2>7, <2>8, ScanDeaf
  <2>10. ASSUME NEW m \in 1..j, m # j PROVE m \in 1..i
    BY <1>1, <2>4, <2>6, <2>10
  <2>11. Good(j)
    BY <2>5, <2>9, <2>10
  <2> QED
    BY <2>11
<1> QED
  BY <1>2

\* Nothing is heard, and the scanner stays where it was.
LEMMA TransferDeaf ==
  ASSUME NEW S, NEW text \in Seq(S), Parser \in Parsers, start = "ESC", NoQuoteFirst(text)
  PROVE  at_parse(text).got = << >> /\ at_parse(text).start = "ESC"
<1>1. PICK st : Scanned(text, st) /\ at_parse(text) = EndRun(st[Len(text)])
  BY ScanStepwise
<1>2. Len(text) \in 0..Len(text)
  OBVIOUS
<1>3. st[Len(text)] \in Parsers /\ Deaf(st[Len(text)])
  BY <1>1, <1>2, ScannedTyped, ScannedDeaf
<1>4. CASE Silent(st[Len(text)])
  BY <1>1, <1>3, <1>4 DEF EndRun, Silent, Deaf
<1>5. CASE ~Silent(st[Len(text)])
  BY <1>1, <1>3, <1>5, EndRunDeaf DEF Deaf
<1> QED
  BY <1>4, <1>5

\* What SelectInSeq finds.
FirstOf(text) == LET I == {i \in 1..Len(text) : Heard(text[i])}
                 IN  IF I # {} THEN Min(I) ELSE 0

LEMMA SelectIsFirst ==
  ASSUME NEW text
  PROVE  SelectInSeq(text, LAMBDA ch : ch \in Letters \cup {"space", "comma", Quote}) = FirstOf(text)
BY DEF SelectInSeq, FirstOf, Heard

LEMMA FirstHeard ==
  ASSUME NEW S, NEW text \in Seq(S), NEW first, first = FirstOf(text),
         first = 0 \/ text[first] # Quote
  PROVE  NoQuoteFirst(text)
<1> DEFINE I == {i \in 1..Len(text) : Heard(text[i])}
<1>1. first = IF I # {} THEN Min(I) ELSE 0
  BY DEF FirstOf
<1>2. Len(text) \in Nat
  OBVIOUS
<1>3. CASE I = {}
  BY <1>3 DEF NoQuoteFirst, Heard
<1>4. CASE I # {}
  <2>1. PICK m \in I : \A i \in I : m <= i
    <3>1. I \in SUBSET Nat
      BY <1>2
    <3> HIDE DEF I
    <3> QED
      BY <1>4, <3>1, LeastNumber
  <2>2. Min(I) \in I /\ \A i \in I : Min(I) <= i
    BY <2>1 DEF Min
  <2>3. PICK k \in I : k = first /\ \A i \in I : k <= i
    BY <1>1, <1>4, <2>2
  <2>4. text[k] # Quote /\ Heard(text[k]) /\ k \in 1..Len(text)
    BY <1>2, <2>3
  <2>5. ASSUME NEW i \in 1..Len(text), text[i] = Quote PROVE k < i
    <3>1. i \in I
      BY <2>5 DEF Heard
    <3>2. k <= i /\ k # i
      BY <2>3, <2>4, <2>5, <3>1
    <3> QED
      BY <1>2, <3>2
  <2> QED
    BY <2>4, <2>5 DEF NoQuoteFirst
<1> QED
  BY <1>3, <1>4

\* Once the scanner is inside a quotation, nothing the modem sends is heard until a
\* transfer has a quote in front of every other text, whatever the lines are and
\* however they are cut (atcmd.l:26-34, atcmd.c:156-159).
THEOREM DeafUntilQuoteHolds == Spec => DeafUntilQuote
<1> DEFINE StaysDeaf ==
      LET new   == SubSeq(Stream, pos + 1, pos')
          first == SelectInSeq(new, LAMBDA ch : ch \in Letters \cup {"space", "comma", Quote})
      IN  start = "ESC" /\ (first = 0 \/ new[first] # Quote) => handled' = handled /\ start' = "ESC"
<1>1. ASSUME ScannerInv, Next PROVE StaysDeaf
  <2>1. PICK n \in 1..(Len(Stream) - pos) : Transfer(n)
    BY <1>1 DEF Next
  <2>2. PICK text : text = SubSeq(Stream, pos + 1, pos + n)
    OBVIOUS
  <2>3. text \in Seq(Chars)
    BY <1>1, <2>2, TransferOf
  <2>4. PICK p : p = at_parse(text)
    OBVIOUS
  <2>5. start' = p.start /\ handled' = handled \o p.got /\ pos' = pos + n
    BY <2>1, <2>2, <2>4 DEF Transfer, modem_response
  <2>6. PICK first : first = FirstOf(text)
    OBVIOUS
  <2>7. ASSUME start = "ESC", first = 0 \/ text[first] # Quote
        PROVE  handled' = handled /\ start' = "ESC"
    <3>1. NoQuoteFirst(text)
      BY <2>3, <2>6, <2>7, FirstHeard
    <3>2. p.got = << >> /\ p.start = "ESC"
      BY <1>1, <2>3, <2>4, <2>7, <3>1, TransferDeaf DEF ScannerInv
    <3>3. handled \o << >> = handled
      BY <1>1, ConcatEmptySeq DEF ScannerInv
    <3> QED
      BY <2>5, <3>2, <3>3
  <2> QED
    BY <2>2, <2>5, <2>6, <2>7, SelectIsFirst
<1>2. ScannerInv /\ [Next]_vars => [StaysDeaf]_vars
  BY <1>1
<1> QED
  BY <1>2, ScannerInvariant, PTL DEF Spec, DeafUntilQuote

-----------------------------------------------------------------------------
(* Where the lines end in the stream.                                      *)

\* Two ways to spell the same lines are one.
LEMMA SpelledOnce ==
  ASSUME NEW S, NEW lines \in Seq(S), NEW st, Spelt(lines, st), NEW k \in 0..Len(lines)
  PROVE  Spelling(SubSeq(lines, 1, k)) = st[k]
<1> DEFINE first == SubSeq(lines, 1, k)
<1>0. Len(lines) \in Nat
  OBVIOUS
<1>1. first \in Seq(S) /\ Len(first) = k /\ \A j \in 1..k : first[j] = lines[j]
  OBVIOUS
<1>2. PICK su : Spelt(first, su) /\ Spelling(first) = su[k]
  BY <1>1, SpellStepwise
<1> HIDE DEF first
<1> DEFINE T == {j \in 0..k : su[j] # st[j]}
<1>3. ASSUME T # {} PROVE FALSE
  <2>1. T \in SUBSET Nat
    OBVIOUS
  <2>2. PICK j \in T : \A i \in T : j <= i
    BY <1>3, <2>1, LeastNumber
  <2>3. j # 0
    BY <1>2 DEF Spelt
  <2>4. PICK i \in 0..k : i = j - 1 /\ i \notin T
    <3>1. j \in Nat /\ j <= k /\ j # 0
      BY <2>3
    <3>2. j - 1 \in 0..k /\ ~(j <= j - 1)
      BY <3>1
    <3> QED
      BY <2>2, <3>2
  <2>5. j \in 1..k /\ j \in 1..Len(lines)
    BY <1>0, <2>3
  <2>6. su[j] = su[i] \o Text[first[j]] /\ st[j] = st[i] \o Text[lines[j]]
    BY <1>1, <1>2, <2>4, <2>5 DEF Spelt
  <2> QED
    BY <1>1, <2>4, <2>5, <2>6
<1>4. k \in 0..k
  OBVIOUS
<1> QED
  BY <1>2, <1>3, <1>4 DEF first

\* A line after the other.
LEMMA SpellingStepwise ==
  ASSUME sent \in Seq(Kinds)
  PROVE  /\ Spelling(SubSeq(sent, 1, 0)) = << >>
         /\ Spelling(SubSeq(sent, 1, Len(sent))) = Stream
         /\ \A k \in 1..Len(sent) :
              Spelling(SubSeq(sent, 1, k)) = Spelling(SubSeq(sent, 1, k - 1)) \o Text[sent[k]]
<1>1. PICK st : Spelt(sent, st) /\ Stream = st[Len(sent)]
  BY SpellStepwise DEF Stream
<1>2. Len(sent) \in Nat
  OBVIOUS
<1>3. \A k \in 0..Len(sent) : Spelling(SubSeq(sent, 1, k)) = st[k]
  BY <1>1, SpelledOnce
<1>4. 0 \in 0..Len(sent) /\ Len(sent) \in 0..Len(sent)
  BY <1>2
<1>5. ASSUME NEW k \in 1..Len(sent)
      PROVE  Spelling(SubSeq(sent, 1, k)) = Spelling(SubSeq(sent, 1, k - 1)) \o Text[sent[k]]
  <2>1. k \in 0..Len(sent) /\ k - 1 \in 0..Len(sent)
    BY <1>2
  <2> QED
    BY <1>1, <1>3, <2>1 DEF Spelt
<1> QED
  BY <1>1, <1>3, <1>4, <1>5 DEF Spelt

\* The places where the lines end.
LEMMA LineEnds ==
  ASSUME sent \in Seq(Kinds)
  PROVE  /\ End(0) = 0 /\ End(Len(sent)) = Len(Stream)
         /\ \A k \in 0..Len(sent) :
              End(k) \in Nat /\ Spelling(SubSeq(sent, 1, k)) \in Seq(Chars)
         /\ \A k \in 1..Len(sent) : End(k) = End(k - 1) + Len(Text[sent[k]])
<1>1. Len(sent) \in Nat
  OBVIOUS
<1> DEFINE first(k) == Spelling(SubSeq(sent, 1, k))
<1>2. /\ first(0) = << >> /\ first(Len(sent)) = Stream
      /\ \A k \in 1..Len(sent) : first(k) = first(k - 1) \o Text[sent[k]]
  BY SpellingStepwise
<1>3. \A k \in 0..Len(sent) : End(k) = Len(first(k))
  BY DEF End
<1> HIDE DEF first
<1> DEFINE T == {k \in 0..Len(sent) : first(k) \notin Seq(Chars)}
<1>4. ASSUME T # {} PROVE FALSE
  <2>1. T \in SUBSET Nat
    BY <1>1
  <2>2. PICK j \in T : \A i \in T : j <= i
    BY <1>4, <2>1, LeastNumber
  <2>3. j # 0
    <3>1. << >> \in Seq(Chars)
      OBVIOUS
    <3> QED
      BY <1>2, <3>1
  <2>4. PICK i \in 0..Len(sent) : i = j - 1 /\ i \notin T
    <3>1. j \in Nat /\ j <= Len(sent) /\ j # 0
      BY <1>1, <2>3
    <3>2. j - 1 \in 0..Len(sent) /\ ~(j <= j - 1)
      BY <1>1, <3>1
    <3> QED
      BY <2>2, <3>2
  <2>5. j \in 1..Len(sent) /\ sent[j] \in Kinds
    BY <1>1, <2>3
  <2>6. first(j) = first(i) \o Text[sent[j]]
    BY <1>2, <2>4, <2>5
  <2>7. first(i) \in Seq(Chars) /\ Text[sent[j]] \in Seq(Chars)
    BY <2>4, <2>5, CharsOfText
  <2>8. first(j) \in Seq(Chars)
    BY <2>6, <2>7, ConcatProperties
  <2> QED
    BY <2>8
<1>5. \A k \in 0..Len(sent) : first(k) \in Seq(Chars)
  BY <1>4
<1>6. ASSUME NEW k \in 1..Len(sent) PROVE End(k) = End(k - 1) + Len(Text[sent[k]])
  <2>1. PICK i \in 0..Len(sent) : i = k - 1
    BY <1>1
  <2>2. k \in 0..Len(sent) /\ first(i) \in Seq(Chars) /\ Text[sent[k]] \in Seq(Chars)
    BY <1>1, <1>5, CharsOfText
  <2>3. first(k) = first(i) \o Text[sent[k]]
    BY <1>2, <2>1
  <2>4. Len(first(k)) = Len(first(i)) + Len(Text[sent[k]])
    BY <2>2, <2>3, ConcatProperties
  <2> QED
    BY <1>3, <2>1, <2>2, <2>4
<1>7. 0 \in 0..Len(sent) /\ Len(sent) \in 0..Len(sent) /\ Len(<< >>) = 0
  BY <1>1
<1>8. \A k \in 0..Len(sent) : End(k) \in Nat
  BY <1>3, <1>5
<1>9. \A k \in 0..Len(sent) : Spelling(SubSeq(sent, 1, k)) \in Seq(Chars)
  BY <1>5 DEF first
<1> QED
  BY <1>2, <1>3, <1>6, <1>7, <1>8, <1>9

\* Every line has at least the text of "ok".
LEMMA LengthOfText == \A l \in Kinds : Len(Text[l]) \in Nat /\ Len(Text[l]) >= 6
BY SMTT(60) DEF Kinds, Text, CRLF

LEMMA LaterEnds ==
  ASSUME sent \in Seq(Kinds), NEW i \in 0..Len(sent), NEW k \in 0..Len(sent), i < k
  PROVE  End(i) < End(k)
<1>1. Len(sent) \in Nat
  OBVIOUS
<1> DEFINE T == {j \in (i + 1)..Len(sent) : ~(End(i) < End(j))}
<1>2. ASSUME T # {} PROVE FALSE
  <2>1. T \in SUBSET Nat
    BY <1>1
  <2>2. PICK j \in T : \A m \in T : j <= m
    BY <1>2, <2>1, LeastNumber
  <2>3. j \in 1..Len(sent) /\ sent[j] \in Kinds
    BY <1>1
  <2>4. PICK m \in 0..Len(sent) : m = j - 1 /\ (m = i \/ (m \in (i + 1)..Len(sent) /\ m \notin T))
    <3>1. j - 1 \in 0..Len(sent) /\ (j - 1 = i \/ j - 1 \in (i + 1)..Len(sent)) /\ ~(j <= j - 1)
      BY <1>1, <2>3
    <3> QED
      BY <2>2, <3>1
  <2>5. End(j) = End(m) + Len(Text[sent[j]]) /\ End(m) \in Nat /\ End(i) \in Nat
    BY <2>3, <2>4, LineEnds
  <2>6. End(i) <= End(m)
    BY <2>4, <2>5
  <2>7. End(i) < End(j)
    BY <2>3, <2>5, <2>6, LengthOfText
  <2> QED
    BY <2>7
<1>3. k \in (i + 1)..Len(sent)
  BY <1>1
<1> QED
  BY <1>2, <1>3

\* The characters of the stream are those of the lines.
LEMMA CharOfLine ==
  ASSUME sent \in Seq(Kinds), NEW k \in 1..Len(sent), NEW o \in 1..Len(Text[sent[k]])
  PROVE  Stream[End(k - 1) + o] = Text[sent[k]][o]
<1>1. Len(sent) \in Nat /\ sent[k] \in Kinds
  OBVIOUS
<1> DEFINE first(m) == Spelling(SubSeq(sent, 1, m))
           T == {m \in k..Len(sent) : first(m)[End(k - 1) + o] # Text[sent[k]][o]}
<1>2. /\ first(Len(sent)) = Stream
      /\ \A m \in 1..Len(sent) : first(m) = first(m - 1) \o Text[sent[m]]
  BY SpellingStepwise
<1>3. \A m \in 0..Len(sent) : End(m) = Len(first(m)) /\ first(m) \in Seq(Chars) /\ End(m) \in Nat
  BY LineEnds DEF End
<1> HIDE DEF first
<1>4. ASSUME T # {} PROVE FALSE
  <2>1. T \in SUBSET Nat
    BY <1>1
  <2>2. PICK m \in T : \A i \in T : m <= i
    BY <1>4, <2>1, LeastNumber
  <2>3. m \in 1..Len(sent) /\ sent[m] \in Kinds
    BY <1>1
  <2>4. PICK i \in 0..Len(sent) : i = m - 1
    BY <1>1, <2>3
  <2>5. first(m) = first(i) \o Text[sent[m]] /\ first(i) \in Seq(Chars) /\ Text[sent[m]] \in Seq(Chars)
    BY <1>2, <1>3, <2>3, <2>4, CharsOfText
  <2>6. Len(first(i)) = End(i) /\ End(i) \in Nat
    BY <1>3
  <2>7. CASE m = k
    <3>1. first(m)[End(i) + o] = Text[sent[m]][o]
      BY SMTT(60), <2>5, <2>6, <2>7, ConcatProperties
    <3> QED
      BY <2>4, <2>7, <3>1
  <2>8. CASE m # k
    <3>1. i \in k..Len(sent) /\ i \notin T
      BY <1>1, <2>2, <2>4, <2>8
    <3>2. first(i)[End(k - 1) + o] = Text[sent[k]][o]
      BY <3>1
    <3>3. End(k) = End(k - 1) + Len(Text[sent[k]]) /\ End(k - 1) \in Nat /\ End(k) \in Nat
      <4>1. k \in 0..Len(sent) /\ k - 1 \in 0..Len(sent)
        BY <1>1
      <4> QED
        BY <4>1, LineEnds
    <3>4. End(k) <= End(i)
      <4>1. CASE i = k
        BY <3>3, <4>1
      <4>2. CASE k < i
        BY <1>1, <4>2, <3>3, <2>6, LaterEnds
      <4> QED
        BY <1>1, <3>1, <4>1, <4>2
    <3>5. Len(Text[sent[k]]) \in Nat
      BY <1>1, LengthOfText
    <3>6. End(k - 1) + o \in 1..Len(first(i))
      BY SMTT(60), <2>6, <3>3, <3>4, <3>5
    <3>7. first(m)[End(k - 1) + o] = first(i)[End(k - 1) + o]
      BY <2>5, <3>6, ConcatProperties
    <3> QED
      BY <3>2, <3>7
  <2> QED
    BY <2>7, <2>8
<1>5. Len(sent) \in k..Len(sent)
  BY <1>1
<1> QED
  BY <1>2, <1>4, <1>5

\* Every place but the last one is in a line, or in front of one.
LEMMA LineAt ==
  ASSUME sent \in Seq(Kinds), NEW x \in Nat, x < Len(Stream)
  PROVE  \E k \in 1..Len(sent) : End(k - 1) <= x /\ x < End(k)
<1> DEFINE T == {k \in 0..Len(sent) : x < End(k)}
<1>1. Len(sent) \in Nat /\ Len(sent) \in T
  BY LineEnds
<1>2. PICK k \in T : \A i \in T : k <= i
  <2>1. T \in SUBSET Nat /\ T # {}
    BY <1>1
  <2> HIDE DEF T
  <2> QED
    BY <2>1, LeastNumber
<1>3. k # 0
  BY LineEnds
<1>4. k - 1 \in 0..Len(sent) /\ ~(k <= k - 1) /\ k \in 1..Len(sent)
  BY <1>1, <1>3
<1>5. k - 1 \notin T
  BY <1>2, <1>4
<1>6. End(k - 1) \in Nat
  BY <1>4, LineEnds
<1> QED
  BY <1>4, <1>5, <1>6

-----------------------------------------------------------------------------
(* The steps of the automaton.                                             *)

\* The arcs, read one by one.
Arc(s, t, u) ==
  \/ s = "line" /\ t = "CR" /\ u = "cr"
  \/ s = "cr" /\ t = "LF" /\ u = "retline"
  \/ s = "retline" /\ t \in {"OK", "ERROR"} /\ u = "end"
  \/ s = "retline" /\ t = "plus" /\ u = "reply"
  \/ s = "reply" /\ t = "TXT" /\ u = "name"
  \/ s = "name" /\ t = "colon" /\ u = "arglist"
  \/ s = "line" /\ t \in {"AT", "ATCMD"} /\ u = "at"
  \/ s \in {"at", "sep"} /\ t = "TXT" /\ u = "cmd"
  \/ s = "arg" /\ t = "comma" /\ u = "arglist"
  \/ s = "eq" /\ t = "query" /\ u = "end"
  \/ s = "endcr" /\ t = "LF" /\ u = "line"
  \/ s = "at" /\ t \in {"amp", "plus", "caret"} /\ u = "sep"
  \/ s \in {"at", "cmd"} /\ t = "query" /\ u = "end"
  \/ s \in {"at", "cmd"} /\ t = "equals" /\ u = "eq"
  \/ s \in {"eq", "arglist"} /\ t \in {"TXT", "TXTARG"} /\ u = "arg"
  \/ s \in {"name", "at", "cmd", "arg", "end"} /\ t = "CR" /\ u = "endcr"

LEMMA ArcsListed ==
  /\ \A x \in Arcs : Arc(x[1], x[2], x[3])
  /\ \A s, t, u : Arc(s, t, u) => <<s, t, u>> \in Arcs
<1>1. ASSUME NEW x \in Arcs PROVE Arc(x[1], x[2], x[3])
  <2>1. PICK s, t, u : x = <<s, t, u>> /\ Arc(s, t, u)
    BY <1>1 DEF Arcs, Arc
  <2> QED
    BY <2>1
<1>2. ASSUME NEW s, NEW t, NEW u, Arc(s, t, u) PROVE <<s, t, u>> \in Arcs
  BY <1>2 DEF Arcs, Arc
<1> QED
  BY <1>1, <1>2

LEMMA ArcsDiffer == \A s, t, u, v : Arc(s, t, u) /\ Arc(s, t, v) => u = v
BY DEF Arc

\* What the grammar does with a token, q being behind its arc.
Action(p, token, q) ==
  CASE token.is \in {"AT", "ATCMD"} \/ (p.state \in {"at", "sep"} /\ token.is = "TXT") ->
         Named(q, "COMMAND", token.text)
    [] p.state = "reply" -> Named(q, "RESPONSE", token.text)
    [] token.is \in {"OK", "ERROR"} -> Named(q, token.is, NoName)
    [] p.state \in {"eq", "arglist"} /\ token.is # "query" -> on_arg(q, token.text)
    [] p.state = "endcr" -> on_endline(q)
    [] OTHER -> q

\* A token takes the automaton along its arc, ...
LEMMA Moves ==
  ASSUME NEW p, NEW token, NEW u, Arc(p.state, token.is, u), NEW q, q = [p EXCEPT !.state = u]
  PROVE  Parse(p, token) = Action(p, token, q)
<1> DEFINE next == {arc[3] : arc \in {x \in Arcs : x[1] = p.state /\ x[2] = token.is}}
           v == CHOOSE s \in next : TRUE
<1>1. \A s \in next : Arc(p.state, token.is, s)
  BY ArcsListed
<1>2. u \in next
  <2>1. <<p.state, token.is, u>> \in Arcs
    BY ArcsListed
  <2>2. <<p.state, token.is, u>> \in {x \in Arcs : x[1] = p.state /\ x[2] = token.is}
    BY <2>1
  <2>3. <<p.state, token.is, u>>[3] = u
    OBVIOUS
  <2> QED
    BY <2>2, <2>3
<1>3. next # {} /\ v = u
  <2> HIDE DEF next
  <2> QED
    BY <1>1, <1>2, ArcsDiffer
<1>4. Parse(p, token) =
        IF next = {} THEN [p EXCEPT !.state = "error"]
        ELSE CASE token.is \in {"AT", "ATCMD"} \/ (p.state \in {"at", "sep"} /\ token.is = "TXT") ->
                    Named([p EXCEPT !.state = v], "COMMAND", token.text)
               [] p.state = "reply" -> Named([p EXCEPT !.state = v], "RESPONSE", token.text)
               [] token.is \in {"OK", "ERROR"} -> Named([p EXCEPT !.state = v], token.is, NoName)
               [] p.state \in {"eq", "arglist"} /\ token.is # "query" ->
                    on_arg([p EXCEPT !.state = v], token.text)
               [] p.state = "endcr" -> on_endline([p EXCEPT !.state = v])
               [] OTHER -> [p EXCEPT !.state = v]
  BY DEF Parse
<1> HIDE DEF next, v
<1> QED
  BY <1>3, <1>4, Zenon DEF Action

\* ... and to a syntax error if there is none.
LEMMA Fails ==
  ASSUME NEW p, NEW token, \A u : ~Arc(p.state, token.is, u)
  PROVE  Parse(p, token) = [p EXCEPT !.state = "error"]
<1> DEFINE next == {arc[3] : arc \in {x \in Arcs : x[1] = p.state /\ x[2] = token.is}}
<1>1. next = {}
  BY ArcsListed
<1> QED
  BY <1>1, Zenon DEF Parse

Calling(p, type, name) == p.type = type /\ p.name = name

\* The scanner outside (On) and inside (In) a quotation.
On(p, state, run, as) == p.start = "INITIAL" /\ p.state = state /\ p.run = run /\ p.args = as
In(p, state, run, as) == p.start = "ESC" /\ p.state = state /\ p.run = run /\ p.args = as

LEMMA TokenFields == \A kind, text : Token(kind, text).is = kind /\ Token(kind, text).text = text
BY DEF Token

\* A mark.
LEMMA ParseMark ==
  ASSUME NEW p \in Parsers, NEW ch \in Marks, NEW u, Arc(p.state, ch, u), p.state # "endcr"
  PROVE  Parse(p, Token(ch, << >>)) = [p EXCEPT !.state = u]
<1> DEFINE token == Token(ch, << >>)
<1>1. token.is = ch
  BY TokenFields
<1> HIDE DEF token
<1>2. /\ ~(token.is \in {"AT", "ATCMD"} \/ (p.state \in {"at", "sep"} /\ token.is = "TXT"))
      /\ p.state # "reply" /\ token.is \notin {"OK", "ERROR"}
      /\ ~(p.state \in {"eq", "arglist"} /\ token.is # "query")
  BY <1>1 DEF Arc, Marks
<1>3. PICK q : q = [p EXCEPT !.state = u]
  OBVIOUS
<1>4. Parse(p, token) = Action(p, token, q)
  BY <1>1, <1>3, Moves
<1>5. Action(p, token, q) = q
  BY <1>2 DEF Action
<1> QED
  BY <1>3, <1>4, <1>5 DEF token

\* The line feed of a line: its callback.
LEMMA ParseEnd ==
  ASSUME NEW p \in Parsers, p.state = "endcr"
  PROVE  Parse(p, Token("LF", << >>)) = on_endline([p EXCEPT !.state = "line"])
<1>0. PICK token : token = Token("LF", << >>)
  OBVIOUS
<1>1. token.is = "LF"
  BY <1>0, TokenFields
<1>2. PICK u : u = "line" /\ Arc(p.state, token.is, u)
  BY <1>1 DEF Arc
<1>3. PICK q : q = [p EXCEPT !.state = u]
  OBVIOUS
<1>4. Parse(p, token) = Action(p, token, q)
  BY <1>2, <1>3, Moves
<1>5. Action(p, token, q) = on_endline(q)
  BY <1>1 DEF Action
<1> QED
  BY <1>0, <1>2, <1>3, <1>4, <1>5

\* The name of a report or a command, and OK and ERROR.
Renamed(p, u, type, name) == [p EXCEPT !.state = u, !.type = type, !.name = name]

LEMMA ParseName ==
  ASSUME NEW p \in Parsers, NEW token, NEW u, Arc(p.state, token.is, u),
         NEW type, NEW name,
         \/ p.state = "reply" /\ type = "RESPONSE" /\ name = token.text
         \/ p.state = "retline" /\ token.is \in {"OK", "ERROR"} /\ type = token.is /\ name = NoName
         \/ token.is \in {"AT", "ATCMD"} /\ type = "COMMAND" /\ name = token.text
         \/ p.state \in {"at", "sep"} /\ token.is = "TXT" /\ type = "COMMAND" /\ name = token.text
  PROVE  Parse(p, token) = Renamed(p, u, type, name)
<1>1. PICK q : q = [p EXCEPT !.state = u]
  OBVIOUS
<1>2. Parse(p, token) = Action(p, token, q)
  BY <1>1, Moves
<1>3. Action(p, token, q) = Named(q, type, name)
  <2>1. CASE p.state = "reply" /\ type = "RESPONSE" /\ name = token.text
    <3>1. token.is = "TXT"
      BY <2>1 DEF Arc
    <3> QED
      BY <2>1, <3>1 DEF Action
  <2>2. CASE p.state = "retline" /\ token.is \in {"OK", "ERROR"} /\ type = token.is /\ name = NoName
    BY <2>2 DEF Action
  <2>3. CASE token.is \in {"AT", "ATCMD"} /\ type = "COMMAND" /\ name = token.text
    <3>1. p.state = "line"
      BY <2>3 DEF Arc
    <3> QED
      BY <2>3, <3>1 DEF Action
  <2>4. CASE p.state \in {"at", "sep"} /\ token.is = "TXT" /\ type = "COMMAND" /\ name = token.text
    BY <2>4 DEF Action
  <2> QED
    BY <2>1, <2>2, <2>3, <2>4
<1>4. Named(q, type, name) = Renamed(p, u, type, name)
  BY <1>1 DEF Named, Renamed, Parsers
<1> QED
  BY <1>2, <1>3, <1>4

\* An argument.
LEMMA ParseArg ==
  ASSUME NEW p \in Parsers, p.state \in {"eq", "arglist"}, NEW kind \in {"TXT", "TXTARG"}, NEW text
  PROVE  Parse(p, Token(kind, text)) = [p EXCEPT !.state = "arg", !.args = Append(@, text)]
<1>0. PICK token : token = Token(kind, text)
  OBVIOUS
<1>1. token.is = kind /\ token.text = text
  BY <1>0, TokenFields
<1>2. PICK u : u = "arg" /\ Arc(p.state, token.is, u)
  BY <1>1 DEF Arc
<1>3. PICK q : q = [p EXCEPT !.state = u]
  OBVIOUS
<1>4. Parse(p, token) = Action(p, token, q)
  BY <1>2, <1>3, Moves
<1>5. Action(p, token, q) = on_arg(q, text)
  BY <1>1 DEF Action
<1>6. on_arg(q, text) = [p EXCEPT !.state = "arg", !.args = Append(@, text)]
  BY <1>2, <1>3 DEF on_arg, Parsers
<1> QED
  BY <1>0, <1>4, <1>5, <1>6

\* The words of the lines.
IsCommand(text) == Len(text) > 2 /\ SubSeq(text, 1, 2) = <<"A", "T">> /\ "space" \notin ToSet(text)

LEMMA WordIs ==
  ASSUME NEW text
  PROVE  Word(text) = CASE text = <<"A", "T">> -> Token("AT", text)
                        [] IsCommand(text) -> Token("ATCMD", text)
                        [] text = <<"O", "K">> -> Token("OK", text)
                        [] text = <<"E", "R">> -> Token("ERROR", text)
                        [] OTHER -> Token("TXT", text)
BY DEF Word, IsCommand

LEMMA WordFields ==
  ASSUME NEW text \in Texts, text # << >>
  PROVE  /\ Word(text).text = text
         /\ text[1] # "A" => Word(text).is \in {"OK", "ERROR", "TXT"}
         /\ text[1] = "A" => Word(text).is \in {"AT", "ATCMD", "TXT"}
<1>1. Len(text) \in Nat /\ text \in Seq(InWords)
  BY DEF Texts
<1>2. IsCommand(text) => text[1] = "A"
  <2>1. SUFFICES ASSUME IsCommand(text) PROVE text[1] = "A"
    OBVIOUS
  <2>2. \A i \in 1..2 : text[i] \in InWords
    BY <1>1, <2>1 DEF IsCommand
  <2>3. \A i \in 1..(2 - 1 + 1) : SubSeq(text, 1, 2)[i] = text[1 + i - 1]
    BY <2>2, SubSeqProperties, 1 \in Int, 2 \in Int
  <2>4. SubSeq(text, 1, 2)[1] = text[1] /\ <<"A", "T">>[1] = "A"
    BY <2>3
  <2> QED
    BY <2>1, <2>4 DEF IsCommand
<1>3. \/ Word(text) \in {Token("AT", text), Token("ATCMD", text)} /\ text[1] = "A"
      \/ Word(text) \in {Token("OK", text), Token("ERROR", text)} /\ text[1] # "A"
      \/ Word(text) = Token("TXT", text)
  <2>1. CASE text \in {<<"A", "T">>, <<"O", "K">>, <<"E", "R">>}
    <3>1. ~IsCommand(text)
      <4>1. Len(text) = 2
        BY <2>1
      <4> QED
        BY <4>1 DEF IsCommand
    <3> QED
      BY <2>1, <3>1, WordIs
  <2>2. CASE text \notin {<<"A", "T">>, <<"O", "K">>, <<"E", "R">>}
    <3>1. Word(text) = IF IsCommand(text) THEN Token("ATCMD", text) ELSE Token("TXT", text)
      BY <2>2, WordIs
    <3> QED
      BY <1>2, <3>1
  <2> QED
    BY <2>1, <2>2
<1> QED
  BY <1>3, TokenFields

LEMMA WordsOfLines ==
  /\ \A w \in Letters : Word(<<w>>).is = "TXT"
  /\ Word(<<"A", "T">>).is = "AT" /\ Word(<<"A", "T", "E", "1">>).is = "ATCMD"
  /\ Word(<<"O", "K">>).is = "OK" /\ Word(<<"E", "R">>).is = "ERROR"
  /\ Word(<<"a", "space", "E", "R">>).is = "TXT"
<1>1. ASSUME NEW text, NEW n \in 1..2, Len(text) = n PROVE ~IsCommand(text)
  <2>1. ~(n > 2)
    OBVIOUS
  <2> QED
    BY <1>1, <2>1, Zenon DEF IsCommand
<1>2. ASSUME NEW w \in Letters PROVE Word(<<w>>).is = "TXT"
  <2>1. Len(<<w>>) = 1 /\ 1 \in 1..2
    OBVIOUS
  <2>2. ~IsCommand(<<w>>) /\ <<w>> \notin {<<"A", "T">>, <<"O", "K">>, <<"E", "R">>}
    BY <1>1, <2>1
  <2> QED
    BY <2>2, WordIs, TokenFields
<1>3. Word(<<"A", "T">>).is = "AT" /\ Word(<<"O", "K">>).is = "OK" /\ Word(<<"E", "R">>).is = "ERROR"
  <2>1. /\ Len(<<"A", "T">>) = 2 /\ Len(<<"O", "K">>) = 2 /\ Len(<<"E", "R">>) = 2 /\ 2 \in 1..2
    OBVIOUS
  <2>2. ~IsCommand(<<"A", "T">>) /\ ~IsCommand(<<"O", "K">>) /\ ~IsCommand(<<"E", "R">>)
    BY <1>1, <2>1
  <2> QED
    BY <2>2, WordIs, TokenFields
<1>4. Word(<<"a", "space", "E", "R">>).is = "TXT"
  <2> DEFINE text == <<"a", "space", "E", "R">>
  <2>1. text \in Seq(InWords) /\ Len(text) = 4 /\ text[2] = "space"
    BY DEF InWords, Letters
  <2>2. ~IsCommand(text)
    BY <2>1 DEF IsCommand, ToSet
  <2> QED
    BY <2>2, WordIs, TokenFields
<1>5. Word(<<"A", "T", "E", "1">>).is = "ATCMD"
  <2> DEFINE text == <<"A", "T", "E", "1">>
  <2>1. text \in Seq(Letters) /\ Len(text) = 4
    BY DEF Letters
  <2>2. "space" \notin ToSet(text)
    BY <2>1 DEF ToSet, Letters
  <2>3. \A i \in 1..2 : text[i] \in Letters
    BY <2>1
  <2>4. /\ SubSeq(text, 1, 2) \in Seq(Letters)
        /\ Len(SubSeq(text, 1, 2)) = 2
        /\ \A i \in 1..(2 - 1 + 1) : SubSeq(text, 1, 2)[i] = text[1 + i - 1]
    BY <2>3, SubSeqProperties, 1 \in Int, 2 \in Int
  <2>5. SubSeq(text, 1, 2)[1] = "A" /\ SubSeq(text, 1, 2)[2] = "T"
    BY <2>4
  <2>6. ASSUME NEW s \in Seq(Letters), Len(s) = 2, s[1] = "A", s[2] = "T" PROVE s = <<"A", "T">>
    BY <2>6
  <2>7. IsCommand(text) /\ text # <<"A", "T">>
    <3>1. SubSeq(text, 1, 2) = <<"A", "T">>
      BY <2>4, <2>5, <2>6
    <3>2. text # <<"A", "T">>
      BY <2>1
    <3> QED
      BY <2>1, <2>2, <3>1, <3>2 DEF IsCommand
  <2> QED
    BY <2>7, WordIs, TokenFields
<1> QED
  BY <1>2, <1>3, <1>4, <1>5

-----------------------------------------------------------------------------
(* A character of a line, as the scanner takes it.                         *)

\* What a character leaves alone that ends no line.
Same(p, q) == q.got = p.got /\ q.at = p.at + 1
Called1(p, q) == Same(p, q) /\ q.type = p.type /\ q.name = p.name

\* p one character further.
Further(p) == [p EXCEPT !.at = @ + 1]

LEMMA FurtherFields ==
  ASSUME NEW p \in Parsers, NEW q, q = Further(p)
  PROVE  /\ q \in Parsers /\ q.start = p.start /\ q.flexmark = p.flexmark /\ q.state = p.state
         /\ q.run = p.run /\ q.type = p.type /\ q.name = p.name /\ q.args = p.args
         /\ q.got = p.got /\ q.at = p.at + 1
BY DEF Further, Parsers

LEMMA ScanIs ==
  ASSUME NEW p \in Parsers, NEW ch, p.state # "error"
  PROVE  /\ InRun(p, ch) => Scan(p, ch) = [Further(p) EXCEPT !.run = Append(@, ch)]
         /\ ~InRun(p, ch) => Scan(p, ch) = Char(EndRun(Further(p)), ch)
BY DEF Scan, Further

\* A letter.
LEMMA ScanLetter ==
  ASSUME NEW p \in Parsers, NEW ch, p.state # "error", InRun(p, ch), NEW q, q = Scan(p, ch)
  PROVE  /\ q.start = p.start /\ q.flexmark = p.flexmark /\ q.state = p.state
         /\ q.run = Append(p.run, ch) /\ q.args = p.args /\ Called1(p, q)
<1>1. PICK r : r = Further(p)
  OBVIOUS
<1>2. q = [r EXCEPT !.run = Append(@, ch)]
  BY <1>1, ScanIs
<1>3. /\ r \in Parsers /\ r.start = p.start /\ r.flexmark = p.flexmark /\ r.state = p.state
      /\ r.run = p.run /\ r.type = p.type /\ r.name = p.name /\ r.args = p.args
      /\ r.got = p.got /\ r.at = p.at + 1
  BY <1>1, FurtherFields
<1> QED
  BY <1>2, <1>3 DEF Parsers, Same, Called1

LEMMA OnLetter ==
  ASSUME NEW p \in Parsers, NEW ch, NEW state, state # "error", NEW run, NEW as, NEW q, q = Scan(p, ch),
         On(p, state, run, as), ch \in Letters \/ (ch = "space" /\ run # << >>)
  PROVE  On(q, state, Append(run, ch), as) /\ Called1(p, q)
<1>1. InRun(p, ch)
  BY DEF InRun, On
<1> QED
  BY <1>1, ScanLetter DEF On

LEMMA InLetter ==
  ASSUME NEW p \in Parsers, NEW ch, NEW state, state # "error", NEW run, NEW as, NEW q, q = Scan(p, ch),
         In(p, state, run, as), ch \in Letters \cup {"space", "comma"}
  PROVE  In(q, state, Append(run, ch), as) /\ Called1(p, q)
<1>1. InRun(p, ch)
  BY DEF InRun, In
<1> QED
  BY <1>1, ScanLetter DEF In

\* The end of a text.
LEMMA NoRun ==
  ASSUME NEW p \in Parsers, p.run = << >>
  PROVE  EndRun(p) = p
BY DEF EndRun

LEMMA RunEnds ==
  ASSUME NEW p \in Parsers, p.run # << >>, p.state # "error"
  PROVE  /\ p.start = "INITIAL" => EndRun(p) = Parse([p EXCEPT !.run = << >>], Word(p.run))
         /\ p.start = "ESC" =>
              EndRun(p) = Parse([p EXCEPT !.run = << >>, !.flexmark = TRUE], Token("TXTARG", p.run))
BY DEF EndRun

\* It is a name ...
LEMMA RunIsName ==
  ASSUME NEW p \in Parsers, NEW state, NEW run, NEW as, On(p, state, run, as), run # << >>,
         NEW u, Arc(state, Word(run).is, u), NEW type, NEW name,
         \/ state = "reply" /\ type = "RESPONSE" /\ name = run
         \/ state = "retline" /\ Word(run).is \in {"OK", "ERROR"} /\ type = Word(run).is /\ name = NoName
         \/ Word(run).is \in {"AT", "ATCMD"} /\ type = "COMMAND" /\ name = run
         \/ state \in {"at", "sep"} /\ Word(run).is = "TXT" /\ type = "COMMAND" /\ name = run,
         NEW q, q = EndRun(Further(p))
  PROVE  /\ q \in Parsers /\ On(q, u, << >>, as) /\ Calling(q, type, name)
         /\ Same(p, q) /\ q.flexmark = p.flexmark
<1>1. PICK r : r = Further(p)
  OBVIOUS
<1>2. /\ r \in Parsers /\ r.start = "INITIAL" /\ r.flexmark = p.flexmark /\ r.state = state /\ r.run = run
      /\ r.args = as /\ r.got = p.got /\ r.at = p.at + 1
  BY <1>1, FurtherFields DEF On
<1>3. state # "error"
  BY DEF Arc
<1>4. PICK e : e = [r EXCEPT !.run = << >>]
  OBVIOUS
<1>5. /\ e \in Parsers /\ e.start = "INITIAL" /\ e.flexmark = p.flexmark /\ e.state = state
      /\ e.run = << >> /\ e.args = as /\ e.got = p.got /\ e.at = p.at + 1
  BY <1>2, <1>4, NoText DEF Parsers
<1>6. PICK token : token = Word(run)
  OBVIOUS
<1>7. q = Parse(e, token)
  BY <1>1, <1>2, <1>3, <1>4, <1>6, RunEnds
<1>8. token.text = run
  <2>1. run \in Texts
    BY <1>2 DEF Parsers
  <2> QED
    BY <1>6, <2>1, WordFields
<1>9. Parse(e, token) = Renamed(e, u, type, name)
  <2>1. Arc(e.state, token.is, u)
    BY <1>5, <1>6
  <2>2. \/ e.state = "reply" /\ type = "RESPONSE" /\ name = token.text
        \/ e.state = "retline" /\ token.is \in {"OK", "ERROR"} /\ type = token.is /\ name = NoName
        \/ token.is \in {"AT", "ATCMD"} /\ type = "COMMAND" /\ name = token.text
        \/ e.state \in {"at", "sep"} /\ token.is = "TXT" /\ type = "COMMAND" /\ name = token.text
    BY <1>5, <1>6, <1>8
  <2> QED
    BY <1>5, <2>1, <2>2, ParseName
<1>10. q \in Parsers
  BY <1>1, <1>2, EndRunTyped
<1>11. /\ q.start = e.start /\ q.state = u /\ q.run = e.run /\ q.args = e.args /\ q.got = e.got
       /\ q.at = e.at /\ q.type = type /\ q.name = name /\ q.flexmark = e.flexmark
  <2>1. PICK f : f = Renamed(e, u, type, name)
    OBVIOUS
  <2>2. /\ f.start = e.start /\ f.run = e.run /\ f.args = e.args /\ f.got = e.got /\ f.at = e.at
    BY <1>5, <2>1 DEF Renamed, Parsers
  <2>3. f.state = u /\ f.type = type /\ f.name = name
    BY <1>5, <2>1 DEF Renamed, Parsers
  <2>4. f.flexmark = e.flexmark
    BY <1>5, <2>1 DEF Renamed, Parsers
  <2> QED
    BY <1>7, <1>9, <2>1, <2>2, <2>3, <2>4
<1> QED
  BY <1>5, <1>10, <1>11, Zenon DEF On, Calling, Same

\* ... or an argument.
LEMMA RunIsArg ==
  ASSUME NEW p \in Parsers, p.state \in {"eq", "arglist"}, p.run # << >>,
         p.start = "ESC" \/ Word(p.run).is = "TXT", NEW q, q = EndRun(Further(p))
  PROVE  /\ q \in Parsers /\ q.start = p.start /\ q.state = "arg" /\ q.run = << >>
         /\ q.args = Append(p.args, p.run) /\ Called1(p, q)
         /\ q.start = "ESC" => q.flexmark
<1>1. PICK r : r = Further(p)
  OBVIOUS
<1>2. /\ r \in Parsers /\ r.start = p.start /\ r.state = p.state /\ r.run = p.run
      /\ r.args = p.args /\ r.got = p.got /\ r.at = p.at + 1 /\ r.type = p.type /\ r.name = p.name
  BY <1>1, FurtherFields
<1>3. q \in Parsers
  BY <1>1, <1>2, EndRunTyped
<1>4. p.run \in Texts /\ TRUE \in BOOLEAN
  BY DEF Parsers
<1>5. CASE p.start = "ESC"
  <2>1. PICK e : e = [r EXCEPT !.run = << >>, !.flexmark = TRUE]
    OBVIOUS
  <2>2. q = Parse(e, Token("TXTARG", p.run))
    BY <1>1, <1>2, <1>5, <2>1, RunEnds
  <2>3. /\ e \in Parsers /\ e.start = "ESC" /\ e.flexmark /\ e.state = p.state /\ e.run = << >>
        /\ e.args = p.args /\ e.got = p.got /\ e.at = p.at + 1 /\ e.type = p.type /\ e.name = p.name
    BY <1>2, <1>4, <1>5, <2>1, NoText DEF Parsers
  <2>4. q = [e EXCEPT !.state = "arg", !.args = Append(@, p.run)]
    BY <2>2, <2>3, ParseArg
  <2> QED
    BY <1>3, <1>5, <2>3, <2>4 DEF Parsers, Same, Called1
<1>6. CASE p.start = "INITIAL"
  <2>1. PICK e : e = [r EXCEPT !.run = << >>]
    OBVIOUS
  <2>2. q = Parse(e, Word(p.run))
    BY <1>1, <1>2, <1>6, <2>1, RunEnds
  <2>3. /\ e \in Parsers /\ e.start = "INITIAL" /\ e.state = p.state /\ e.run = << >>
        /\ e.args = p.args /\ e.got = p.got /\ e.at = p.at + 1 /\ e.type = p.type /\ e.name = p.name
    BY <1>2, <1>6, <2>1, NoText DEF Parsers
  <2>4. Word(p.run) = Token("TXT", p.run)
    <3>1. Word(p.run).is = "TXT"
      BY <1>6
    <3> QED
      BY <3>1, WordIs, TokenFields
  <2>5. q = [e EXCEPT !.state = "arg", !.args = Append(@, p.run)]
    <3>1. PICK kind \in {"TXT", "TXTARG"} : kind = "TXT"
      OBVIOUS
    <3>2. q = Parse(e, Token(kind, p.run))
      BY <2>2, <2>4, <3>1
    <3> QED
      BY ZenonT(60), <2>3, <3>2, ParseArg
  <2> QED
    BY <1>3, <1>6, <2>3, <2>5 DEF Parsers, Same, Called1
<1> QED
  BY <1>5, <1>6 DEF Parsers

\* The character behind the text.
Kept(p, q) == q.type = p.type /\ q.name = p.name /\ q.got = p.got /\ q.at = p.at

LEMMA CharMark ==
  ASSUME NEW p \in Parsers, NEW state, NEW run, NEW as, On(p, state, run, as), state # "endcr",
         NEW ch \in Marks, NEW u, Arc(state, ch, u), NEW q, q = Char(p, ch)
  PROVE  On(q, u, run, as) /\ Kept(p, q)
<1>1. p.state = state /\ p.start = "INITIAL" /\ p.run = run /\ p.args = as
  BY DEF On
<1>2. p.state # "error" /\ ch # Quote
  BY <1>1 DEF Arc, Marks, Quote
<1>3. q = Parse(p, Token(ch, << >>))
  BY <1>1, <1>2 DEF Char
<1>4. q = [p EXCEPT !.state = u]
  BY <1>1, <1>3, ParseMark
<1> QED
  BY <1>1, <1>4 DEF Parsers, On, Kept

LEMMA OnMark ==
  ASSUME NEW p \in Parsers, NEW state, NEW as, On(p, state, << >>, as),
         NEW ch \in Marks, NEW u, Arc(state, ch, u), state # "endcr", NEW q, q = Scan(p, ch)
  PROVE  On(q, u, << >>, as) /\ Called1(p, q)
<1>1. PICK r : r = Further(p)
  OBVIOUS
<1>2. r \in Parsers /\ On(r, state, << >>, as) /\ Called1(p, r)
  BY <1>1, FurtherFields DEF On, Called1, Same
<1>3. ~InRun(p, ch) /\ p.state # "error"
  BY DEF InRun, Marks, Letters, On, Arc
<1>4. q = Char(r, ch)
  BY <1>1, <1>2, <1>3, ScanIs, NoRun DEF On
<1>5. On(q, u, << >>, as) /\ Kept(r, q)
  BY <1>2, <1>4, CharMark
<1> QED
  BY <1>2, <1>5 DEF Kept, Called1, Same

LEMMA OnNameMark ==
  ASSUME NEW p \in Parsers, NEW state, NEW run, NEW as, On(p, state, run, as), run # << >>,
         NEW u, Arc(state, Word(run).is, u), NEW type, NEW name,
         \/ state = "reply" /\ type = "RESPONSE" /\ name = run
         \/ state = "retline" /\ Word(run).is \in {"OK", "ERROR"} /\ type = Word(run).is /\ name = NoName
         \/ Word(run).is \in {"AT", "ATCMD"} /\ type = "COMMAND" /\ name = run
         \/ state \in {"at", "sep"} /\ Word(run).is = "TXT" /\ type = "COMMAND" /\ name = run,
         NEW ch \in Marks, NEW v, Arc(u, ch, v), NEW q, q = Scan(p, ch)
  PROVE  On(q, v, << >>, as) /\ Calling(q, type, name) /\ Same(p, q)
<1>1. PICK r : r = EndRun(Further(p))
  OBVIOUS
<1>2. r \in Parsers /\ On(r, u, << >>, as) /\ Calling(r, type, name) /\ Same(p, r)
  BY ZenonT(60), <1>1, RunIsName
<1>3. ~InRun(p, ch) /\ p.state # "error"
  BY DEF InRun, Marks, Letters, On, Arc
<1>4. q = Char(r, ch)
  BY <1>1, <1>3, ScanIs
<1>5. u # "endcr"
  <2>1. Word(run).is # "CR"
    <3>1. run \in Texts
      BY DEF On, Parsers
    <3> QED
      BY <3>1, WordFields
  <2> QED
    BY <2>1 DEF Arc
<1>6. On(q, v, << >>, as) /\ Kept(r, q)
  BY <1>2, <1>4, <1>5, CharMark
<1> QED
  BY <1>2, <1>6 DEF Kept, Calling, Same

LEMMA OnArgMark ==
  ASSUME NEW p \in Parsers, NEW state \in {"eq", "arglist"}, NEW run, NEW as, On(p, state, run, as),
         run # << >>, Word(run).is = "TXT",
         NEW ch \in Marks, NEW v, Arc("arg", ch, v), NEW q, q = Scan(p, ch)
  PROVE  On(q, v, << >>, Append(as, run)) /\ Called1(p, q)
<1>1. PICK r : r = EndRun(Further(p))
  OBVIOUS
<1>2. p.state = state /\ p.run = run /\ p.args = as /\ p.start = "INITIAL"
  BY DEF On
<1>3. r \in Parsers /\ On(r, "arg", << >>, Append(as, run)) /\ Called1(p, r)
  BY <1>1, <1>2, RunIsArg DEF On
<1>4. ~InRun(p, ch) /\ p.state # "error"
  BY <1>2 DEF InRun, Marks, Letters
<1>5. q = Char(r, ch)
  BY <1>1, <1>4, ScanIs
<1>6. On(q, v, << >>, Append(as, run)) /\ Kept(r, q)
  <2>1. PICK s : s = "arg" /\ Arc(s, ch, v) /\ On(r, s, << >>, Append(as, run)) /\ s # "endcr"
    BY <1>3
  <2> QED
    BY <1>3, <1>5, <2>1, CharMark
<1> QED
  BY <1>3, <1>6 DEF Kept, Called1, Same

\* The line feed of a line.
LEMMA OnEnd ==
  ASSUME NEW p \in Parsers, NEW as, On(p, "endcr", << >>, as), NEW q, q = Scan(p, "LF")
  PROVE  /\ On(q, "line", << >>, << >>) /\ q.at = p.at + 1
         /\ q.got = Append(p.got, [cb |-> Meant(p.type, p.name, as), at |-> p.at + 1])
<1>1. PICK r : r = Further(p)
  OBVIOUS
<1>2. /\ r \in Parsers /\ r.start = "INITIAL" /\ r.state = "endcr" /\ r.run = << >> /\ r.args = as
      /\ r.type = p.type /\ r.name = p.name /\ r.got = p.got /\ r.at = p.at + 1
  BY <1>1, FurtherFields DEF On
<1>3. ~InRun(p, "LF") /\ p.state # "error"
  BY DEF InRun, Letters, On
<1>4. q = Char(r, "LF")
  BY <1>1, <1>2, <1>3, ScanIs, NoRun
<1>5. q = Parse(r, Token("LF", << >>))
  BY <1>2, <1>4 DEF Char, Marks, Quote
<1>6. q = on_endline([r EXCEPT !.state = "line"])
  BY <1>2, <1>5, ParseEnd
<1>7. PICK e : e = [cb |-> Meant(p.type, p.name, as), at |-> p.at + 1]
  OBVIOUS
<1>8. q = [r EXCEPT !.state = "line", !.got = Append(@, e), !.args = << >>]
  BY <1>2, <1>6, <1>7 DEF on_endline, Parsers
<1> QED
  BY <1>2, <1>7, <1>8 DEF On, Parsers

\* A quote opens ...
LEMMA OnQuote ==
  ASSUME NEW p \in Parsers, NEW state, NEW as, On(p, state, << >>, as), state # "error",
         NEW q, q = Scan(p, Quote)
  PROVE  In(q, state, << >>, as) /\ ~q.flexmark /\ Called1(p, q)
<1>1. PICK r : r = Further(p)
  OBVIOUS
<1>2. /\ r \in Parsers /\ r.start = "INITIAL" /\ r.state = state /\ r.run = << >> /\ r.args = as
      /\ r.type = p.type /\ r.name = p.name /\ r.got = p.got /\ r.at = p.at + 1
  BY <1>1, FurtherFields DEF On
<1>3. ~InRun(p, Quote) /\ p.state # "error"
  BY DEF InRun, Letters, On, Quote
<1>4. q = Char(r, Quote)
  BY <1>1, <1>2, <1>3, ScanIs, NoRun
<1>5. q = [r EXCEPT !.start = "ESC", !.flexmark = FALSE]
  <2>1. q = quote(r)
    BY <1>2, <1>4 DEF Char, Marks, Quote
  <2> QED
    BY <1>2, <2>1, Zenon DEF quote
<1> QED
  BY <1>2, <1>5 DEF In, Parsers, Called1, Same

\* ... or closes a quotation, whose text is an argument.
LEMMA InQuote ==
  ASSUME NEW p \in Parsers, NEW state \in {"eq", "arglist"}, NEW run, NEW as, In(p, state, run, as),
         run # << >> \/ ~p.flexmark, NEW q, q = Scan(p, Quote)
  PROVE  On(q, "arg", << >>, Append(as, run)) /\ Called1(p, q)
<1>1. p.state = state /\ p.run = run /\ p.args = as /\ p.start = "ESC"
  BY DEF In
<1>2. ~InRun(p, Quote) /\ p.state # "error"
  BY <1>1 DEF InRun, Letters, Quote
<1>3. CASE run # << >>
  <2>1. PICK r : r = EndRun(Further(p))
    OBVIOUS
  <2>2. /\ r \in Parsers /\ r.start = "ESC" /\ r.state = "arg" /\ r.run = << >>
        /\ r.args = Append(as, run) /\ Called1(p, r) /\ r.flexmark
    BY <1>1, <1>3, <2>1, RunIsArg
  <2>3. q = Char(r, Quote)
    BY <1>2, <2>1, ScanIs
  <2>4. q = [r EXCEPT !.start = "INITIAL"]
    BY <2>2, <2>3 DEF Char, quote
  <2> QED
    BY <2>2, <2>4 DEF On, Parsers, Called1, Same
<1>4. CASE run = << >>
  <2>1. PICK r : r = Further(p)
    OBVIOUS
  <2>2. /\ r \in Parsers /\ r.start = "ESC" /\ r.state = state /\ r.run = << >> /\ r.args = as
        /\ r.type = p.type /\ r.name = p.name /\ r.got = p.got /\ r.at = p.at + 1
    BY <1>1, <1>4, <2>1, FurtherFields
  <2>3. ~r.flexmark
    BY <1>4, <2>1, FurtherFields
  <2>4. q = Char(r, Quote)
    BY <1>2, <2>1, <2>2, ScanIs, NoRun
  <2>5. PICK e : e = [r EXCEPT !.start = "INITIAL"]
    OBVIOUS
  <2>6. q = Parse(e, Token("TXTARG", NULL))
    BY <2>2, <2>3, <2>4, <2>5 DEF Char, quote
  <2>7. /\ e \in Parsers /\ e.start = "INITIAL" /\ e.state = state /\ e.run = << >> /\ e.args = as
        /\ e.type = p.type /\ e.name = p.name /\ e.got = p.got /\ e.at = p.at + 1
    BY <2>2, <2>5 DEF Parsers
  <2>8. NULL = run
    BY <1>4, Zenon DEF NULL
  <2>9. q = [e EXCEPT !.state = "arg", !.args = Append(@, run)]
    BY <2>6, <2>7, <2>8, ParseArg
  <2> QED
    BY <2>7, <2>9 DEF On, Parsers, Called1, Same
<1> QED
  BY <1>3, <1>4

\* A character that no rule takes: it only ends the text before it.
LEMMA OnSpace ==
  ASSUME NEW p \in Parsers, NEW state, NEW as, On(p, state, << >>, as), state # "error",
         NEW q, q = Scan(p, "space")
  PROVE  On(q, state, << >>, as) /\ Called1(p, q)
<1>1. PICK r : r = Further(p)
  OBVIOUS
<1>2. /\ r \in Parsers /\ r.start = "INITIAL" /\ r.state = state /\ r.run = << >> /\ r.args = as
      /\ r.type = p.type /\ r.name = p.name /\ r.got = p.got /\ r.at = p.at + 1
  BY <1>1, FurtherFields DEF On
<1>3. ~InRun(p, "space") /\ p.state # "error"
  BY DEF InRun, Letters, On
<1>4. q = Char(r, "space")
  BY <1>1, <1>2, <1>3, ScanIs, NoRun
<1>5. q = r
  BY <1>4 DEF Char, Marks, Quote
<1> QED
  BY <1>2, <1>5 DEF On, Called1, Same

LEMMA InHyphen ==
  ASSUME NEW p \in Parsers, NEW state \in {"eq", "arglist"}, NEW run, NEW as, In(p, state, run, as),
         run # << >>, NEW q, q = Scan(p, "hyphen")
  PROVE  In(q, "arg", << >>, Append(as, run)) /\ Called1(p, q)
<1>1. p.state = state /\ p.run = run /\ p.args = as /\ p.start = "ESC"
  BY DEF In
<1>2. ~InRun(p, "hyphen") /\ p.state # "error"
  BY <1>1 DEF InRun, Letters
<1>3. PICK r : r = EndRun(Further(p))
  OBVIOUS
<1>4. /\ r \in Parsers /\ r.start = "ESC" /\ r.state = "arg" /\ r.run = << >>
      /\ r.args = Append(as, run) /\ Called1(p, r)
  BY <1>1, <1>3, RunIsArg
<1>5. q = Char(r, "hyphen")
  BY <1>2, <1>3, ScanIs
<1>6. q = r
  BY <1>5 DEF Char, Marks, Quote
<1> QED
  BY <1>4, <1>6 DEF In

-----------------------------------------------------------------------------
(* The scanner in the middle of a line.                                    *)

\* The texts, written out.
Reads(l, t) == Len(Text[l]) = Len(t) /\ \A i \in 1..Len(t) : Text[l][i] = t[i]

LEMMA TextOf ==
  /\ Reads("ok", << "CR", "LF", "O", "K", "CR", "LF" >>)
  /\ Reads("error", << "CR", "LF", "E", "R", "CR", "LF" >>)
  /\ Reads("response", << "CR", "LF", "plus", "a", "colon", "space", "1", "comma", "0", "CR", "LF" >>)
  /\ Reads("quoted", << "CR", "LF", "plus", "a", "colon", "space", Quote, "a", Quote,
                        "comma", Quote, Quote, "CR", "LF" >>)
  /\ Reads("dash", << "CR", "LF", "plus", "a", "colon", Quote, "a", "hyphen", "a", Quote, "CR", "LF" >>)
  /\ Reads("cme", << "CR", "LF", "plus", "a", "space", "E", "R", "colon", "1", "CR", "LF" >>)
  /\ Reads("nw3", << "CR", "LF", "plus", "N", "colon", "space", "3", "CR", "LF" >>)
  /\ Reads("nw5", << "CR", "LF", "plus", "N", "colon", "space", "5", "CR", "LF" >>)
  /\ Reads("inactive", << "CR", "LF", "plus", "C", "colon", "1", "comma", "0", "CR", "LF" >>)
  /\ Reads("echo", << "A", "T", "plus", "a", "equals", Quote, "a", Quote, "CR", "LF" >>)
  /\ Reads("ate1", << "A", "T", "E", "1", "CR", "LF" >>)
<1>1. Reads("ok", << "CR", "LF", "O", "K", "CR", "LF" >>)
  BY DEF Reads, Text, CRLF
<1>2. Reads("error", << "CR", "LF", "E", "R", "CR", "LF" >>)
  BY DEF Reads, Text, CRLF
<1>3. Reads("response", << "CR", "LF", "plus", "a", "colon", "space", "1", "comma", "0", "CR", "LF" >>)
  BY DEF Reads, Text, CRLF
<1>4. Reads("quoted", << "CR", "LF", "plus", "a", "colon", "space", Quote, "a", Quote,
                         "comma", Quote, Quote, "CR", "LF" >>)
  BY DEF Reads, Text, CRLF
<1>5. Reads("dash", << "CR", "LF", "plus", "a", "colon", Quote, "a", "hyphen", "a", Quote, "CR", "LF" >>)
  BY DEF Reads, Text, CRLF
<1>6. Reads("cme", << "CR", "LF", "plus", "a", "space", "E", "R", "colon", "1", "CR", "LF" >>)
  BY DEF Reads, Text, CRLF
<1>7. Reads("nw3", << "CR", "LF", "plus", "N", "colon", "space", "3", "CR", "LF" >>)
  BY DEF Reads, Text, CRLF
<1>8. Reads("nw5", << "CR", "LF", "plus", "N", "colon", "space", "5", "CR", "LF" >>)
  BY DEF Reads, Text, CRLF
<1>9. Reads("inactive", << "CR", "LF", "plus", "C", "colon", "1", "comma", "0", "CR", "LF" >>)
  BY DEF Reads, Text, CRLF
<1>10. Reads("echo", << "A", "T", "plus", "a", "equals", Quote, "a", Quote, "CR", "LF" >>)
  BY DEF Reads, Text, CRLF
<1>11. Reads("ate1", << "A", "T", "E", "1", "CR", "LF" >>)
  BY DEF Reads, Text, CRLF
<1> QED
  BY <1>1, <1>2, <1>3, <1>4, <1>5, <1>6, <1>7, <1>8, <1>9, <1>10, <1>11

LEMMA GivesOf ==
  /\ \A l \in Kinds : Gives[l] = Meant(Gives[l].type, Gives[l].name, Gives[l].args)
  /\ \A l \in Kinds \ {"ok", "error", "echo", "ate1"} : Gives[l].type = "RESPONSE"
  /\ \A l \in {"response", "quoted", "dash"} : Gives[l].name = <<"a">>
  /\ \A l \in {"nw3", "nw5"} : Gives[l].name = <<"N">>
  /\ Gives["inactive"].name = <<"C">> /\ Gives["cme"].name = <<"a", "space", "E", "R">>
  /\ \A l \in {"response", "inactive"} : Gives[l].args = << <<"1">>, <<"0">> >>
  /\ Gives["quoted"].args = << <<"a">>, NULL >>
  /\ Gives["nw3"].args = << <<"3">> >> /\ Gives["nw5"].args = << <<"5">> >>
  /\ Gives["cme"].args = << <<"1">> >>
  /\ \A l \in {"ok", "error", "ate1"} : Gives[l].args = << >>
  /\ Gives["ok"].type = "OK" /\ Gives["error"].type = "ERROR"
  /\ Gives["ok"].name = NoName /\ Gives["error"].name = NoName
  /\ \A l \in {"echo", "ate1"} : Gives[l].type = "COMMAND"
  /\ Gives["echo"].name = <<"a">> /\ Gives["echo"].args = << <<"a">> >>
  /\ Gives["ate1"].name = <<"A", "T", "E", "1">>
BY DEF Gives, Meant, Kinds

LEMMA Appends ==
  /\ \A u : Append(<< >>, u) = <<u>>
  /\ \A u, v : Append(<<u>>, v) = <<u, v>>
  /\ \A u, v, w : Append(<<u, v>>, w) = <<u, v, w>>
  /\ \A u, v, w, x : Append(<<u, v, w>>, x) = <<u, v, w, x>>
<1>1. ASSUME NEW S, NEW s \in Seq(S), NEW t \in Seq(S), NEW n \in Nat, Len(s) = n, Len(t) = n,
             \A i \in 1..n : s[i] = t[i]
      PROVE  s = t
  BY <1>1
<1>2. ASSUME NEW u PROVE Append(<< >>, u) = <<u>>
  <2>1. /\ Append(<< >>, u) \in Seq({u}) /\ <<u>> \in Seq({u})
        /\ Len(Append(<< >>, u)) = 1 /\ Append(<< >>, u)[1] = u
    OBVIOUS
  <2> QED
    BY <2>1
<1>3. ASSUME NEW u, NEW v PROVE Append(<<u>>, v) = <<u, v>>
  <2>1. /\ Append(<<u>>, v) \in Seq({u, v}) /\ Len(Append(<<u>>, v)) = 2
        /\ Append(<<u>>, v)[1] = u /\ Append(<<u>>, v)[2] = v
    OBVIOUS
  <2>2. <<u, v>> \in Seq({u, v}) /\ Len(<<u, v>>) = 2 /\ <<u, v>>[1] = u /\ <<u, v>>[2] = v
    OBVIOUS
  <2>3. \A i \in 1..2 : Append(<<u>>, v)[i] = <<u, v>>[i]
    BY <2>1, <2>2
  <2> QED
    BY <1>1, <2>1, <2>2, <2>3
<1>4. ASSUME NEW u, NEW v, NEW w PROVE Append(<<u, v>>, w) = <<u, v, w>>
  <2>1. /\ Append(<<u, v>>, w) \in Seq({u, v, w}) /\ Len(Append(<<u, v>>, w)) = 3
        /\ Append(<<u, v>>, w)[1] = u /\ Append(<<u, v>>, w)[2] = v /\ Append(<<u, v>>, w)[3] = w
    OBVIOUS
  <2>2. /\ <<u, v, w>> \in Seq({u, v, w}) /\ Len(<<u, v, w>>) = 3
        /\ <<u, v, w>>[1] = u /\ <<u, v, w>>[2] = v /\ <<u, v, w>>[3] = w
    OBVIOUS
  <2>3. \A i \in 1..3 : Append(<<u, v>>, w)[i] = <<u, v, w>>[i]
    BY <2>1, <2>2
  <2> QED
    BY <1>1, <2>1, <2>2, <2>3
<1>5. ASSUME NEW u, NEW v, NEW w, NEW x PROVE Append(<<u, v, w>>, x) = <<u, v, w, x>>
  <2> DEFINE s == Append(<<u, v, w>>, x)
             t == <<u, v, w, x>>
  <2>1. /\ s \in Seq({u, v, w, x}) /\ Len(s) = 4
        /\ s[1] = u /\ s[2] = v /\ s[3] = w /\ s[4] = x
    OBVIOUS
  <2>2. t \in Seq({u, v, w, x}) /\ Len(t) = 4 /\ t[1] = u /\ t[2] = v /\ t[3] = w /\ t[4] = x
    OBVIOUS
  <2> HIDE DEF s, t
  <2>3. \A i \in 1..4 : s[i] = t[i]
    BY <2>1, <2>2
  <2>4. s = t
    BY <1>1, <2>1, <2>2, <2>3
  <2> QED
    BY <2>4 DEF s, t
<1> QED
  BY <1>2, <1>3, <1>4, <1>5

\* The first character of a text in a quotation.
LEMMA InFirstLetter ==
  ASSUME NEW p \in Parsers, NEW ch, NEW state, state # "error", NEW as, NEW q, q = Scan(p, ch),
         In(p, state, << >>, as), ch \in Letters
  PROVE  In(q, state, <<ch>>, as) /\ Called1(p, q)
<1>1. PICK run : run = << >> /\ Append(run, ch) = <<ch>>
  BY Appends
<1>2. In(p, state, run, as)
  BY <1>1
<1>3. In(q, state, Append(run, ch), as) /\ Called1(p, q)
  BY <1>2, InLetter
<1> QED
  BY <1>1, <1>3

\* Where the scanner is behind the first o characters of a line that it has followed
\* from its start.
Commands == {"echo", "ate1"}
Replies  == Kinds \ {"ok", "error", "echo", "ate1"}

Begins(p, l, o) ==
  \/ o = 0 /\ On(p, "line", << >>, << >>)
  \/ o = 1 /\ l \notin Commands /\ On(p, "cr", << >>, << >>)
  \/ o = 2 /\ l \notin Commands /\ On(p, "retline", << >>, << >>)

InFinal(p, l, o) ==
  \/ o = 3 /\ On(p, "retline", <<Text[l][3]>>, << >>)
  \/ o = 4 /\ On(p, "retline", <<Text[l][3], Text[l][4]>>, << >>)

InName(p, l, o) ==
  \/ o = 3 /\ On(p, "reply", << >>, << >>)
  \/ o = 4 /\ On(p, "reply", <<Text[l][4]>>, << >>)
  \/ l = "cme" /\ \/ o = 5 /\ On(p, "reply", <<"a", "space">>, << >>)
                  \/ o = 6 /\ On(p, "reply", <<"a", "space", "E">>, << >>)
                  \/ o = 7 /\ On(p, "reply", <<"a", "space", "E", "R">>, << >>)

InNumbers(p, l, first, o) ==
  \/ o = 5 /\ first = 6 /\ On(p, "arglist", << >>, << >>)
  \/ o = first /\ On(p, "arglist", << >>, << >>)
  \/ o = first + 1 /\ On(p, "arglist", <<Text[l][first + 1]>>, << >>)
  \/ l \in {"response", "inactive"} /\ o = first + 2 /\ On(p, "arglist", << >>, << <<"1">> >>)
  \/ l \in {"response", "inactive"} /\ o = first + 3 /\ On(p, "arglist", <<"0">>, << <<"1">> >>)

InQuoted(p, o) ==
  \/ o \in 5..6 /\ On(p, "arglist", << >>, << >>)
  \/ o = 7 /\ In(p, "arglist", << >>, << >>)
  \/ o = 8 /\ In(p, "arglist", <<"a">>, << >>)
  \/ o = 9 /\ On(p, "arg", << >>, << <<"a">> >>)
  \/ o = 10 /\ On(p, "arglist", << >>, << <<"a">> >>)
  \/ o = 11 /\ In(p, "arglist", << >>, << <<"a">> >>) /\ ~p.flexmark
  \/ o = 12 /\ On(p, "arg", << >>, << <<"a">>, NULL >>)

InDash(p, o) ==
  \/ o = 5 /\ On(p, "arglist", << >>, << >>)
  \/ o = 6 /\ In(p, "arglist", << >>, << >>)
  \/ o = 7 /\ In(p, "arglist", <<"a">>, << >>)
  \/ o = 8 /\ In(p, "arg", << >>, << <<"a">> >>)
  \/ o = 9 /\ In(p, "arg", <<"a">>, << <<"a">> >>)

InArgs(p, l, o) ==
  /\ Calling(p, "RESPONSE", Gives[l].name)
  /\ \/ l \in {"response", "nw3", "nw5"} /\ InNumbers(p, l, 6, o)
     \/ l = "inactive" /\ InNumbers(p, l, 5, o)
     \/ l = "cme" /\ InNumbers(p, l, 8, o)
     \/ l = "quoted" /\ InQuoted(p, o)
     \/ l = "dash" /\ InDash(p, o)

InEcho(p, o) ==
  \/ o = 1 /\ On(p, "line", <<"A">>, << >>)
  \/ o = 2 /\ On(p, "line", <<"A", "T">>, << >>)
  \/ o = 3 /\ On(p, "sep", << >>, << >>)
  \/ o = 4 /\ On(p, "sep", <<"a">>, << >>)
  \/ /\ Calling(p, "COMMAND", <<"a">>)
     /\ \/ o = 5 /\ On(p, "eq", << >>, << >>)
        \/ o = 6 /\ In(p, "eq", << >>, << >>)
        \/ o = 7 /\ In(p, "eq", <<"a">>, << >>)
        \/ o = 8 /\ On(p, "arg", << >>, << <<"a">> >>)

InAte1(p, o) ==
  \/ o = 1 /\ On(p, "line", <<"A">>, << >>)
  \/ o = 2 /\ On(p, "line", <<"A", "T">>, << >>)
  \/ o = 3 /\ On(p, "line", <<"A", "T", "E">>, << >>)
  \/ o = 4 /\ On(p, "line", <<"A", "T", "E", "1">>, << >>)

Ends(p, l, o) ==
  /\ o = Len(Text[l]) - 1 /\ l # "dash"
  /\ On(p, "endcr", << >>, Gives[l].args) /\ Calling(p, Gives[l].type, Gives[l].name)

Partway(p, l, o) ==
  \/ Begins(p, l, o) \/ Ends(p, l, o)
  \/ l \in {"ok", "error"} /\ InFinal(p, l, o)
  \/ l \in Replies /\ (InName(p, l, o) \/ InArgs(p, l, o))
  \/ l = "echo" /\ InEcho(p, o)
  \/ l = "ate1" /\ InAte1(p, o)
LEMMA LastOfLine == \A l \in Kinds : Text[l][Len(Text[l])] = "LF"
<1>1. \A l \in {"ok", "error", "ate1"} : Len(Text[l]) = 6 /\ Text[l][6] = "LF"
  BY TextOf DEF Reads
<1>2. \A l \in {"nw3", "nw5"} : Len(Text[l]) = 9 /\ Text[l][9] = "LF"
  BY TextOf DEF Reads
<1>3. \A l \in {"inactive", "echo"} : Len(Text[l]) = 10 /\ Text[l][10] = "LF"
  BY TextOf DEF Reads
<1>4. \A l \in {"response", "cme"} : Len(Text[l]) = 11 /\ Text[l][11] = "LF"
  BY TextOf DEF Reads
<1>5. \A l \in {"dash"} : Len(Text[l]) = 12 /\ Text[l][12] = "LF"
  BY TextOf DEF Reads
<1>6. \A l \in {"quoted"} : Len(Text[l]) = 14 /\ Text[l][14] = "LF"
  BY TextOf DEF Reads
<1> QED
  BY <1>1, <1>2, <1>3, <1>4, <1>5, <1>6 DEF Kinds

LEMMA PartwayWhen ==
  ASSUME NEW p, NEW l, NEW o
  PROVE  /\ Ends(p, l, o) => Partway(p, l, o)
         /\ l = "echo" /\ InEcho(p, o) => Partway(p, l, o)
         /\ l = "ate1" /\ InAte1(p, o) => Partway(p, l, o)
BY Zenon DEF Partway

LEMMA Lengths ==
  ASSUME NEW l \in Kinds
  PROVE  Len(Text[l]) = CASE l \in {"ok", "error", "ate1"} -> 6 [] l \in {"nw3", "nw5"} -> 9
                          [] l \in {"inactive", "echo"} -> 10 [] l \in {"response", "cme"} -> 11
                          [] l = "dash" -> 12 [] l = "quoted" -> 14
BY TextOf DEF Reads, Kinds

\* The next character takes the scanner to the next place, and nothing is called back.
Next1(p, q, l, o) == Partway(q, l, o + 1) /\ Same(p, q)

LEMMA NextWhen ==
  ASSUME NEW p, NEW q, NEW l, NEW o, Same(p, q),
         \/ Ends(q, l, o + 1)
         \/ l = "echo" /\ InEcho(q, o + 1)
         \/ l = "ate1" /\ InAte1(q, o + 1)
  PROVE  Next1(p, q, l, o)
<1>1. PICK n : n = o + 1
  OBVIOUS
<1>2. Partway(q, l, n)
  BY <1>1, PartwayWhen
<1> QED
  BY <1>1, <1>2 DEF Next1

LEMMA BeginsGoesOn ==
  ASSUME NEW p \in Parsers, NEW l \in Kinds, NEW o, Begins(p, l, o),
         NEW q, q = Scan(p, Text[l][o + 1])
  PROVE  Next1(p, q, l, o)
<1>1. CASE o = 0 /\ l \notin Commands
  <2>1. Text[l][1] = "CR"
    BY <1>1, TextOf DEF Reads, Kinds, Commands
  <2>2. On(p, "line", << >>, << >>) /\ q = Scan(p, "CR")
    BY <1>1, <2>1 DEF Begins
  <2>3. On(q, "cr", << >>, << >>) /\ Called1(p, q)
    BY <2>2, OnMark DEF Arc, Marks
  <2> QED
    BY <1>1, <2>3 DEF Next1, Partway, Begins, Called1
<1>2. CASE o = 0 /\ l \in Commands
  <2>1. Text[l][1] = "A"
    BY <1>2, TextOf DEF Reads, Commands
  <2>2. On(p, "line", << >>, << >>) /\ q = Scan(p, "A")
    BY <1>2, <2>1 DEF Begins
  <2>3. On(q, "line", <<"A">>, << >>) /\ Called1(p, q)
    BY <2>2, OnLetter, Appends DEF Letters
  <2> QED
    BY <1>2, <2>3 DEF Next1, Partway, Commands, InEcho, InAte1, Called1
<1>3. CASE o = 1 /\ l \notin Commands
  <2>1. Text[l][2] = "LF"
    BY <1>3, TextOf DEF Reads, Kinds, Commands
  <2>2. On(p, "cr", << >>, << >>) /\ q = Scan(p, "LF")
    BY <1>3, <2>1 DEF Begins
  <2>3. On(q, "retline", << >>, << >>) /\ Called1(p, q)
    BY <2>2, OnMark DEF Arc, Marks
  <2> QED
    BY <1>3, <2>3 DEF Next1, Partway, Begins, Called1
<1>4. CASE o = 2 /\ l \in {"ok", "error"}
  <2>1. PICK w \in Letters : w = Text[l][3]
    BY <1>4, TextOf DEF Reads, Letters
  <2>2. On(p, "retline", << >>, << >>) /\ q = Scan(p, w)
    BY <1>4, <2>1 DEF Begins
  <2>3. On(q, "retline", <<w>>, << >>) /\ Called1(p, q)
    BY <2>2, OnLetter, Appends
  <2> QED
    BY <1>4, <2>1, <2>3 DEF Next1, Partway, InFinal, Called1
<1>5. CASE o = 2 /\ l \in Replies
  <2>1. Text[l][3] = "plus"
    BY <1>5, TextOf DEF Reads, Kinds, Replies
  <2>2. On(p, "retline", << >>, << >>) /\ q = Scan(p, "plus")
    BY <1>5, <2>1 DEF Begins
  <2>3. On(q, "reply", << >>, << >>) /\ Called1(p, q)
    BY <2>2, OnMark DEF Arc, Marks
  <2> QED
    BY <1>5, <2>3 DEF Next1, Partway, InName, Called1
<1>6. \/ o = 0 \/ (o = 1 /\ l \notin Commands)
      \/ (o = 2 /\ l \in {"ok", "error"}) \/ (o = 2 /\ l \in Replies)
  BY DEF Begins, Kinds, Replies, Commands
<1> QED
  BY <1>1, <1>2, <1>3, <1>4, <1>5, <1>6

LEMMA FinalGoesOn ==
  ASSUME NEW p \in Parsers, NEW l \in {"ok", "error"}, NEW o, InFinal(p, l, o),
         NEW q, q = Scan(p, Text[l][o + 1])
  PROVE  Next1(p, q, l, o)
<1>1. PICK v \in Letters, w \in Letters : v = Text[l][3] /\ w = Text[l][4]
  BY TextOf DEF Reads, Letters
<1>2. Text[l][5] = "CR" /\ Len(Text[l]) = 6
  BY TextOf DEF Reads
<1>3. CASE o = 3
  <2>1. On(p, "retline", <<v>>, << >>) /\ q = Scan(p, w)
    BY <1>1, <1>3 DEF InFinal
  <2>2. On(q, "retline", <<v, w>>, << >>) /\ Called1(p, q)
    <3>0. Append(<<v>>, w) = <<v, w>> /\ <<v>> # << >>
      BY Appends
    <3>1. PICK run, longer : /\ run = <<v>> /\ run # << >> /\ longer = <<v, w>>
                              /\ longer = Append(run, w)
      BY <3>0
    <3>2. On(p, "retline", run, << >>) /\ "retline" # "error" /\ (w \in Letters \/ w = "space")
      BY <2>1, <3>1 DEF Letters
    <3>3. On(q, "retline", Append(run, w), << >>) /\ Called1(p, q)
      BY <2>1, <3>1, <3>2, OnLetter
    <3> QED
      BY <3>1, <3>3
  <2> QED
    BY <1>1, <1>3, <2>2 DEF Next1, Partway, InFinal, Called1
<1>4. CASE o = 4
  <2>1. On(p, "retline", <<v, w>>, << >>) /\ q = Scan(p, "CR")
    BY <1>1, <1>2, <1>4 DEF InFinal
  <2>2. PICK run, type : /\ run = <<v, w>> /\ run # << >> /\ type = Word(run).is
                         /\ type = Gives[l].type /\ type \in {"OK", "ERROR"}
    <3>1. CASE l = "ok"
      <4>1. v = "O" /\ w = "K"
        BY <1>1, <3>1, TextOf DEF Reads
      <4> QED
        BY <3>1, <4>1, WordsOfLines, GivesOf
    <3>2. CASE l = "error"
      <4>1. v = "E" /\ w = "R"
        BY <1>1, <3>2, TextOf DEF Reads
      <4> QED
        BY <3>2, <4>1, WordsOfLines, GivesOf
    <3> QED
      BY <3>1, <3>2
  <2>3. On(q, "endcr", << >>, << >>) /\ Calling(q, type, NoName) /\ Same(p, q)
    <3>1. PICK s, u, ch, x : /\ s = "retline" /\ u = "end" /\ ch = "CR" /\ x = "endcr" /\ ch \in Marks
                             /\ Arc(s, Word(run).is, u) /\ Arc(u, ch, x)
      BY <2>2 DEF Arc, Marks
    <3>2. On(p, s, run, << >>) /\ q = Scan(p, ch)
      BY <2>1, <2>2, <3>1
    <3> QED
      BY <2>2, <3>1, <3>2, OnNameMark
  <2>4. Gives[l].args = << >> /\ Gives[l].name = NoName
    BY GivesOf
  <2> QED
    BY <1>2, <1>4, <2>2, <2>3, <2>4 DEF Next1, Partway, Ends
<1> QED
  BY <1>3, <1>4 DEF InFinal

LEMMA NameGoesOn ==
  ASSUME NEW p \in Parsers, NEW l \in Replies, NEW o, InName(p, l, o),
         NEW q, q = Scan(p, Text[l][o + 1])
  PROVE  Next1(p, q, l, o)
<1>1. PICK w \in Letters : w = Text[l][4]
  BY TextOf DEF Reads, Letters, Replies, Kinds
<1>2. CASE o = 3
  <2>1. On(p, "reply", << >>, << >>) /\ q = Scan(p, w)
    BY <1>1, <1>2 DEF InName
  <2>2. On(q, "reply", <<w>>, << >>) /\ Called1(p, q)
    BY <2>1, OnLetter, Appends
  <2> QED
    BY <1>1, <1>2, <2>2 DEF Next1, Partway, InName, Called1
<1>3. ASSUME NEW run, run # << >>, Word(run).is = "TXT", run = Gives[l].name,
             On(p, "reply", run, << >>), q = Scan(p, "colon")
      PROVE  On(q, "arglist", << >>, << >>) /\ Calling(q, "RESPONSE", Gives[l].name) /\ Same(p, q)
  <2>1. PICK s, u, ch, x, type : /\ s = "reply" /\ u = "name" /\ ch = "colon" /\ x = "arglist" /\ ch \in Marks
                                 /\ Arc(s, Word(run).is, u) /\ Arc(u, ch, x) /\ type = "RESPONSE"
    BY <1>3 DEF Arc, Marks
  <2>2. On(p, s, run, << >>) /\ q = Scan(p, ch)
    BY <1>3, <2>1
  <2>3. On(q, x, << >>, << >>) /\ Calling(q, type, run) /\ Same(p, q)
    BY <1>3, <2>1, <2>2, OnNameMark
  <2> QED
    BY <1>3, <2>1, <2>3
<1>4. CASE o = 4 /\ l # "cme"
  <2>1. Text[l][5] = "colon"
    BY <1>4, TextOf DEF Reads, Replies, Kinds
  <2>2. PICK run : run = <<w>> /\ run # << >> /\ Word(run).is = "TXT" /\ run = Gives[l].name
    <3>1. <<w>> # << >> /\ Word(<<w>>).is = "TXT"
      BY WordsOfLines
    <3>2. CASE l \in {"response", "quoted", "dash"}
      <4>1. w = "a"
        BY <1>1, <3>2, TextOf DEF Reads
      <4> QED
        BY <3>1, <3>2, <4>1, GivesOf
    <3>3. CASE l \in {"nw3", "nw5"}
      <4>1. w = "N"
        BY <1>1, <3>3, TextOf DEF Reads
      <4> QED
        BY <3>1, <3>3, <4>1, GivesOf
    <3>4. CASE l = "inactive"
      <4>1. w = "C"
        BY <1>1, <3>4, TextOf DEF Reads
      <4> QED
        BY <3>1, <3>4, <4>1, GivesOf
    <3> QED
      BY <1>4, <3>2, <3>3, <3>4 DEF Replies, Kinds
  <2>3. On(p, "reply", run, << >>) /\ q = Scan(p, "colon")
    BY <1>1, <1>4, <2>1, <2>2 DEF InName
  <2>4. On(q, "arglist", << >>, << >>) /\ Calling(q, "RESPONSE", Gives[l].name) /\ Same(p, q)
    BY <1>3, <2>2, <2>3
  <2> QED
    BY <1>4, <2>4 DEF Next1, Partway, InArgs, InNumbers, InQuoted, InDash, Replies, Kinds
<1>5. CASE l = "cme" /\ o \in 4..7
  <2>0. /\ Text[l][4] = "a" /\ Text[l][5] = "space" /\ Text[l][6] = "E"
        /\ Text[l][7] = "R" /\ Text[l][8] = "colon"
    BY <1>5, TextOf DEF Reads
  <2>1. CASE o = 4
    <3>1. On(p, "reply", <<"a">>, << >>) /\ q = Scan(p, "space")
      BY <2>0, <2>1 DEF InName
    <3>2. On(q, "reply", <<"a", "space">>, << >>) /\ Called1(p, q)
      <4>0. Append(<<"a">>, "space") = <<"a", "space">> /\ <<"a">> # << >>
        BY Appends
      <4>1. PICK run, longer : /\ run = <<"a">> /\ run # << >> /\ longer = <<"a", "space">>
                                /\ longer = Append(run, "space")
        BY <4>0
      <4>2. On(p, "reply", run, << >>) /\ "reply" # "error" /\ ("space" \in Letters \/ "space" = "space")
        BY <3>1, <4>1 DEF Letters
      <4>3. On(q, "reply", Append(run, "space"), << >>) /\ Called1(p, q)
        BY <3>1, <4>1, <4>2, OnLetter
      <4> QED
        BY <4>1, <4>3
    <3> QED
      BY <1>5, <2>1, <3>2 DEF Next1, Partway, InName, Called1
  <2>2. CASE o = 5
    <3>1. On(p, "reply", <<"a", "space">>, << >>) /\ q = Scan(p, "E")
      BY <2>0, <2>2 DEF InName
    <3>2. On(q, "reply", <<"a", "space", "E">>, << >>) /\ Called1(p, q)
      <4>0. Append(<<"a", "space">>, "E") = <<"a", "space", "E">> /\ <<"a", "space">> # << >>
        BY Appends
      <4>1. PICK run, longer : /\ run = <<"a", "space">> /\ run # << >> /\ longer = <<"a", "space", "E">>
                                /\ longer = Append(run, "E")
        BY <4>0
      <4>2. On(p, "reply", run, << >>) /\ "reply" # "error" /\ ("E" \in Letters \/ "E" = "space")
        BY <3>1, <4>1 DEF Letters
      <4>3. On(q, "reply", Append(run, "E"), << >>) /\ Called1(p, q)
        BY <3>1, <4>1, <4>2, OnLetter
      <4> QED
        BY <4>1, <4>3
    <3> QED
      BY <1>5, <2>2, <3>2 DEF Next1, Partway, InName, Called1
  <2>3. CASE o = 6
    <3>1. On(p, "reply", <<"a", "space", "E">>, << >>) /\ q = Scan(p, "R")
      BY <2>0, <2>3 DEF InName
    <3>2. On(q, "reply", <<"a", "space", "E", "R">>, << >>) /\ Called1(p, q)
      <4>0. Append(<<"a", "space", "E">>, "R") = <<"a", "space", "E", "R">> /\ <<"a", "space", "E">> # << >>
        BY Appends
      <4>1. PICK run, longer : /\ run = <<"a", "space", "E">> /\ run # << >>
                               /\ longer = <<"a", "space", "E", "R">>
                                /\ longer = Append(run, "R")
        BY <4>0
      <4>2. On(p, "reply", run, << >>) /\ "reply" # "error" /\ ("R" \in Letters \/ "R" = "space")
        BY <3>1, <4>1 DEF Letters
      <4>3. On(q, "reply", Append(run, "R"), << >>) /\ Called1(p, q)
        BY <3>1, <4>1, <4>2, OnLetter
      <4> QED
        BY <4>1, <4>3
    <3> QED
      BY <1>5, <2>3, <3>2 DEF Next1, Partway, InName, Called1
  <2>4. CASE o = 7
    <3>1. On(p, "reply", <<"a", "space", "E", "R">>, << >>) /\ q = Scan(p, "colon")
      BY <2>0, <2>4 DEF InName
    <3>2. PICK run : /\ run = <<"a", "space", "E", "R">> /\ run # << >>
                     /\ Word(run).is = "TXT" /\ run = Gives[l].name
      BY <1>5, GivesOf, WordsOfLines
    <3>3. On(q, "arglist", << >>, << >>) /\ Calling(q, "RESPONSE", Gives[l].name) /\ Same(p, q)
      BY <1>3, <3>1, <3>2
    <3> QED
      BY <1>5, <2>4, <3>3 DEF Next1, Partway, InArgs, InNumbers
  <2> QED
    BY <1>5, <2>1, <2>2, <2>3, <2>4
<1> QED
  BY <1>2, <1>4, <1>5 DEF InName

\* An argument that a mark ends.
LEMMA ArgMark ==
  ASSUME NEW p \in Parsers, NEW state \in {"eq", "arglist"}, NEW w \in Letters, NEW as,
         On(p, state, <<w>>, as), NEW ch \in {"CR", "comma"}, NEW q, q = Scan(p, ch)
  PROVE  /\ ch = "CR" => On(q, "endcr", << >>, Append(as, <<w>>))
         /\ ch = "comma" => On(q, "arglist", << >>, Append(as, <<w>>))
         /\ Called1(p, q)
<1>1. PICK run : run = <<w>> /\ run # << >> /\ Word(run).is = "TXT"
  BY WordsOfLines
<1>2. ch \in Marks
  BY DEF Marks
<1>3. PICK x : Arc("arg", ch, x) /\ (ch = "CR" => x = "endcr") /\ (ch = "comma" => x = "arglist")
  <2>1. CASE ch = "CR"
    BY <2>1 DEF Arc
  <2>2. CASE ch = "comma"
    BY <2>2 DEF Arc
  <2> QED
    BY <2>1, <2>2
<1>4. On(p, state, run, as)
  BY <1>1
<1>5. On(q, x, << >>, Append(as, run)) /\ Called1(p, q)
  BY <1>1, <1>2, <1>3, <1>4, OnArgMark
<1> QED
  BY <1>1, <1>3, <1>5

LEMMA NumbersGoOn ==
  ASSUME NEW p \in Parsers, NEW l, NEW first,
         \/ l \in {"response", "nw3", "nw5"} /\ first = 6
         \/ l = "inactive" /\ first = 5
         \/ l = "cme" /\ first = 8,
         NEW o, InNumbers(p, l, first, o), Calling(p, "RESPONSE", Gives[l].name),
         NEW q, q = Scan(p, Text[l][o + 1])
  PROVE  Next1(p, q, l, o)
<1>1. l \in Replies /\ l # "dash" /\ Gives[l].type = "RESPONSE"
  BY GivesOf DEF Replies, Kinds
<1>2. PICK w \in Letters : w = Text[l][first + 1]
  BY TextOf DEF Reads, Letters
<1>3. ASSUME Called1(p, q) PROVE Calling(q, "RESPONSE", Gives[l].name) /\ Same(p, q)
  BY <1>3 DEF Calling, Called1
<1>4. ASSUME InNumbers(q, l, first, o + 1), Called1(p, q) PROVE Next1(p, q, l, o)
  BY <1>1, <1>3, <1>4 DEF Next1, Partway, InArgs
<1>5. ASSUME o + 1 = Len(Text[l]) - 1, On(q, "endcr", << >>, Gives[l].args), Called1(p, q)
      PROVE  Next1(p, q, l, o)
  BY <1>1, <1>3, <1>5 DEF Next1, Partway, Ends
<1>6. CASE o = 5 /\ first = 6
  <2>1. Text[l][6] = "space"
    BY <1>6, TextOf DEF Reads
  <2>2. On(p, "arglist", << >>, << >>) /\ q = Scan(p, "space")
    BY <1>6, <2>1 DEF InNumbers
  <2>3. On(q, "arglist", << >>, << >>) /\ Called1(p, q)
    BY <2>2, OnSpace
  <2> QED
    BY <1>4, <1>6, <2>3 DEF InNumbers
<1>7. CASE o = first
  <2>1. On(p, "arglist", << >>, << >>) /\ q = Scan(p, w)
    BY <1>2, <1>7 DEF InNumbers
  <2>2. On(q, "arglist", <<w>>, << >>) /\ Called1(p, q)
    BY <2>1, OnLetter, Appends
  <2> QED
    BY <1>2, <1>4, <1>7, <2>2 DEF InNumbers
<1>8. CASE o = first + 1
  <2>1. On(p, "arglist", <<w>>, << >>)
    BY <1>2, <1>8 DEF InNumbers
  <2>2. Append(<< >>, <<w>>) = << <<w>> >>
    BY Appends
  <2>3. CASE l \in {"response", "inactive"}
    <3>1. w = "1" /\ Text[l][first + 2] = "comma"
      BY <1>2, <2>3, TextOf DEF Reads
    <3>2. q = Scan(p, "comma")
      BY <1>8, <3>1
    <3>3. On(q, "arglist", << >>, Append(<< >>, <<w>>)) /\ Called1(p, q)
      BY <2>1, <3>2, ArgMark
    <3> QED
      BY <1>4, <1>8, <2>2, <2>3, <3>1, <3>3 DEF InNumbers
  <2>4. CASE l \notin {"response", "inactive"}
    <3>1. Text[l][first + 2] = "CR" /\ Len(Text[l]) = first + 3 /\ Gives[l].args = << <<w>> >>
      <4>1. CASE l = "nw3"
        BY <1>2, <4>1, TextOf, GivesOf DEF Reads
      <4>2. CASE l = "nw5"
        BY <1>2, <4>2, TextOf, GivesOf DEF Reads
      <4>3. CASE l = "cme"
        BY <1>2, <4>3, TextOf, GivesOf DEF Reads
      <4> QED
        BY <2>4, <4>1, <4>2, <4>3
    <3>2. q = Scan(p, "CR")
      BY <1>8, <3>1
    <3>3. On(q, "endcr", << >>, Append(<< >>, <<w>>)) /\ Called1(p, q)
      BY <2>1, <3>2, ArgMark
    <3> QED
      BY <1>5, <1>8, <2>2, <3>1, <3>3
  <2> QED
    BY <2>3, <2>4
<1>9. CASE l \in {"response", "inactive"} /\ o = first + 2
  <2>1. Text[l][first + 3] = "0"
    BY <1>9, TextOf DEF Reads
  <2>2. PICK ch \in Letters : ch = "0"
    BY DEF Letters
  <2>3. PICK as : as = << <<"1">> >>
    OBVIOUS
  <2>4. On(p, "arglist", << >>, as) /\ q = Scan(p, ch)
    BY <1>9, <2>1, <2>2, <2>3 DEF InNumbers
  <2>5. On(q, "arglist", <<ch>>, as) /\ Called1(p, q)
    BY <2>4, OnLetter, Appends
  <2> QED
    BY <1>4, <1>9, <2>2, <2>3, <2>5 DEF InNumbers
<1>10. CASE l \in {"response", "inactive"} /\ o = first + 3
  <2>1. Text[l][first + 4] = "CR" /\ Len(Text[l]) = first + 5
    <3>1. CASE l = "response"
      BY <3>1, TextOf DEF Reads
    <3>2. CASE l = "inactive"
      BY <3>2, TextOf DEF Reads
    <3> QED
      BY <1>10, <3>1, <3>2
  <2>2. On(p, "arglist", <<"0">>, << <<"1">> >>) /\ q = Scan(p, "CR")
    BY <1>10, <2>1 DEF InNumbers
  <2>3. Append(<< <<"1">> >>, <<"0">>) = Gives[l].args
    BY <1>10, Appends, GivesOf
  <2>4. On(q, "endcr", << >>, Append(<< <<"1">> >>, <<"0">>)) /\ Called1(p, q)
    BY <2>2, ArgMark DEF Letters
  <2>5. o + 1 = Len(Text[l]) - 1
    <3>1. first \in Nat
      OBVIOUS
    <3> QED
      BY <1>10, <2>1, <3>1
  <2>6. On(q, "endcr", << >>, Gives[l].args)
    BY <2>3, <2>4
  <2> QED
    BY <1>5, <2>4, <2>5, <2>6
<1> QED
  BY <1>6, <1>7, <1>8, <1>9, <1>10 DEF InNumbers

LEMMA QuotedGoesOn ==
  ASSUME NEW p \in Parsers, NEW o, InQuoted(p, o), Calling(p, "RESPONSE", Gives["quoted"].name),
         NEW q, q = Scan(p, Text["quoted"][o + 1])
  PROVE  Next1(p, q, "quoted", o)
<1> DEFINE t == Text["quoted"]
<1>1. /\ Len(t) = 14 /\ t[6] = "space" /\ t[7] = Quote /\ t[8] = "a" /\ t[9] = Quote
      /\ t[10] = "comma" /\ t[11] = Quote /\ t[12] = Quote /\ t[13] = "CR"
  BY TextOf DEF Reads
<1>2. "quoted" \in Replies /\ Gives["quoted"].type = "RESPONSE"
  BY GivesOf DEF Replies, Kinds
<1>3. ASSUME InQuoted(q, o + 1), Called1(p, q) PROVE Next1(p, q, "quoted", o)
  BY <1>2, <1>3 DEF Next1, Partway, InArgs, Calling, Called1
<1>4. CASE o = 5
  <2>1. On(p, "arglist", << >>, << >>) /\ q = Scan(p, "space")
    BY <1>1, <1>4 DEF InQuoted
  <2>2. On(q, "arglist", << >>, << >>) /\ Called1(p, q)
    BY <2>1, OnSpace
  <2> QED
    BY <1>3, <1>4, <2>2 DEF InQuoted
<1>5. CASE o = 6
  <2>1. On(p, "arglist", << >>, << >>) /\ q = Scan(p, Quote)
    BY <1>1, <1>5 DEF InQuoted
  <2>2. In(q, "arglist", << >>, << >>) /\ Called1(p, q)
    BY <2>1, OnQuote
  <2> QED
    BY <1>3, <1>5, <2>2 DEF InQuoted
<1>6. CASE o = 7
  <2>1. In(p, "arglist", << >>, << >>) /\ q = Scan(p, "a")
    BY <1>1, <1>6 DEF InQuoted
  <2>2. In(q, "arglist", <<"a">>, << >>) /\ Called1(p, q)
    BY <2>1, InFirstLetter DEF Letters
  <2> QED
    BY <1>3, <1>6, <2>2 DEF InQuoted
<1>7. CASE o = 8
  <2>1. PICK run : run = <<"a">> /\ run # << >> /\ Append(<< >>, run) = << <<"a">> >>
    BY Appends
  <2>2. In(p, "arglist", run, << >>) /\ q = Scan(p, Quote)
    BY <1>1, <1>7, <2>1 DEF InQuoted
  <2>3. On(q, "arg", << >>, Append(<< >>, run)) /\ Called1(p, q)
    BY <2>1, <2>2, InQuote
  <2> QED
    BY <1>3, <1>7, <2>1, <2>3 DEF InQuoted
<1>8. CASE o = 9
  <2>1. On(p, "arg", << >>, << <<"a">> >>) /\ q = Scan(p, "comma")
    BY <1>1, <1>8 DEF InQuoted
  <2>2. On(q, "arglist", << >>, << <<"a">> >>) /\ Called1(p, q)
    BY <2>1, OnMark DEF Arc, Marks
  <2> QED
    BY <1>3, <1>8, <2>2 DEF InQuoted
<1>9. CASE o = 10
  <2>1. On(p, "arglist", << >>, << <<"a">> >>) /\ q = Scan(p, Quote)
    BY <1>1, <1>9 DEF InQuoted
  <2>2. In(q, "arglist", << >>, << <<"a">> >>) /\ ~q.flexmark /\ Called1(p, q)
    BY <2>1, OnQuote
  <2> QED
    BY <1>3, <1>9, <2>2 DEF InQuoted
<1>10. CASE o = 11
  <2>1. PICK run : run = << >> /\ run = NULL
    BY Zenon DEF NULL
  <2>2. In(p, "arglist", run, << <<"a">> >>) /\ ~p.flexmark /\ q = Scan(p, Quote)
    BY <1>1, <1>10, <2>1 DEF InQuoted
  <2>3. On(q, "arg", << >>, Append(<< <<"a">> >>, run)) /\ Called1(p, q)
    BY <2>2, InQuote
  <2>4. Append(<< <<"a">> >>, run) = << <<"a">>, NULL >>
    BY <2>1, Appends
  <2>5. On(q, "arg", << >>, << <<"a">>, NULL >>)
    BY <2>3, <2>4, Zenon
  <2>6. InQuoted(q, o + 1)
    <3>1. o + 1 = 12
      BY <1>10
    <3> QED
      BY <2>5, <3>1, Zenon DEF InQuoted
  <2> QED
    BY <1>3, <2>3, <2>6
<1>11. CASE o = 12
  <2>1. On(p, "arg", << >>, << <<"a">>, NULL >>) /\ q = Scan(p, "CR")
    BY <1>1, <1>11 DEF InQuoted
  <2>2. On(q, "endcr", << >>, << <<"a">>, NULL >>) /\ Called1(p, q)
    BY <2>1, OnMark DEF Arc, Marks
  <2>3. Gives["quoted"].args = << <<"a">>, NULL >> /\ o + 1 = Len(Text["quoted"]) - 1
    BY <1>1, <1>11, GivesOf
  <2>4. Calling(q, "RESPONSE", Gives["quoted"].name) /\ Same(p, q)
    BY <2>2 DEF Calling, Called1
  <2>5. Ends(q, "quoted", o + 1)
    BY <1>2, <2>2, <2>3, <2>4 DEF Ends
  <2> QED
    <3>1. PICK l : l = "quoted" /\ Ends(q, l, o + 1)
      BY <2>5
    <3>2. Next1(p, q, l, o)
      BY <2>4, <3>1, NextWhen
    <3> QED
      BY <3>1, <3>2
<1> QED
  BY <1>4, <1>5, <1>6, <1>7, <1>8, <1>9, <1>10, <1>11 DEF InQuoted

\* The quotation of a "dash" line: up to the second word in it ...
LEMMA DashGoesOn ==
  ASSUME NEW p \in Parsers, NEW o, InDash(p, o), Calling(p, "RESPONSE", Gives["dash"].name), o # 9,
         NEW q, q = Scan(p, Text["dash"][o + 1])
  PROVE  Next1(p, q, "dash", o)
<1> DEFINE t == Text["dash"]
<1>1. Len(t) = 12 /\ t[6] = Quote /\ t[7] = "a" /\ t[8] = "hyphen" /\ t[9] = "a"
  BY TextOf DEF Reads
<1>2. ASSUME InDash(q, o + 1), Called1(p, q) PROVE Next1(p, q, "dash", o)
  <2>1. "dash" \in Replies
    BY DEF Replies, Kinds
  <2> QED
    BY <1>2, <2>1 DEF Next1, Partway, InArgs, Calling, Called1
<1>3. CASE o = 5
  <2>1. On(p, "arglist", << >>, << >>) /\ q = Scan(p, Quote)
    BY <1>1, <1>3 DEF InDash
  <2>2. In(q, "arglist", << >>, << >>) /\ Called1(p, q)
    BY <2>1, OnQuote
  <2> QED
    BY <1>2, <1>3, <2>2 DEF InDash
<1>4. CASE o = 6
  <2>1. In(p, "arglist", << >>, << >>) /\ q = Scan(p, "a")
    BY <1>1, <1>4 DEF InDash
  <2>2. In(q, "arglist", <<"a">>, << >>) /\ Called1(p, q)
    BY <2>1, InFirstLetter DEF Letters
  <2> QED
    BY <1>2, <1>4, <2>2 DEF InDash
<1>5. CASE o = 7
  <2>1. PICK run : run = <<"a">> /\ run # << >> /\ Append(<< >>, run) = << <<"a">> >>
    BY Appends
  <2>2. In(p, "arglist", run, << >>) /\ q = Scan(p, "hyphen")
    BY <1>1, <1>5, <2>1 DEF InDash
  <2>3. In(q, "arg", << >>, Append(<< >>, run)) /\ Called1(p, q)
    BY <2>1, <2>2, InHyphen
  <2> QED
    BY <1>2, <1>5, <2>1, <2>3 DEF InDash
<1>6. CASE o = 8
  <2>1. In(p, "arg", << >>, << <<"a">> >>) /\ q = Scan(p, "a")
    BY <1>1, <1>6 DEF InDash
  <2>2. In(q, "arg", <<"a">>, << <<"a">> >>) /\ Called1(p, q)
    BY <2>1, InFirstLetter DEF Letters
  <2> QED
    BY <1>2, <1>6, <2>2 DEF InDash
<1> QED
  BY <1>3, <1>4, <1>5, <1>6 DEF InDash

\* ... which is one argument too many.
LEMMA DashFails ==
  ASSUME NEW p \in Parsers, In(p, "arg", <<"a">>, << <<"a">> >>), NEW q, q = Scan(p, Quote)
  PROVE  q.state = "error" /\ q.got = p.got /\ q.args = << <<"a">> >>
<1>1. p.state = "arg" /\ p.run = <<"a">> /\ p.args = << <<"a">> >> /\ p.start = "ESC"
  BY DEF In
<1>2. ~InRun(p, Quote) /\ p.state # "error" /\ p.run # << >>
  BY <1>1 DEF InRun, Letters, Quote
<1>3. PICK r : r = Further(p)
  OBVIOUS
<1>4. /\ r \in Parsers /\ r.start = "ESC" /\ r.state = "arg" /\ r.run = p.run
      /\ r.args = p.args /\ r.got = p.got
  BY <1>1, <1>3, FurtherFields
<1>5. PICK e, token : e = [r EXCEPT !.run = << >>, !.flexmark = TRUE] /\ token = Token("TXTARG", p.run)
  OBVIOUS
<1>6. EndRun(r) = Parse(e, token)
  BY <1>2, <1>4, <1>5, RunEnds
<1>7. e.state = "arg" /\ e.args = p.args /\ e.got = p.got
  BY <1>4, <1>5 DEF Parsers
<1>8. Parse(e, token) = [e EXCEPT !.state = "error"]
  <2>1. token.is = "TXTARG"
    BY <1>5, TokenFields
  <2>2. \A u : ~Arc(e.state, token.is, u)
    BY <1>7, <2>1 DEF Arc
  <2> QED
    BY <2>2, Fails
<1>9. PICK f : f = [e EXCEPT !.state = "error"]
  OBVIOUS
<1>10. f.state = "error" /\ f.args = p.args /\ f.got = p.got
  <2>1. e \in Parsers
    BY <1>4, <1>5, NoText DEF Parsers
  <2> QED
    BY <1>7, <1>9, <2>1 DEF Parsers
<1>11. q = Char(f, Quote)
  BY <1>2, <1>3, <1>6, <1>8, <1>9, ScanIs
<1>12. q = f
  BY <1>10, <1>11 DEF Char
<1> QED
  BY <1>1, <1>10, <1>12

LEMMA EchoGoesOn ==
  ASSUME NEW p \in Parsers, NEW o, InEcho(p, o), NEW q, q = Scan(p, Text["echo"][o + 1])
  PROVE  Next1(p, q, "echo", o)
<1> DEFINE t == Text["echo"]
<1>1. /\ Len(t) = 10 /\ t[2] = "T" /\ t[3] = "plus" /\ t[4] = "a" /\ t[5] = "equals"
      /\ t[6] = Quote /\ t[7] = "a" /\ t[8] = Quote /\ t[9] = "CR"
  BY TextOf DEF Reads
<1>2. ASSUME InEcho(q, o + 1), Same(p, q) PROVE Next1(p, q, "echo", o)
  <2>1. PICK l : l = "echo"
    OBVIOUS
  <2>2. Next1(p, q, l, o)
    BY <1>2, <2>1, NextWhen
  <2> QED
    BY <2>1, <2>2
<1>3. CASE o = 1
  <2>1. On(p, "line", <<"A">>, << >>) /\ q = Scan(p, "T")
    BY <1>1, <1>3 DEF InEcho
  <2>2. PICK run, ch : /\ run = <<"A">> /\ run # << >> /\ ch = "T" /\ ch \in Letters
                       /\ Append(run, ch) = <<"A", "T">>
    BY Appends DEF Letters
  <2>3. On(p, "line", run, << >>) /\ q = Scan(p, ch)
    BY <2>1, <2>2
  <2>4. On(q, "line", Append(run, ch), << >>) /\ Called1(p, q)
    BY <2>2, <2>3, OnLetter
  <2>5. On(q, "line", <<"A", "T">>, << >>)
    BY <2>2, <2>4, Zenon
  <2>6. InEcho(q, o + 1)
    BY <1>3, <2>5 DEF InEcho
  <2> QED
    BY <1>2, <2>4, <2>6 DEF Called1
<1>4. CASE o = 2
  <2>1. On(p, "line", <<"A", "T">>, << >>) /\ q = Scan(p, "plus")
    BY <1>1, <1>4 DEF InEcho
  <2>2. PICK run, s, u, ch, x, type : /\ run = <<"A", "T">> /\ run # << >>
                                      /\ Word(run).is = "AT" /\ s = "line"
                                      /\ u = "at" /\ ch = "plus" /\ x = "sep"
                                      /\ type = "COMMAND" /\ ch \in Marks
                                      /\ Arc(s, Word(run).is, u) /\ Arc(u, ch, x)
    BY WordsOfLines DEF Arc, Marks
  <2>3. On(p, s, run, << >>) /\ q = Scan(p, ch) /\ Word(run).is \in {"AT", "ATCMD"}
    BY <2>1, <2>2
  <2>4. On(q, x, << >>, << >>) /\ Calling(q, type, run) /\ Same(p, q)
    BY <2>2, <2>3, OnNameMark
  <2> QED
    BY <1>2, <1>4, <2>2, <2>4 DEF InEcho
<1>5. CASE o = 3
  <2>1. On(p, "sep", << >>, << >>) /\ q = Scan(p, "a")
    BY <1>1, <1>5 DEF InEcho
  <2>2. On(q, "sep", <<"a">>, << >>) /\ Called1(p, q)
    BY <2>1, OnLetter, Appends DEF Letters
  <2> QED
    BY <1>2, <1>5, <2>2 DEF InEcho, Called1
<1>6. CASE o = 4
  <2>1. On(p, "sep", <<"a">>, << >>) /\ q = Scan(p, "equals")
    BY <1>1, <1>6 DEF InEcho
  <2>2. PICK run, s, u, ch, x, type : /\ run = <<"a">> /\ run # << >> /\ Word(run).is = "TXT" /\ s = "sep"
                                      /\ u = "cmd" /\ ch = "equals" /\ x = "eq"
                                      /\ type = "COMMAND" /\ ch \in Marks
                                      /\ Arc(s, Word(run).is, u) /\ Arc(u, ch, x)
    <3>1. Word(<<"a">>).is = "TXT"
      BY WordsOfLines DEF Letters
    <3> QED
      BY <3>1 DEF Arc, Marks
  <2>3. On(p, s, run, << >>) /\ q = Scan(p, ch) /\ s \in {"at", "sep"}
    BY <2>1, <2>2
  <2>4. On(q, x, << >>, << >>) /\ Calling(q, type, run) /\ Same(p, q)
    BY <2>2, <2>3, OnNameMark
  <2> QED
    BY <1>2, <1>6, <2>2, <2>4 DEF InEcho
<1>7. CASE o \in 5..8 /\ Calling(p, "COMMAND", <<"a">>)
  <2>0. ASSUME Called1(p, q) PROVE Calling(q, "COMMAND", <<"a">>) /\ Same(p, q)
    BY <1>7, <2>0 DEF Calling, Called1
  <2>1. CASE o = 5
    <3>1. On(p, "eq", << >>, << >>) /\ q = Scan(p, Quote)
      BY <1>1, <2>1 DEF InEcho
    <3>2. In(q, "eq", << >>, << >>) /\ Called1(p, q)
      BY <3>1, OnQuote
    <3> QED
      BY <1>2, <2>0, <2>1, <3>2 DEF InEcho
  <2>2. CASE o = 6
    <3>1. In(p, "eq", << >>, << >>) /\ q = Scan(p, "a")
      BY <1>1, <2>2 DEF InEcho
    <3>2. In(q, "eq", <<"a">>, << >>) /\ Called1(p, q)
      BY <3>1, InFirstLetter DEF Letters
    <3> QED
      BY <1>2, <2>0, <2>2, <3>2 DEF InEcho
  <2>3. CASE o = 7
    <3>1. PICK run : run = <<"a">> /\ run # << >> /\ Append(<< >>, run) = << <<"a">> >>
      BY Appends
    <3>2. In(p, "eq", run, << >>) /\ q = Scan(p, Quote)
      BY <1>1, <2>3, <3>1 DEF InEcho
    <3>3. On(q, "arg", << >>, Append(<< >>, run)) /\ Called1(p, q)
      BY <3>1, <3>2, InQuote
    <3> QED
      BY <1>2, <2>0, <2>3, <3>1, <3>3 DEF InEcho
  <2>4. CASE o = 8
    <3>1. On(p, "arg", << >>, << <<"a">> >>) /\ q = Scan(p, "CR")
      BY <1>1, <2>4 DEF InEcho
    <3>2. On(q, "endcr", << >>, << <<"a">> >>) /\ Called1(p, q)
      BY <3>1, OnMark DEF Arc, Marks
    <3>3. Gives["echo"].args = << <<"a">> >> /\ Gives["echo"].type = "COMMAND" /\ Gives["echo"].name = <<"a">>
      BY GivesOf
    <3>4. Ends(q, "echo", o + 1)
      BY <1>1, <2>0, <2>4, <3>2, <3>3 DEF Ends
    <3> QED
      BY <2>0, <3>2, <3>4, NextWhen
  <2> QED
    BY <1>7, <2>1, <2>2, <2>3, <2>4
<1> QED
  BY <1>3, <1>4, <1>5, <1>6, <1>7 DEF InEcho

LEMMA Ate1GoesOn ==
  ASSUME NEW p \in Parsers, NEW o, InAte1(p, o), NEW q, q = Scan(p, Text["ate1"][o + 1])
  PROVE  Next1(p, q, "ate1", o)
<1> DEFINE t == Text["ate1"]
<1>1. Len(t) = 6 /\ t[2] = "T" /\ t[3] = "E" /\ t[4] = "1" /\ t[5] = "CR"
  BY TextOf DEF Reads
<1>2. ASSUME InAte1(q, o + 1), Same(p, q) PROVE Next1(p, q, "ate1", o)
  BY <1>2, NextWhen
<1>3. ASSUME NEW run, run # << >>, On(p, "line", run, << >>), NEW ch \in Letters, q = Scan(p, ch)
      PROVE  On(q, "line", Append(run, ch), << >>) /\ Same(p, q)
  BY <1>3, OnLetter DEF Called1
<1>4. CASE o = 1
  <2>1. On(p, "line", <<"A">>, << >>) /\ q = Scan(p, "T") /\ "T" \in Letters
    BY <1>1, <1>4 DEF InAte1, Letters
  <2>2. Append(<<"A">>, "T") = <<"A", "T">> /\ <<"A">> # << >>
    BY Appends
  <2>3. On(q, "line", <<"A", "T">>, << >>) /\ Same(p, q)
    BY <1>3, <2>1, <2>2
  <2> QED
    BY <1>2, <1>4, <2>3 DEF InAte1
<1>5. CASE o = 2
  <2>1. On(p, "line", <<"A", "T">>, << >>) /\ q = Scan(p, "E") /\ "E" \in Letters
    BY <1>1, <1>5 DEF InAte1, Letters
  <2>2. Append(<<"A", "T">>, "E") = <<"A", "T", "E">> /\ <<"A", "T">> # << >>
    BY Appends
  <2>3. On(q, "line", <<"A", "T", "E">>, << >>) /\ Same(p, q)
    BY <1>3, <2>1, <2>2
  <2> QED
    BY <1>2, <1>5, <2>3 DEF InAte1
<1>6. CASE o = 3
  <2>1. On(p, "line", <<"A", "T", "E">>, << >>) /\ q = Scan(p, "1") /\ "1" \in Letters
    BY <1>1, <1>6 DEF InAte1, Letters
  <2>2. Append(<<"A", "T", "E">>, "1") = <<"A", "T", "E", "1">> /\ <<"A", "T", "E">> # << >>
    BY Appends
  <2>3. On(q, "line", <<"A", "T", "E", "1">>, << >>) /\ Same(p, q)
    BY <1>3, <2>1, <2>2
  <2> QED
    BY <1>2, <1>6, <2>3 DEF InAte1
<1>7. CASE o = 4
  <2>1. On(p, "line", <<"A", "T", "E", "1">>, << >>) /\ q = Scan(p, "CR")
    BY <1>1, <1>7 DEF InAte1
  <2>2. PICK run, s, u, ch, x, type : /\ run = <<"A", "T", "E", "1">> /\ run # << >> /\ Word(run).is = "ATCMD"
                                      /\ s = "line" /\ u = "at" /\ ch = "CR" /\ x = "endcr"
                                      /\ type = "COMMAND"
                                      /\ ch \in Marks /\ Arc(s, Word(run).is, u) /\ Arc(u, ch, x)
    BY WordsOfLines DEF Arc, Marks
  <2>3. On(p, s, run, << >>) /\ q = Scan(p, ch) /\ Word(run).is \in {"AT", "ATCMD"}
    BY <2>1, <2>2
  <2>4. On(q, x, << >>, << >>) /\ Calling(q, type, run) /\ Same(p, q)
    BY <2>2, <2>3, OnNameMark
  <2>5. Gives["ate1"].args = << >> /\ Gives["ate1"].type = "COMMAND" /\ Gives["ate1"].name = run
    BY <2>2, GivesOf
  <2>6. Ends(q, "ate1", o + 1)
    BY <1>1, <1>7, <2>2, <2>4, <2>5 DEF Ends
  <2> QED
    BY <2>4, <2>6, NextWhen
<1> QED
  BY <1>4, <1>5, <1>6, <1>7 DEF InAte1

\* Put together.
LEMMA PartwayGoesOn ==
  ASSUME NEW p \in Parsers, NEW l \in Kinds, NEW o \in Nat, Partway(p, l, o), o # Len(Text[l]) - 1,
         ~(l = "dash" /\ o = 9), NEW q, q = Scan(p, Text[l][o + 1])
  PROVE  Next1(p, q, l, o)
<1>1. CASE Begins(p, l, o)
  BY <1>1, BeginsGoesOn
<1>2. CASE l \in {"ok", "error"} /\ InFinal(p, l, o)
  BY <1>2, FinalGoesOn
<1>3. CASE l \in Replies /\ InName(p, l, o)
  BY <1>3, NameGoesOn
<1>4. CASE l \in Replies /\ InArgs(p, l, o)
  BY <1>4, NumbersGoOn, QuotedGoesOn, DashGoesOn DEF InArgs
<1>5. CASE l = "echo" /\ InEcho(p, o)
  BY <1>5, EchoGoesOn
<1>6. CASE l = "ate1" /\ InAte1(p, o)
  BY <1>6, Ate1GoesOn
<1>7. ~Ends(p, l, o)
  BY DEF Ends
<1> QED
  BY <1>1, <1>2, <1>3, <1>4, <1>5, <1>6, <1>7, Zenon DEF Partway

\* The line feed at the end of a line calls back what the line gives.
LEMMA PartwayEnds ==
  ASSUME NEW p \in Parsers, NEW l \in Kinds, Partway(p, l, Len(Text[l]) - 1),
         NEW q, q = Scan(p, Text[l][Len(Text[l])])
  PROVE  /\ l # "dash" /\ On(q, "line", << >>, << >>) /\ q.at = p.at + 1
         /\ q.got = Append(p.got, [cb |-> Gives[l], at |-> p.at + 1])
<1>1. PICK n : n = Len(Text[l]) - 1
  OBVIOUS
<1>2. Ends(p, l, n)
  <2>0. /\ l \in {"ok", "error", "ate1"} => n = 5
        /\ l \in {"nw3", "nw5"} => n = 8
        /\ l \in {"inactive", "echo"} => n = 9
        /\ l \in {"response", "cme"} => n = 10
        /\ l = "dash" => n = 11
        /\ l = "quoted" => n = 13
    BY <1>1, Lengths DEF Kinds
  <2>1. ~Begins(p, l, n)
    BY <2>0 DEF Begins, Kinds
  <2>2. ~(l \in {"ok", "error"} /\ InFinal(p, l, n))
    BY <2>0 DEF InFinal
  <2>3. ~(l \in Replies /\ InName(p, l, n))
    BY <2>0 DEF InName, Replies, Kinds
  <2>4. ~(l \in Replies /\ InArgs(p, l, n))
    <3>1. l \in {"response", "nw3", "nw5"} => ~InNumbers(p, l, 6, n)
      BY <2>0 DEF InNumbers
    <3>2. l = "inactive" => ~InNumbers(p, l, 5, n)
      BY <2>0 DEF InNumbers
    <3>3. l = "cme" => ~InNumbers(p, l, 8, n)
      BY <2>0 DEF InNumbers
    <3>4. l = "quoted" => ~InQuoted(p, n)
      BY <2>0 DEF InQuoted
    <3>5. l = "dash" => ~InDash(p, n)
      BY <2>0 DEF InDash
    <3> QED
      BY <3>1, <3>2, <3>3, <3>4, <3>5 DEF InArgs
  <2>5. ~(l = "echo" /\ InEcho(p, n))
    BY <2>0 DEF InEcho
  <2>6. ~(l = "ate1" /\ InAte1(p, n))
    BY <2>0 DEF InAte1
  <2>7. Partway(p, l, n)
    BY <1>1
  <2> QED
    BY <2>1, <2>2, <2>3, <2>4, <2>5, <2>6, <2>7, Zenon DEF Partway
<1>3. /\ l # "dash" /\ On(p, "endcr", << >>, Gives[l].args)
      /\ p.type = Gives[l].type /\ p.name = Gives[l].name
  BY <1>2 DEF Ends, Calling
<1>4. Text[l][Len(Text[l])] = "LF"
  BY LastOfLine
<1>5. PICK as : as = Gives[l].args /\ On(p, "endcr", << >>, as)
  BY <1>3
<1>6. /\ On(q, "line", << >>, << >>) /\ q.at = p.at + 1
      /\ q.got = Append(p.got, [cb |-> Meant(p.type, p.name, as), at |-> p.at + 1])
  BY <1>4, <1>5, OnEnd
<1>7. Meant(p.type, p.name, as) = Gives[l]
  BY <1>3, <1>5, GivesOf
<1> QED
  BY <1>3, <1>6, <1>7

-----------------------------------------------------------------------------
(* The scanner once it has lost the line: no callback until the transfer   *)
(* ends.                                                                   *)

\* The characters of a line.
LEMMA FirstOfLine == \A l \in Kinds : Text[l][1] \in {"CR", "A"}
BY TextOf DEF Reads, Kinds

MidLineChar(l, i) ==
  /\ Text[l][i] # "A"
  /\ Text[l][i] = "CR" => i + 1 = Len(Text[l])
  /\ Text[l][i] = "hyphen" => l = "dash"
  /\ Text[l][i] # "LF" => i < Len(Text[l])

LEMMA MidLine == \A l \in Kinds : \A i \in 2..Len(Text[l]) : MidLineChar(l, i)
<1>1. \A i \in 2..Len(Text["ok"]) : MidLineChar("ok", i)
  BY TextOf DEF Reads, MidLineChar
<1>2. \A i \in 2..Len(Text["error"]) : MidLineChar("error", i)
  BY TextOf DEF Reads, MidLineChar
<1>3. \A i \in 2..Len(Text["response"]) : MidLineChar("response", i)
  BY TextOf DEF Reads, MidLineChar
<1>4. \A i \in 2..Len(Text["quoted"]) : MidLineChar("quoted", i)
  BY TextOf DEF Reads, MidLineChar, Quote
<1>5. \A i \in 2..Len(Text["dash"]) : MidLineChar("dash", i)
  BY TextOf DEF Reads, MidLineChar, Quote
<1>6. \A i \in 2..Len(Text["cme"]) : MidLineChar("cme", i)
  BY TextOf DEF Reads, MidLineChar
<1>7. \A i \in 2..Len(Text["nw3"]) : MidLineChar("nw3", i)
  BY TextOf DEF Reads, MidLineChar
<1>8. \A i \in 2..Len(Text["nw5"]) : MidLineChar("nw5", i)
  BY TextOf DEF Reads, MidLineChar
<1>9. \A i \in 2..Len(Text["inactive"]) : MidLineChar("inactive", i)
  BY TextOf DEF Reads, MidLineChar
<1>10. \A i \in 2..Len(Text["echo"]) : MidLineChar("echo", i)
  BY TextOf DEF Reads, MidLineChar, Quote
<1>11. \A i \in 2..Len(Text["ate1"]) : MidLineChar("ate1", i)
  BY TextOf DEF Reads, MidLineChar
<1> QED
  BY <1>1, <1>2, <1>3, <1>4, <1>5, <1>6, <1>7, <1>8, <1>9, <1>10, <1>11 DEF Kinds

\* What begins no line, and what follows no line feed.
LEMMA NoArcs ==
  /\ \A u : \A t \in {"OK", "ERROR", "TXT", "TXTARG"} \cup (Marks \ {"CR"}) : ~Arc("line", t, u)
  /\ \A u : \A t \in {"AT", "ATCMD", "TXT", "CR"} : ~Arc("retline", t, u)
BY DEF Arc, Marks

Stuck(p, q) == q.state = "error" /\ q.start = p.start /\ q.args = p.args /\ q.got = p.got

LEMMA RunSticks ==
  ASSUME NEW p \in Parsers, p.run # << >>, p.state # "error",
         p.start = "INITIAL" => \A u : ~Arc(p.state, Word(p.run).is, u),
         p.start = "ESC" => \A u : ~Arc(p.state, "TXTARG", u)
  PROVE  Stuck(p, EndRun(p))
<1>1. PICK e, token : EndRun(p) = Parse(e, token) /\ e \in Parsers /\ e.state = p.state
                      /\ e.start = p.start /\ e.args = p.args /\ e.got = p.got
                      /\ \A u : ~Arc(e.state, token.is, u)
  <2>1. CASE p.start = "INITIAL"
    <3>1. PICK e, token : e = [p EXCEPT !.run = << >>] /\ token = Word(p.run)
      OBVIOUS
    <3>2. e \in Parsers /\ e.state = p.state /\ e.start = p.start /\ e.args = p.args /\ e.got = p.got
      BY <3>1, NoText DEF Parsers
    <3>3. EndRun(p) = Parse(e, token)
      BY <2>1, <3>1, RunEnds
    <3> QED
      BY <2>1, <3>1, <3>2, <3>3
  <2>2. CASE p.start = "ESC"
    <3>1. PICK e, token : /\ e = [p EXCEPT !.run = << >>, !.flexmark = TRUE]
                          /\ token = Token("TXTARG", p.run)
      OBVIOUS
    <3>2. e \in Parsers /\ e.state = p.state /\ e.start = p.start /\ e.args = p.args /\ e.got = p.got
      BY <3>1, NoText DEF Parsers
    <3>3. EndRun(p) = Parse(e, token)
      BY <2>2, <3>1, RunEnds
    <3>4. token.is = "TXTARG"
      BY <3>1, TokenFields
    <3> QED
      BY <2>2, <3>2, <3>3, <3>4
  <2> QED
    BY <2>1, <2>2 DEF Parsers
<1>2. EndRun(p) = [e EXCEPT !.state = "error"]
  BY <1>1, Fails
<1> QED
  BY <1>1, <1>2 DEF Stuck, Parsers

LEMMA ScanSticks ==
  ASSUME NEW p \in Parsers, p.run # << >>, p.state # "error",
         p.start = "INITIAL" => \A u : ~Arc(p.state, Word(p.run).is, u),
         p.start = "ESC" => \A u : ~Arc(p.state, "TXTARG", u),
         NEW ch, ~InRun(p, ch), NEW q, q = Scan(p, ch)
  PROVE  Stuck(p, q)
<1>1. PICK r : r = Further(p)
  OBVIOUS
<1>2. /\ r \in Parsers /\ r.start = p.start /\ r.state = p.state /\ r.run = p.run
      /\ r.args = p.args /\ r.got = p.got
  BY <1>1, FurtherFields
<1>3. PICK e : e = EndRun(r)
  OBVIOUS
<1>4. Stuck(r, e)
  BY <1>2, <1>3, RunSticks
<1>5. q = Char(e, ch)
  BY <1>1, <1>3, ScanIs
<1>6. q = e
  BY <1>4, <1>5 DEF Char, Stuck
<1> QED
  BY <1>2, <1>4, <1>6 DEF Stuck

\* Between two words.
Wordless(p) == p.run = << >>

LEMMA ScanWordless ==
  ASSUME NEW p \in Parsers, Wordless(p), p.state # "error", NEW ch, ~InRun(p, ch)
  PROVE  \E r \in Parsers : /\ Scan(p, ch) = Char(r, ch) /\ Wordless(r)
                            /\ r.start = p.start /\ r.state = p.state /\ r.args = p.args /\ r.got = p.got
                            /\ r.flexmark = p.flexmark
<1>1. PICK r : r = Further(p)
  OBVIOUS
<1>2. /\ r \in Parsers /\ r.start = p.start /\ r.state = p.state /\ r.run = p.run
      /\ r.args = p.args /\ r.got = p.got /\ r.flexmark = p.flexmark
  BY <1>1, FurtherFields
<1>3. EndRun(r) = r
  BY <1>2, NoRun DEF Wordless
<1>4. Scan(p, ch) = Char(r, ch)
  BY <1>1, <1>3, ScanIs
<1> QED
  BY <1>2, <1>4 DEF Wordless

LEMMA MarkSticks ==
  ASSUME NEW p \in Parsers, Wordless(p), p.state # "error", p.start = "INITIAL",
         NEW ch \in Marks, \A u : ~Arc(p.state, ch, u), NEW q, q = Scan(p, ch)
  PROVE  Stuck(p, q)
<1>1. ~InRun(p, ch)
  BY DEF InRun, Marks, Letters, Wordless
<1>2. PICK r \in Parsers : /\ q = Char(r, ch) /\ r.start = "INITIAL" /\ r.state = p.state
                           /\ r.args = p.args /\ r.got = p.got
  BY <1>1, ScanWordless
<1>3. PICK token : token = Token(ch, << >>) /\ token.is = ch
  BY TokenFields
<1>4. q = Parse(r, token)
  BY <1>2, <1>3 DEF Char, Marks, Quote
<1>5. q = [r EXCEPT !.state = "error"]
  BY <1>2, <1>3, <1>4, Fails
<1> QED
  BY <1>2, <1>5 DEF Stuck, Parsers

\* The first character of a word stays.
LEMMA AppendFirst ==
  ASSUME NEW run \in Texts, NEW ch \in InWords
  PROVE  /\ Append(run, ch) # << >>
         /\ run # << >> => Append(run, ch)[1] = run[1]
         /\ run = << >> => Append(run, ch)[1] = ch
BY AppendProperties DEF Texts

\* What leaves the scanner in a quotation.
Excuse == \E k \in DOMAIN sent : sent[k] = "dash" \/ (Quote \in ToSet(Text[sent[k]]) /\ IsCut(k))

InLine(k, x) == End(k - 1) < x /\ x < End(k)
Begun(p, ch) == p.run # << >> /\ (p.run[1] = "A" <=> ch = "A")

\* The scanner at place x of the stream, no line being followed: in a quotation that
\* no line begins with, behind a syntax error, in the middle of a line, in a word
\* there that is no command, or in the line end of a line it did not see begin.
LostQuoted(p) == p.start = "ESC" /\ p.state = "line" /\ Excuse
LostInLine(p, x) ==
  /\ p.state = "line" /\ Wordless(p)
  /\ \E k \in 1..Len(sent) : InLine(k, x) /\ (Excuse \/ IsCut(k))
LostInWord(p) ==
  \/ p.state = "line" /\ Begun(p, "a")
  \/ p.state = "retline" /\ Begun(p, "A")
LostAtEnd(p, x) ==
  /\ Wordless(p)
  /\ \E k \in 1..Len(sent) : \/ p.state = "cr" /\ x + 1 = End(k)
                             \/ p.state = "retline" /\ x = End(k)

Lost(p, x) ==
  /\ Len(p.args) <= 2
  /\ \/ p.state = "error" /\ (p.start = "ESC" => Excuse)
     \/ LostQuoted(p)
     \/ p.start = "INITIAL" /\ (LostInLine(p, x) \/ LostInWord(p) \/ LostAtEnd(p, x))

\* The character behind place x.
LEMMA PlaceInLine ==
  ASSUME sent \in Seq(Kinds), NEW x \in Nat, x < Len(Stream)
  PROVE  \E k \in 1..Len(sent) : \E i \in 1..Len(Text[sent[k]]) :
           /\ End(k - 1) <= x /\ x < End(k) /\ i = x - End(k - 1) + 1
           /\ Stream[x + 1] = Text[sent[k]][i] /\ sent[k] \in Kinds
           /\ End(k) = End(k - 1) + Len(Text[sent[k]]) /\ Len(Text[sent[k]]) \in Nat
           /\ End(k) \in Nat /\ End(k - 1) \in Nat
<1>1. PICK k \in 1..Len(sent) : End(k - 1) <= x /\ x < End(k)
  BY LineAt
<1>2. /\ End(k - 1) \in Nat /\ End(k) \in Nat /\ Len(Text[sent[k]]) \in Nat /\ sent[k] \in Kinds
      /\ End(k) = End(k - 1) + Len(Text[sent[k]])
  <2>1. k - 1 \in 0..Len(sent) /\ k \in 0..Len(sent) /\ sent[k] \in Kinds
    OBVIOUS
  <2> QED
    BY <2>1, LineEnds, LengthOfText
<1>3. PICK i : i = x - End(k - 1) + 1
  OBVIOUS
<1>4. i \in 1..Len(Text[sent[k]]) /\ x + 1 = End(k - 1) + i
  BY SMTT(60), <1>1, <1>2, <1>3
<1>5. Stream[x + 1] = Text[sent[k]][i]
  BY <1>4, CharOfLine
<1> QED
  BY <1>1, <1>2, <1>3, <1>4, <1>5

\* A place in the middle of line k.
LEMMA PlaceMidLine ==
  ASSUME sent \in Seq(Kinds), NEW x \in Nat, x < Len(Stream), NEW k \in 1..Len(sent), InLine(k, x),
         NEW ch, ch = Stream[x + 1]
  PROVE  /\ ch \in Chars /\ ch # "A" /\ (ch = "CR" => x + 2 = End(k)) /\ (ch = "hyphen" => sent[k] = "dash")
         /\ ch # "LF" => InLine(k, x + 1)
         /\ ch = Quote => Quote \in ToSet(Text[sent[k]])
<1>1. /\ End(k - 1) \in Nat /\ End(k) \in Nat /\ Len(Text[sent[k]]) \in Nat /\ sent[k] \in Kinds
      /\ End(k) = End(k - 1) + Len(Text[sent[k]])
  <2>1. k - 1 \in 0..Len(sent) /\ k \in 0..Len(sent) /\ sent[k] \in Kinds
    OBVIOUS
  <2> QED
    BY <2>1, LineEnds, LengthOfText
<1>2. PICK n \in Nat, a \in Nat, b \in Nat : n = Len(Text[sent[k]]) /\ a = End(k - 1) /\ b = End(k)
  BY <1>1
<1>3. a < x /\ x < b /\ b = a + n
  BY <1>1, <1>2 DEF InLine
<1>4. PICK i \in Nat : i \in 2..n /\ x + 1 = a + i
  <2>1. x - a + 1 \in 2..n /\ x + 1 = a + (x - a + 1) /\ x - a + 1 \in Nat
    BY <1>3
  <2> QED
    BY <2>1
<1>5. ch = Text[sent[k]][i]
  <2>1. i \in 1..n
    BY <1>4
  <2> QED
    BY <1>2, <1>4, <2>1, CharOfLine
<1>6. MidLineChar(sent[k], i)
  BY <1>1, <1>2, <1>4, MidLine
<1>7. Text[sent[k]] \in Seq(Chars) /\ i \in DOMAIN Text[sent[k]]
  BY SMTT(60), <1>1, <1>2, <1>4, CharsOfText
<1>8. ch # "A" /\ (ch = "hyphen" => sent[k] = "dash") /\ (ch = "CR" => i + 1 = n) /\ (ch # "LF" => i < n)
  BY <1>2, <1>5, <1>6 DEF MidLineChar
<1>9. (ch = "CR" => x + 2 = End(k)) /\ (ch # "LF" => InLine(k, x + 1))
  <2>1. (ch = "CR" => x + 2 = b) /\ (ch # "LF" => a < x + 1 /\ x + 1 < b)
    BY <1>3, <1>4, <1>8
  <2> QED
    BY <1>2, <2>1 DEF InLine
<1>10. ch \in Chars /\ (ch = Quote => Quote \in ToSet(Text[sent[k]]))
  BY <1>5, <1>7 DEF ToSet
<1> QED
  BY <1>8, <1>9, <1>10

\* In a quotation.
LEMMA LostQuotedGoesOn ==
  ASSUME sent \in Seq(Kinds), NEW p \in Parsers, NEW x \in Nat, x < Len(Stream), LostQuoted(p),
         NEW q, q = Scan(p, Stream[x + 1])
  PROVE  /\ q.got = p.got /\ q.args = p.args
         /\ LostQuoted(q) \/ (q.state = "error" /\ Excuse) \/ (q.start = "INITIAL" /\ LostInLine(q, x + 1))
<1>1. PICK ch : ch = Stream[x + 1]
  OBVIOUS
<1>2. p.start = "ESC" /\ p.state = "line" /\ Excuse
  BY DEF LostQuoted
<1>3. CASE InRun(p, ch)
  BY <1>1, <1>2, <1>3, ScanLetter DEF LostQuoted, Called1, Same
<1>4. CASE ~InRun(p, ch) /\ p.run # << >>
  <2>1. Stuck(p, q)
    BY <1>1, <1>2, <1>4, ScanSticks, NoArcs
  <2> QED
    BY <1>2, <2>1 DEF Stuck
<1>5. CASE ~InRun(p, ch) /\ Wordless(p)
  <2>1. PICK r \in Parsers : /\ q = Char(r, ch) /\ Wordless(r) /\ r.start = "ESC" /\ r.state = "line"
                             /\ r.args = p.args /\ r.got = p.got /\ r.flexmark = p.flexmark
    BY <1>1, <1>2, <1>5, ScanWordless
  <2>2. CASE ch # Quote
    <3>1. q = r
      BY <2>1, <2>2 DEF Char
    <3> QED
      BY <1>2, <2>1, <3>1 DEF LostQuoted
  <2>3. CASE ch = Quote /\ ~r.flexmark
    <3>1. PICK e : e = [r EXCEPT !.start = "INITIAL"]
      OBVIOUS
    <3>2. e \in Parsers /\ e.state = "line" /\ e.args = p.args /\ e.got = p.got
      BY <2>1, <3>1 DEF Parsers
    <3>3. NULL \in Texts
      BY NoText, Zenon DEF NULL
    <3>4. q = Parse(e, Token("TXTARG", NULL))
      BY <2>1, <2>3, <3>1 DEF Char, quote
    <3>5. q = [e EXCEPT !.state = "error"]
      BY <3>2, <3>3, <3>4, NoLineBeginsQuoted
    <3> QED
      BY <1>2, <3>2, <3>5 DEF Parsers
  <2>4. CASE ch = Quote /\ r.flexmark
    <3>1. q = [r EXCEPT !.start = "INITIAL"]
      BY <2>1, <2>4 DEF Char, quote
    <3>2. q.start = "INITIAL" /\ q.state = "line" /\ Wordless(q) /\ q.args = p.args /\ q.got = p.got
      BY <2>1, <3>1 DEF Parsers, Wordless
    <3>3. PICK k \in 1..Len(sent) : InLine(k, x + 1)
      <4>1. PICK k \in 1..Len(sent) : \E i \in 1..Len(Text[sent[k]]) :
              /\ End(k - 1) <= x /\ x < End(k) /\ i = x - End(k - 1) + 1
              /\ ch = Text[sent[k]][i] /\ sent[k] \in Kinds
              /\ End(k) = End(k - 1) + Len(Text[sent[k]]) /\ Len(Text[sent[k]]) \in Nat
              /\ End(k) \in Nat /\ End(k - 1) \in Nat
        BY <1>1, PlaceInLine
      <4>2. PICK i \in 1..Len(Text[sent[k]]) :
              /\ End(k - 1) <= x /\ x < End(k) /\ i = x - End(k - 1) + 1
              /\ ch = Text[sent[k]][i] /\ sent[k] \in Kinds
              /\ End(k) = End(k - 1) + Len(Text[sent[k]]) /\ Len(Text[sent[k]]) \in Nat
              /\ End(k) \in Nat /\ End(k - 1) \in Nat
        BY <4>1
      <4>3. i # 1 /\ i # Len(Text[sent[k]])
        BY <2>4, <4>2, FirstOfLine, LastOfLine DEF Quote
      <4> QED
        BY SMTT(60), <4>2, <4>3 DEF InLine
    <3> QED
      BY <1>2, <3>2, <3>3 DEF LostInLine
  <2> QED
    BY <2>1, <2>2, <2>3, <2>4
<1> QED
  BY <1>3, <1>4, <1>5 DEF Wordless

LEMMA LostInLineGoesOn ==
  ASSUME sent \in Seq(Kinds), NEW p \in Parsers, NEW x \in Nat, x < Len(Stream),
         p.start = "INITIAL", LostInLine(p, x), NEW q, q = Scan(p, Stream[x + 1])
  PROVE  /\ q.got = p.got /\ q.args = p.args
         /\ \/ q.state = "error" /\ q.start = "INITIAL"
            \/ LostQuoted(q)
            \/ q.start = "INITIAL" /\ (LostInLine(q, x + 1) \/ LostInWord(q) \/ LostAtEnd(q, x + 1))
<1>1. PICK ch : ch = Stream[x + 1]
  OBVIOUS
<1>2. PICK k \in 1..Len(sent) : InLine(k, x) /\ (Excuse \/ IsCut(k))
  BY DEF LostInLine
<1>3. /\ ch \in Chars /\ ch # "A" /\ (ch = "CR" => x + 2 = End(k)) /\ (ch = "hyphen" => sent[k] = "dash")
      /\ ch # "LF" => InLine(k, x + 1)
      /\ ch = Quote => Quote \in ToSet(Text[sent[k]])
  BY <1>1, <1>2, PlaceMidLine
<1>4. p.state = "line" /\ Wordless(p) /\ k \in DOMAIN sent
  BY DEF LostInLine
<1>5. CASE ch \in Letters
  <2>1. InRun(p, ch)
    BY <1>5 DEF InRun
  <2>2. /\ q.start = "INITIAL" /\ q.state = "line" /\ q.run = Append(p.run, ch)
        /\ q.args = p.args /\ q.got = p.got
    BY <1>1, <1>4, <2>1, ScanLetter DEF Called1, Same
  <2>3. Append(p.run, ch) # << >> /\ Append(p.run, ch)[1] = ch
    BY <1>4, <1>5, AppendFirst DEF Parsers, InWords, Wordless
  <2> QED
    BY <1>3, <2>2, <2>3 DEF LostInWord, Begun
<1>6. CASE ch \in Marks \ {"CR"}
  <2>1. \A u : ~Arc(p.state, ch, u)
    BY <1>4, <1>6, NoArcs
  <2>2. Stuck(p, q)
    BY <1>1, <1>4, <1>6, <2>1, MarkSticks
  <2> QED
    BY <2>2 DEF Stuck
<1>7. CASE ch = "CR"
  <2>1. PICK s, u, none, as : /\ s = "line" /\ u = "cr" /\ none = << >> /\ as = p.args /\ ch \in Marks
                              /\ Arc(s, ch, u) /\ s # "endcr"
    BY <1>7 DEF Arc, Marks
  <2>2. On(p, s, << >>, as)
    BY <1>4, <2>1 DEF On, Wordless
  <2>3. On(q, u, << >>, as) /\ Called1(p, q)
    BY <1>1, <2>1, <2>2, OnMark
  <2>4. q.state = "cr" /\ q.start = "INITIAL" /\ Wordless(q) /\ q.args = p.args /\ q.got = p.got
    BY <2>1, <2>3 DEF On, Wordless, Called1, Same
  <2>5. (x + 1) + 1 = End(k)
    BY <1>3, <1>7
  <2> QED
    BY <2>4, <2>5 DEF LostAtEnd
<1>8. CASE ch = Quote
  <2>1. PICK s, as : s = "line" /\ s # "error" /\ as = p.args
    OBVIOUS
  <2>2. On(p, s, << >>, as)
    BY <1>4, <2>1 DEF On, Wordless
  <2>3. In(q, s, << >>, as) /\ Called1(p, q)
    BY <1>1, <1>8, <2>1, <2>2, OnQuote
  <2>4. Excuse
    BY <1>2, <1>3, <1>4, <1>8 DEF Excuse
  <2> QED
    BY <2>1, <2>3, <2>4 DEF In, Called1, Same, LostQuoted
<1>9. CASE ch \in {"space", "hyphen"}
  <2>1. ~InRun(p, ch)
    BY <1>4, <1>9 DEF InRun, Letters, Wordless
  <2>2. PICK r \in Parsers : /\ q = Char(r, ch) /\ Wordless(r) /\ r.start = "INITIAL" /\ r.state = "line"
                             /\ r.args = p.args /\ r.got = p.got
    BY <1>1, <1>4, <2>1, ScanWordless
  <2>3. q = r
    BY <1>9, <2>2 DEF Char, Marks, Quote
  <2>4. InLine(k, x + 1)
    BY <1>3, <1>9
  <2> QED
    BY <1>2, <2>2, <2>3, <2>4 DEF LostInLine
<1> QED
  BY <1>3, <1>5, <1>6, <1>7, <1>8, <1>9 DEF Chars

\* A word that no line has at this place.
LEMMA WordSticks ==
  ASSUME NEW p \in Parsers, p.start = "INITIAL", LostInWord(p)
  PROVE  /\ p.run # << >> /\ p.state # "error"
         /\ \A u : ~Arc(p.state, Word(p.run).is, u)
<1>1. p.run # << >> /\ p.run \in Texts
  BY DEF LostInWord, Begun, Parsers
<1>2. CASE p.state = "line" /\ Begun(p, "a")
  <2>1. Word(p.run).is \in {"OK", "ERROR", "TXT"}
    BY <1>1, <1>2, WordFields DEF Begun
  <2> QED
    BY <1>1, <1>2, <2>1, NoArcs
<1>3. CASE p.state = "retline" /\ Begun(p, "A")
  <2>1. Word(p.run).is \in {"AT", "ATCMD", "TXT"}
    BY <1>1, <1>3, WordFields DEF Begun
  <2> QED
    BY <1>1, <1>3, <2>1, NoArcs
<1> QED
  BY <1>2, <1>3 DEF LostInWord

LEMMA LostInWordGoesOn ==
  ASSUME NEW p \in Parsers, p.start = "INITIAL", LostInWord(p), NEW ch, NEW q, q = Scan(p, ch)
  PROVE  /\ q.got = p.got /\ q.args = p.args /\ q.start = "INITIAL"
         /\ q.state = "error" \/ LostInWord(q)
<1>1. p.run # << >> /\ p.state # "error" /\ p.run \in Texts
  BY WordSticks DEF Parsers
<1>2. CASE InRun(p, ch)
  <2>1. /\ q.start = "INITIAL" /\ q.state = p.state /\ q.run = Append(p.run, ch)
        /\ q.args = p.args /\ q.got = p.got
    BY <1>1, <1>2, ScanLetter DEF Called1, Same
  <2>2. ch \in InWords
    BY <1>2 DEF InRun, InWords
  <2>3. Append(p.run, ch) # << >> /\ Append(p.run, ch)[1] = p.run[1]
    BY <1>1, <2>2, AppendFirst
  <2> QED
    BY <2>1, <2>3 DEF LostInWord, Begun
<1>3. CASE ~InRun(p, ch)
  <2>1. Stuck(p, q)
    BY <1>1, <1>3, WordSticks, ScanSticks
  <2> QED
    BY <2>1 DEF Stuck
<1> QED
  BY <1>2, <1>3

LEMMA LostAtEndGoesOn ==
  ASSUME sent \in Seq(Kinds), NEW p \in Parsers, NEW x \in Nat, x < Len(Stream),
         p.start = "INITIAL", LostAtEnd(p, x), NEW q, q = Scan(p, Stream[x + 1])
  PROVE  /\ q.got = p.got /\ q.args = p.args /\ q.start = "INITIAL"
         /\ q.state = "error" \/ LostInWord(q) \/ LostAtEnd(q, x + 1)
<1>1. PICK ch : ch = Stream[x + 1]
  OBVIOUS
<1>2. PICK k \in 1..Len(sent) : \/ p.state = "cr" /\ x + 1 = End(k)
                                \/ p.state = "retline" /\ x = End(k)
  BY DEF LostAtEnd
<1>3. /\ End(k - 1) \in Nat /\ End(k) \in Nat /\ Len(Text[sent[k]]) \in Nat /\ sent[k] \in Kinds
      /\ End(k) = End(k - 1) + Len(Text[sent[k]]) /\ Len(Text[sent[k]]) >= 6
  <2>1. k - 1 \in 0..Len(sent) /\ k \in 0..Len(sent) /\ sent[k] \in Kinds
    OBVIOUS
  <2> QED
    BY <2>1, LineEnds, LengthOfText
<1>4. Wordless(p)
  BY DEF LostAtEnd
<1>5. CASE p.state = "cr" /\ x + 1 = End(k)
  <2>1. ch = "LF"
    <3>1. Len(Text[sent[k]]) \in 1..Len(Text[sent[k]])
      BY <1>3
    <3>2. Stream[End(k)] = Text[sent[k]][Len(Text[sent[k]])]
      BY <1>3, <3>1, CharOfLine
    <3> QED
      BY <1>1, <1>3, <1>5, <3>2, LastOfLine
  <2>2. PICK s, u, none, as : /\ s = "cr" /\ u = "retline" /\ none = << >> /\ as = p.args /\ ch \in Marks
                              /\ Arc(s, ch, u) /\ s # "endcr"
    BY <2>1 DEF Arc, Marks
  <2>3. On(p, s, << >>, as)
    BY <1>4, <1>5, <2>2 DEF On, Wordless
  <2>4. On(q, u, << >>, as) /\ Called1(p, q)
    BY <1>1, <2>2, <2>3, OnMark
  <2>5. q.state = "retline" /\ q.start = "INITIAL" /\ Wordless(q) /\ q.args = p.args /\ q.got = p.got
    BY <2>2, <2>4 DEF On, Wordless, Called1, Same
  <2> QED
    BY <1>5, <2>5 DEF LostAtEnd
<1>6. CASE p.state = "retline" /\ x = End(k)
  <2>1. ch \in {"CR", "A"}
    <3>1. PICK m \in 1..Len(sent) : \E i \in 1..Len(Text[sent[m]]) :
            /\ End(m - 1) <= x /\ x < End(m) /\ i = x - End(m - 1) + 1
            /\ ch = Text[sent[m]][i] /\ sent[m] \in Kinds
            /\ End(m) = End(m - 1) + Len(Text[sent[m]]) /\ Len(Text[sent[m]]) \in Nat
            /\ End(m) \in Nat /\ End(m - 1) \in Nat
      BY <1>1, PlaceInLine
    <3>2. k \in 0..Len(sent) /\ m \in 0..Len(sent) /\ m - 1 \in 0..Len(sent) /\ m \in Nat /\ k \in Nat
      OBVIOUS
    <3>3. k # m /\ ~(m < k) /\ ~(k < m - 1)
      <4>1. m < k => End(m) < End(k)
        BY <3>2, LaterEnds
      <4>2. k < m - 1 => End(k) < End(m - 1)
        BY <3>2, LaterEnds
      <4> QED
        BY SMTT(60), <1>3, <1>6, <3>1, <4>1, <4>2
    <3>4. k = m - 1
      BY <3>2, <3>3
    <3>5. ch = Text[sent[m]][1]
      <4>1. PICK i \in 1..Len(Text[sent[m]]) : i = x - End(m - 1) + 1 /\ ch = Text[sent[m]][i]
        BY <3>1
      <4>2. End(m - 1) = x
        BY <1>6, <3>4
      <4>3. i = 1
        BY <3>1, <4>1, <4>2
      <4> QED
        BY <4>1, <4>3
    <3> QED
      BY <3>1, <3>5, FirstOfLine
  <2>2. CASE ch = "CR"
    <3>1. \A u : ~Arc(p.state, ch, u)
      BY <1>6, <2>2, NoArcs
    <3>2. Stuck(p, q)
      BY <1>1, <1>4, <1>6, <2>2, <3>1, MarkSticks DEF Marks
    <3> QED
      BY <3>2 DEF Stuck
  <2>3. CASE ch = "A"
    <3>1. InRun(p, ch) /\ ch \in InWords
      BY <2>3 DEF InRun, Letters, InWords
    <3>2. /\ q.start = "INITIAL" /\ q.state = "retline" /\ q.run = Append(p.run, ch)
          /\ q.args = p.args /\ q.got = p.got
      BY <1>1, <1>6, <3>1, ScanLetter DEF Called1, Same
    <3>3. Append(p.run, ch) # << >> /\ Append(p.run, ch)[1] = ch
      BY <1>4, <3>1, AppendFirst DEF Parsers, Wordless
    <3> QED
      BY <2>3, <3>2, <3>3 DEF LostInWord, Begun
  <2> QED
    BY <2>1, <2>2, <2>3
<1> QED
  BY <1>2, <1>5, <1>6

\* Put together: what is lost stays lost, and nothing is called back.
LEMMA LostGoesOn ==
  ASSUME sent \in Seq(Kinds), NEW p \in Parsers, NEW x \in Nat, x < Len(Stream), Lost(p, x),
         NEW q, q = Scan(p, Stream[x + 1])
  PROVE  Lost(q, x + 1) /\ q.got = p.got
<1>1. CASE p.state = "error" /\ (p.start = "ESC" => Excuse)
  BY <1>1 DEF Scan, Lost
<1>2. CASE LostQuoted(p)
  BY <1>2, LostQuotedGoesOn DEF Lost
<1>3. CASE p.start = "INITIAL" /\ LostInLine(p, x)
  BY <1>3, LostInLineGoesOn DEF Lost
<1>4. CASE p.start = "INITIAL" /\ LostInWord(p)
  BY <1>4, LostInWordGoesOn DEF Lost
<1>5. CASE p.start = "INITIAL" /\ LostAtEnd(p, x)
  BY <1>5, LostAtEndGoesOn DEF Lost
<1> QED
  BY <1>1, <1>2, <1>3, <1>4, <1>5 DEF Lost

\* The end of the transfer.
LEMMA LostEnds ==
  ASSUME NEW p \in Parsers, NEW x, Lost(p, x), NEW q, q = EndRun(p)
  PROVE  q.got = p.got /\ q.args = p.args /\ q.start = p.start /\ (q.start = "ESC" => Excuse)
<1>1. CASE p.state = "error" \/ p.run = << >>
  BY <1>1 DEF EndRun, Lost, LostQuoted
<1>2. CASE p.state # "error" /\ p.run # << >>
  <2>1. CASE LostQuoted(p)
    <3>1. Stuck(p, q)
      BY <1>2, <2>1, RunSticks, NoArcs DEF LostQuoted
    <3> QED
      BY <2>1, <3>1 DEF Stuck, LostQuoted
  <2>2. CASE p.start = "INITIAL" /\ LostInWord(p)
    <3>1. Stuck(p, q)
      BY <1>2, <2>2, RunSticks, WordSticks
    <3> QED
      BY <2>2, <3>1 DEF Stuck
  <2> QED
    BY <1>2, <2>1, <2>2 DEF Lost, LostInLine, LostAtEnd, Wordless
<1> QED
  BY <1>1, <1>2

-----------------------------------------------------------------------------
(* A transfer.                                                             *)

\* A place is in one line.
LEMMA OneLine ==
  ASSUME sent \in Seq(Kinds), NEW x \in Nat, NEW k \in 1..Len(sent), End(k - 1) <= x, x < End(k),
         NEW m \in 0..Len(sent)
  PROVE  /\ End(m) <= x => m <= k - 1 /\ End(m) <= End(k - 1)
         /\ x < End(m) => k <= m
         /\ End(m) = x => m = k - 1
<1>1. /\ k - 1 \in 0..Len(sent) /\ k \in 0..Len(sent) /\ k \in Nat /\ m \in Nat
      /\ End(k - 1) \in Nat /\ End(k) \in Nat /\ End(m) \in Nat
  <2>1. k - 1 \in 0..Len(sent) /\ k \in 0..Len(sent) /\ k \in Nat /\ m \in Nat
    OBVIOUS
  <2> QED
    BY <2>1, LineEnds
<1>2. k < m => End(k) < End(m)
  BY <1>1, LaterEnds
<1>3. m < k - 1 => End(m) < End(k - 1)
  BY <1>1, LaterEnds
<1>4. PICK a \in Nat, b \in Nat, e \in Nat : a = End(k - 1) /\ b = End(k) /\ e = End(m)
  BY <1>1
<1>5. a <= x /\ x < b /\ (k < m => b < e) /\ (m < k - 1 => e < a) /\ (m = k - 1 => e = a) /\ (m = k => e = b)
  BY <1>2, <1>3, <1>4
<1>6. (e <= x => m <= k - 1 /\ e <= a) /\ (x < e => k <= m) /\ (e = x => m = k - 1)
  BY <1>1, <1>5
<1> QED
  BY <1>4, <1>6

\* Where it is, and what comes there.
LEMMA PlaceOf ==
  ASSUME sent \in Seq(Kinds), NEW x \in Nat, x < Len(Stream)
  PROVE  \E k \in 1..Len(sent), o \in Nat, n \in Nat, a \in Nat, b \in Nat :
           /\ a = End(k - 1) /\ b = End(k) /\ n = Len(Text[sent[k]]) /\ x = a + o /\ o < n /\ b = a + n
           /\ Stream[x + 1] = Text[sent[k]][o + 1] /\ sent[k] \in Kinds
<1>1. PICK k \in 1..Len(sent) : \E i \in 1..Len(Text[sent[k]]) :
           /\ End(k - 1) <= x /\ x < End(k) /\ i = x - End(k - 1) + 1
           /\ Stream[x + 1] = Text[sent[k]][i] /\ sent[k] \in Kinds
           /\ End(k) = End(k - 1) + Len(Text[sent[k]]) /\ Len(Text[sent[k]]) \in Nat
           /\ End(k) \in Nat /\ End(k - 1) \in Nat
  BY PlaceInLine
<1>2. PICK i \in 1..Len(Text[sent[k]]) :
           /\ i = x - End(k - 1) + 1 /\ Stream[x + 1] = Text[sent[k]][i]
  BY <1>1
<1>3. PICK n \in Nat, a \in Nat, b \in Nat : a = End(k - 1) /\ b = End(k) /\ n = Len(Text[sent[k]])
  BY <1>1
<1>4. a <= x /\ x < b /\ i = x - a + 1 /\ b = a + n
  BY <1>1, <1>2, <1>3
<1>5. PICK o \in Nat : o = x - a
  BY <1>4
<1>6. x = a + o /\ o < n /\ i = o + 1
  BY <1>4, <1>5
<1> QED
  BY <1>1, <1>2, <1>3, <1>4, <1>6

\* The scanner at place x of the stream, having followed every line since the
\* transfer began.
HeardTo(p, x) ==
  \A k \in LinesIn(pos, x) : \E j \in DOMAIN p.got : p.got[j] = [cb |-> Gives[sent[k]], at |-> End(k)]

Following(p, x) ==
  \/ (\E k \in 0..Len(sent) : x = End(k)) /\ On(p, "line", << >>, << >>)
  \/ \E k \in 1..Len(sent), o \in Nat : /\ x = End(k - 1) + o /\ 0 < o /\ o < Len(Text[sent[k]])
                                        /\ Partway(p, sent[k], o)

Going(p, x) == p.at = x /\ HeardTo(p, x) /\ Following(p, x)

LEMMA FollowingPartway ==
  ASSUME sent \in Seq(Kinds), NEW x \in Nat, NEW p, Following(p, x),
         NEW k \in 1..Len(sent), NEW o \in Nat, x = End(k - 1) + o, o < Len(Text[sent[k]])
  PROVE  Partway(p, sent[k], o)
<1>1. /\ k - 1 \in 0..Len(sent) /\ k \in 0..Len(sent) /\ sent[k] \in Kinds
      /\ End(k - 1) \in Nat /\ End(k) \in Nat /\ End(k) = End(k - 1) + Len(Text[sent[k]])
      /\ Len(Text[sent[k]]) \in Nat
  <2>1. k - 1 \in 0..Len(sent) /\ k \in 0..Len(sent) /\ sent[k] \in Kinds
    OBVIOUS
  <2> QED
    BY <2>1, LineEnds, LengthOfText
<1>2. End(k - 1) <= x /\ x < End(k)
  BY <1>1
<1>3. CASE (\E m \in 0..Len(sent) : x = End(m)) /\ On(p, "line", << >>, << >>)
  <2>1. PICK m \in 0..Len(sent) : x = End(m)
    BY <1>3
  <2>2. m = k - 1
    BY <1>2, <2>1, OneLine
  <2>3. o = 0
    BY <1>1, <2>1, <2>2
  <2>4. Begins(p, sent[k], o)
    BY <1>3, <2>3, Zenon DEF Begins
  <2> QED
    BY <2>4, Zenon DEF Partway
<1>4. ASSUME NEW m \in 1..Len(sent), NEW i \in Nat, x = End(m - 1) + i, i < Len(Text[sent[m]]),
             Partway(p, sent[m], i)
      PROVE  Partway(p, sent[k], o)
  <2>1. /\ m - 1 \in 0..Len(sent) /\ m \in 0..Len(sent) /\ sent[m] \in Kinds
        /\ End(m - 1) \in Nat /\ End(m) \in Nat /\ End(m) = End(m - 1) + Len(Text[sent[m]])
        /\ Len(Text[sent[m]]) \in Nat
    <3>1. m - 1 \in 0..Len(sent) /\ m \in 0..Len(sent) /\ sent[m] \in Kinds
      OBVIOUS
    <3> QED
      BY <3>1, LineEnds, LengthOfText
  <2>2. End(m - 1) <= x /\ x < End(m)
    BY SMTT(60), <1>4, <2>1
  <2>3. m - 1 <= k - 1 /\ k <= m
    BY <1>2, <2>1, <2>2, OneLine
  <2>4. m = k
    BY <2>3
  <2>5. i = o
    BY <1>1, <1>4, <2>4
  <2> QED
    BY <1>4, <2>4, <2>5
<1> QED
  BY <1>3, <1>4 DEF Following

\* The fourth argument of a "dash" line would be one too many.
LEMMA DashAtNine ==
  ASSUME NEW p, NEW l, l = "dash", NEW o, o = 9, Partway(p, l, o)
  PROVE  In(p, "arg", <<"a">>, << <<"a">> >>)
<1>1. ~Begins(p, l, o) /\ ~Ends(p, l, o) /\ ~(l \in {"ok", "error"})
  BY DEF Begins, Ends
<1>2. ~InName(p, l, o)
  BY DEF InName
<1>3. InArgs(p, l, o)
  BY <1>1, <1>2 DEF Partway
<1>4. InDash(p, o)
  BY <1>3 DEF InArgs
<1> QED
  BY <1>4 DEF InDash

\* The lines that end at the next place: none in the middle of a line ...
LEMMA HeardMidLine ==
  ASSUME sent \in Seq(Kinds), NEW x \in Nat, NEW k \in 1..Len(sent), End(k - 1) <= x, x + 1 < End(k),
         NEW p, HeardTo(p, x), NEW q, q.got = p.got
  PROVE  HeardTo(q, x + 1)
<1>1. x < End(k)
  <2>1. End(k) \in Nat
    BY LineEnds
  <2> QED
    BY <2>1
<1>2. ASSUME NEW m \in LinesIn(pos, x + 1) PROVE m \in LinesIn(pos, x)
  <2>1. m \in 1..Len(sent) /\ m \in 0..Len(sent) /\ pos < End(m) /\ End(m) <= x + 1 /\ m \in DOMAIN sent
    BY DEF LinesIn
  <2>2. End(m) \in Nat /\ End(k - 1) \in Nat
    <3>1. k - 1 \in 0..Len(sent)
      OBVIOUS
    <3> QED
      BY <2>1, <3>1, LineEnds
  <2>3. End(m) # x + 1
    <3>1. x + 1 \in Nat /\ End(k - 1) <= x + 1
      BY <2>2
    <3>2. PICK y \in Nat : y = x + 1 /\ End(k - 1) <= y /\ y < End(k)
      BY <3>1
    <3>3. End(m) = y => m = k - 1
      BY <2>1, <3>2, OneLine
    <3>4. End(k - 1) # x + 1
      BY <2>2
    <3> QED
      BY <3>2, <3>3, <3>4
  <2> QED
    BY <2>1, <2>2, <2>3 DEF LinesIn
<1> QED
  BY <1>2 DEF HeardTo

\* ... and line k at its end.
LEMMA HeardLine ==
  ASSUME sent \in Seq(Kinds), NEW x \in Nat, NEW k \in 1..Len(sent), End(k - 1) <= x, x + 1 = End(k),
         NEW p \in Parsers, HeardTo(p, x),
         NEW q, q.got = Append(p.got, [cb |-> Gives[sent[k]], at |-> End(k)])
  PROVE  HeardTo(q, x + 1)
<1>1. PICK e : e = [cb |-> Gives[sent[k]], at |-> End(k)]
  OBVIOUS
<1>2. PICK n \in Nat : n = Len(p.got)
  BY DEF Parsers
<1>3. /\ q.got = Append(p.got, e) /\ DOMAIN p.got = 1..n /\ DOMAIN q.got = 1..(n + 1)
      /\ q.got[n + 1] = e /\ \A j \in 1..n : q.got[j] = p.got[j]
  BY <1>1, <1>2, AppendProperties DEF Parsers
<1>4. ASSUME NEW m \in LinesIn(pos, x + 1) PROVE m = k \/ m \in LinesIn(pos, x)
  <2>1. m \in 1..Len(sent) /\ m \in 0..Len(sent) /\ pos < End(m) /\ End(m) <= x + 1 /\ m \in DOMAIN sent
    BY DEF LinesIn
  <2>2. End(m) \in Nat /\ End(k - 1) \in Nat /\ End(k) \in Nat
    <3>1. k - 1 \in 0..Len(sent) /\ k \in 0..Len(sent)
      OBVIOUS
    <3> QED
      BY <2>1, <3>1, LineEnds
  <2>3. CASE End(m) = x + 1
    <3>1. x < End(k) /\ x < End(m)
      BY <2>2, <2>3
    <3>2. k <= m
      BY <2>1, <3>1, OneLine
    <3>3. ~(k < m)
      <4>1. k \in 0..Len(sent)
        OBVIOUS
      <4> QED
        BY <2>1, <2>2, <2>3, <4>1, LaterEnds
    <3> QED
      BY <2>1, <3>2, <3>3
  <2>4. CASE End(m) # x + 1
    BY <2>1, <2>2, <2>4 DEF LinesIn
  <2> QED
    BY <2>3, <2>4
<1>5. ASSUME NEW m \in LinesIn(pos, x + 1)
      PROVE  \E j \in DOMAIN q.got : q.got[j] = [cb |-> Gives[sent[m]], at |-> End(m)]
  <2>1. CASE m = k
    <3>1. n + 1 \in DOMAIN q.got
      BY <1>3
    <3> QED
      BY <1>1, <1>3, <2>1, <3>1
  <2>2. CASE m \in LinesIn(pos, x)
    <3>1. PICK j \in DOMAIN p.got : p.got[j] = [cb |-> Gives[sent[m]], at |-> End(m)]
      BY <2>2 DEF HeardTo
    <3>2. j \in DOMAIN q.got /\ q.got[j] = p.got[j]
      BY <1>3
    <3> QED
      BY <3>1, <3>2
  <2> QED
    BY <1>4, <2>1, <2>2
<1> QED
  BY <1>5 DEF HeardTo

\* One character more: in the line, at its end with its callback, or lost in a "dash"
\* line.
CallsBack(p, q, x, k) ==
  /\ End(k - 1) <= x /\ x + 1 = End(k)
  /\ q.got = Append(p.got, [cb |-> Gives[sent[k]], at |-> End(k)])

LEMMA GoingGoesOn ==
  ASSUME sent \in Seq(Kinds), NEW p \in Parsers, NEW x \in Nat, x < Len(Stream), Going(p, x),
         NEW q, q = Scan(p, Stream[x + 1])
  PROVE  \/ Going(q, x + 1) /\ (q.got = p.got \/ \E k \in 1..Len(sent) : CallsBack(p, q, x, k))
         \/ /\ Lost(q, x + 1) /\ q.got = p.got
            /\ \E k \in 1..Len(sent) : sent[k] = "dash" /\ End(k - 1) <= x /\ x < End(k)
<1>1. PICK k \in 1..Len(sent), o \in Nat, n \in Nat, a \in Nat, b \in Nat :
           /\ a = End(k - 1) /\ b = End(k) /\ n = Len(Text[sent[k]]) /\ x = a + o /\ o < n /\ b = a + n
           /\ Stream[x + 1] = Text[sent[k]][o + 1] /\ sent[k] \in Kinds
  BY PlaceOf
<1>2. PICK l \in Kinds : l = sent[k]
  BY <1>1
<1>0. x = a + o /\ o < n /\ b = a + n
  BY <1>1
<1>3. Partway(p, l, o) /\ p.at = x /\ HeardTo(p, x) /\ q = Scan(p, Text[l][o + 1])
  BY <1>1, <1>2, FollowingPartway DEF Going
<1>4. CASE o = n - 1
  <2>1. o = Len(Text[l]) - 1 /\ o + 1 = Len(Text[l]) /\ x + 1 = b
    BY SMTT(60), <1>1, <1>2, <1>4
  <2>2. /\ On(q, "line", << >>, << >>) /\ q.at = p.at + 1
        /\ q.got = Append(p.got, [cb |-> Gives[l], at |-> p.at + 1])
    BY <1>3, <2>1, PartwayEnds
  <2>3. CallsBack(p, q, x, k)
    <3>1. a <= x /\ x + 1 = b
      BY <1>0, <1>4
    <3>2. [cb |-> Gives[l], at |-> p.at + 1] = [cb |-> Gives[sent[k]], at |-> End(k)]
      BY <1>1, <1>2, <1>3, <3>1
    <3> QED
      BY <1>1, <2>2, <3>1, <3>2 DEF CallsBack
  <2>4. HeardTo(q, x + 1)
    BY <1>1, <1>3, <2>3, HeardLine DEF CallsBack
  <2>5. Following(q, x + 1)
    <3>1. k \in 0..Len(sent) /\ x + 1 = End(k)
      BY <1>1, <2>1
    <3> QED
      BY <2>2, <3>1, Zenon DEF Following
  <2>6. Going(q, x + 1)
    BY <1>3, <2>2, <2>4, <2>5 DEF Going
  <2> QED
    BY <2>3, <2>6
<1>5. CASE o # n - 1 /\ l = "dash" /\ o = 9
  <2>1. In(p, "arg", <<"a">>, << <<"a">> >>)
    BY <1>3, <1>5, DashAtNine
  <2>2. q = Scan(p, Quote)
    <3>1. Text["dash"][10] = Quote
      BY TextOf DEF Reads
    <3>2. o + 1 = 10
      BY <1>5
    <3> QED
      BY <1>3, <1>5, <3>1, <3>2
  <2>3. q.state = "error" /\ q.got = p.got /\ q.args = << <<"a">> >>
    BY <2>1, <2>2, DashFails
  <2>4. Excuse
    <3>1. k \in DOMAIN sent /\ sent[k] = "dash"
      BY <1>2, <1>5
    <3> QED
      BY <3>1 DEF Excuse
  <2>5. Len(q.args) = 1
    BY <2>3
  <2>6. Lost(q, x + 1)
    BY <2>3, <2>4, <2>5 DEF Lost
  <2>7. sent[k] = "dash" /\ End(k - 1) <= x /\ x < End(k)
    BY SMTT(60), <1>1, <1>2, <1>5
  <2> QED
    BY <2>3, <2>6, <2>7
<1>6. CASE o # n - 1 /\ ~(l = "dash" /\ o = 9)
  <2>1. Next1(p, q, l, o)
    BY <1>1, <1>2, <1>3, <1>6, PartwayGoesOn
  <2>2. Partway(q, l, o + 1) /\ q.got = p.got /\ q.at = x + 1
    BY <1>3, <2>1 DEF Next1, Same
  <2>3. End(k - 1) <= x /\ x + 1 < End(k) /\ o + 1 \in Nat /\ 0 < o + 1 /\ o + 1 < n /\ x + 1 = a + (o + 1)
    <3>1. a <= x /\ x + 1 < b /\ o + 1 \in Nat /\ 0 < o + 1 /\ o + 1 < n /\ x + 1 = a + (o + 1)
      BY <1>0, <1>6
    <3> QED
      BY <1>1, <3>1
  <2>4. HeardTo(q, x + 1)
    BY <1>3, <2>2, <2>3, HeardMidLine
  <2>5. Following(q, x + 1)
    <3>1. PICK i \in Nat : i = o + 1
      BY <2>3
    <3>2. PICK y : y = x + 1
      OBVIOUS
    <3>3. /\ y = End(k - 1) + i /\ 0 < i /\ i < Len(Text[sent[k]]) /\ Partway(q, sent[k], i)
      BY <1>1, <1>2, <2>2, <2>3, <3>1, <3>2
    <3>4. Following(q, y)
      BY <3>3 DEF Following
    <3> QED
      BY <3>2, <3>4
  <2> QED
    BY <2>2, <2>4, <2>5 DEF Going
<1> QED
  BY <1>4, <1>5, <1>6

\* A word at the end of a transfer calls nothing back, and is at most one argument.
LEMMA ParseWord ==
  ASSUME NEW p \in Parsers, NEW token \in Tokens,
         token.is \in {"AT", "ATCMD", "OK", "ERROR", "TXT", "TXTARG"}, NEW q, q = Parse(p, token)
  PROVE  /\ q.got = p.got /\ q.start = p.start
         /\ q.args = p.args \/ q.args = Append(p.args, token.text)
<1>1. CASE \A u : ~Arc(p.state, token.is, u)
  BY <1>1, Fails DEF Parsers
<1>2. ASSUME NEW u, Arc(p.state, token.is, u)
      PROVE  /\ q.got = p.got /\ q.start = p.start
             /\ q.args = p.args \/ q.args = Append(p.args, token.text)
  <2>1. PICK r : r = [p EXCEPT !.state = u]
    OBVIOUS
  <2>2. q = Action(p, token, r)
    BY <1>2, <2>1, Moves
  <2>3. /\ r.got = p.got /\ r.start = p.start /\ r.args = p.args
        /\ DOMAIN r = DOMAIN p
    BY <2>1 DEF Parsers
  <2>4. p.state # "endcr"
    BY <1>2 DEF Arc
  <2>5. \/ \E type, name : q = Named(r, type, name)
        \/ q = on_arg(r, token.text)
        \/ q = r
    BY <2>2, <2>4, Zenon DEF Action
  <2>6. "got" \in DOMAIN r /\ "start" \in DOMAIN r /\ "args" \in DOMAIN r
    BY <2>3 DEF Parsers
  <2> QED
    BY <2>3, <2>5, <2>6 DEF Named, on_arg
<1> QED
  BY <1>1, <1>2

LEMMA EndRunKeeps ==
  ASSUME NEW p \in Parsers, NEW q, q = EndRun(p)
  PROVE  /\ q.got = p.got /\ q.start = p.start
         /\ Len(q.args) <= Len(p.args) + 1
         /\ p.run = << >> => q.args = p.args
<1>1. Len(p.args) \in Nat /\ p.args \in Seq(Texts)
  BY DEF Parsers
<1>2. CASE p.run = << >> \/ p.state = "error"
  BY <1>1, <1>2 DEF EndRun
<1>3. CASE p.run # << >> /\ p.state # "error"
  <2>1. PICK e \in Parsers, token \in Tokens :
          /\ q = Parse(e, token) /\ e.got = p.got /\ e.start = p.start /\ e.args = p.args
          /\ token.is \in {"AT", "ATCMD", "OK", "ERROR", "TXT", "TXTARG"}
    <3>1. CASE p.start = "INITIAL"
      <4>1. PICK e, token : e = [p EXCEPT !.run = << >>] /\ token = Word(p.run)
        OBVIOUS
      <4>2. e \in Parsers /\ e.start = p.start /\ e.args = p.args /\ e.got = p.got
        BY <4>1, NoText DEF Parsers
      <4>3. q = Parse(e, token)
        BY <1>3, <3>1, <4>1, RunEnds
      <4>4. token \in Tokens /\ token.is \in {"AT", "ATCMD", "OK", "ERROR", "TXT"}
        <5>1. p.run \in Texts
          BY DEF Parsers
        <5> QED
          BY <1>3, <4>1, <5>1, WordTyped, WordFields
      <4> QED
        BY <4>2, <4>3, <4>4
    <3>2. CASE p.start = "ESC"
      <4>1. PICK e, token : /\ e = [p EXCEPT !.run = << >>, !.flexmark = TRUE]
                            /\ token = Token("TXTARG", p.run)
        OBVIOUS
      <4>2. e \in Parsers /\ e.start = p.start /\ e.args = p.args /\ e.got = p.got
        BY <4>1, NoText DEF Parsers
      <4>3. q = Parse(e, token)
        BY <1>3, <3>2, <4>1, RunEnds
      <4>4. token \in Tokens /\ token.is = "TXTARG"
        <5>1. p.run \in Texts /\ "TXTARG" \in Tags
          BY DEF Parsers, Tags
        <5> QED
          BY <4>1, <5>1, TokenTyped, TokenFields
      <4> QED
        BY <4>2, <4>3, <4>4
    <3> QED
      BY <3>1, <3>2 DEF Parsers
  <2>2. /\ q.got = p.got /\ q.start = p.start
        /\ q.args = p.args \/ q.args = Append(p.args, token.text)
    BY <2>1, ParseWord
  <2>3. token.text \in Texts
    BY DEF Tokens
  <2>4. Len(Append(p.args, token.text)) = Len(p.args) + 1
    BY <1>1, <2>3
  <2> QED
    BY <1>1, <1>3, <2>2, <2>4
<1> QED
  BY <1>2, <1>3

\* How many arguments there are partway.
FewArgs(p) == Len(p.args) <= 2 /\ (p.run # << >> => Len(p.args) <= 1)

LEMMA FewWhen ==
  ASSUME NEW p, NEW state, NEW run, On(p, state, run, << >>) \/ In(p, state, run, << >>)
  PROVE  FewArgs(p)
<1>1. Len(p.args) = 0
  BY DEF On, In
<1> QED
  BY <1>1 DEF FewArgs

LEMMA FewWhenOne ==
  ASSUME NEW p, NEW state, NEW run, NEW u, On(p, state, run, <<u>>) \/ In(p, state, run, <<u>>)
  PROVE  FewArgs(p)
<1>1. Len(p.args) = 1
  BY DEF On, In
<1> QED
  BY <1>1 DEF FewArgs

LEMMA FewWhenTwo ==
  ASSUME NEW p, NEW state, NEW u, NEW v, On(p, state, << >>, <<u, v>>)
  PROVE  FewArgs(p)
<1>1. Len(p.args) = 2 /\ p.run = << >>
  BY DEF On
<1> QED
  BY <1>1 DEF FewArgs

LEMMA PartwayFew ==
  ASSUME NEW p, NEW l \in Kinds, NEW o, Partway(p, l, o)
  PROVE  FewArgs(p)
<1>1. CASE Begins(p, l, o)
  BY <1>1, FewWhen DEF Begins
<1>2. CASE Ends(p, l, o)
  <2>1. On(p, "endcr", << >>, Gives[l].args)
    BY <1>2 DEF Ends
  <2>2. CASE l \in {"response", "inactive"}
    <3>1. PICK u, v : Gives[l].args = <<u, v>>
      BY <2>2, GivesOf
    <3> QED
      BY <2>1, <3>1, FewWhenTwo
  <2>3. CASE l = "quoted"
    BY <2>1, <2>3, GivesOf, FewWhenTwo
  <2>4. CASE l \in {"nw3", "nw5", "cme", "echo"}
    BY <2>1, <2>4, GivesOf, FewWhenOne
  <2>5. CASE l \in {"ok", "error", "ate1"}
    BY <2>1, <2>5, GivesOf, FewWhen
  <2> QED
    BY <1>2, <2>2, <2>3, <2>4, <2>5 DEF Ends, Kinds
<1>3. CASE InFinal(p, l, o)
  BY <1>3, FewWhen DEF InFinal
<1>4. CASE InName(p, l, o)
  BY <1>4, FewWhen DEF InName
<1>5. CASE InArgs(p, l, o)
  <2>1. ASSUME NEW first, InNumbers(p, l, first, o) PROVE FewArgs(p)
    BY <2>1, FewWhen, FewWhenOne DEF InNumbers
  <2>2. ASSUME InQuoted(p, o) PROVE FewArgs(p)
    <3>1. CASE o = 12 /\ On(p, "arg", << >>, << <<"a">>, NULL >>)
      BY <3>1, FewWhenTwo
    <3>2. CASE o # 12
      BY <2>2, <3>2, FewWhen, FewWhenOne DEF InQuoted
    <3> QED
      BY <2>2, <3>1, <3>2 DEF InQuoted
  <2>3. ASSUME InDash(p, o) PROVE FewArgs(p)
    BY <2>3, FewWhen, FewWhenOne DEF InDash
  <2> QED
    BY <1>5, <2>1, <2>2, <2>3 DEF InArgs
<1>6. CASE InEcho(p, o)
  BY <1>6, FewWhen, FewWhenOne DEF InEcho
<1>7. CASE InAte1(p, o)
  BY <1>7, FewWhen DEF InAte1
<1> QED
  BY <1>1, <1>2, <1>3, <1>4, <1>5, <1>6, <1>7, Zenon DEF Partway

\* Partway it is inside a quotation only in a line with a quote.
LEMMA PartwayQuoted ==
  ASSUME NEW p, NEW l \in Kinds, NEW o, Partway(p, l, o), p.start = "ESC"
  PROVE  Quote \in ToSet(Text[l])
<1>0. \A state, run, as : ~On(p, state, run, as)
  BY DEF On
<1>1. ~Begins(p, l, o) /\ ~Ends(p, l, o) /\ ~InFinal(p, l, o) /\ ~InName(p, l, o) /\ ~InAte1(p, o)
  BY <1>0 DEF Begins, Ends, InFinal, InName, InAte1
<1>2. \A first : ~InNumbers(p, l, first, o)
  BY <1>0 DEF InNumbers
<1>3. l \in {"quoted", "dash", "echo"}
  BY <1>1, <1>2, Zenon DEF Partway, InArgs
<1>4. \E i \in 1..Len(Text[l]) : Text[l][i] = Quote
  <2>1. Text["quoted"][7] = Quote /\ 7 \in 1..Len(Text["quoted"])
    BY TextOf DEF Reads
  <2>2. Text["dash"][6] = Quote /\ 6 \in 1..Len(Text["dash"])
    BY TextOf DEF Reads
  <2>3. Text["echo"][6] = Quote /\ 6 \in 1..Len(Text["echo"])
    BY TextOf DEF Reads
  <2> QED
    BY <1>3, <2>1, <2>2, <2>3
<1>5. Text[l] \in Seq(Chars)
  BY CharsOfText
<1> QED
  BY <1>4, <1>5 DEF ToSet

\* What was called back was meant, and by so many lines.
AsMeant(s) == \A j \in DOMAIN s : \E k \in DOMAIN sent : s[j] = [cb |-> Gives[sent[k]], at |-> End(k)]
Room(x, n) == \E m \in 0..Len(sent) : End(m) <= x /\ n <= m

\* Between two transfers.
ParserInv ==
  /\ pos = 0 \/ pos \in cuts
  /\ AsMeant(handled) /\ Room(pos, Len(handled))
  /\ start = "ESC" => Excuse
  /\ Len(args) <= 2

\* In a transfer.
FromStart == start = "INITIAL" /\ \E k \in 0..Len(sent) : pos = End(k)
LostInDash(x) ==
  \E k \in 1..Len(sent) : sent[k] = "dash" /\ pos <= End(k - 1) /\ End(k - 1) < x

Track(p, x) ==
  /\ AsMeant(p.got) /\ Room(x, Len(handled) + Len(p.got))
  /\ \/ FromStart /\ Going(p, x)
     \/ Lost(p, x) /\ (FromStart => LostInDash(x))

LEMMA TrackBegins ==
  ASSUME ScannerInv, ParserInv
  PROVE  Track(Parser, pos)
<1>1. /\ Parser.start = start /\ Parser.state = "line" /\ Parser.run = << >> /\ Parser.args = << >>
      /\ Parser.got = << >> /\ Parser.at = pos
  BY DEF Parser
<1>2. sent \in Seq(Kinds) /\ pos \in Nat /\ pos <= Len(Stream) /\ start \in {"INITIAL", "ESC"}
  <2>1. Len(Stream) \in Nat
    BY StreamTyped DEF ScannerInv
  <2> QED
    BY <1>1, <2>1 DEF ScannerInv, Parsers
<1>3. AsMeant(Parser.got) /\ Room(pos, Len(handled) + Len(Parser.got))
  <2>1. Len(handled) \in Nat /\ Len(<< >>) = 0 /\ DOMAIN << >> = {}
    BY DEF ScannerInv
  <2>2. Len(handled) + Len(Parser.got) = Len(handled)
    BY <1>1, <2>1
  <2> QED
    BY <1>1, <2>1, <2>2 DEF AsMeant, ParserInv
<1>4. CASE FromStart
  <2>1. HeardTo(Parser, pos)
    <3>1. ASSUME NEW k \in LinesIn(pos, pos) PROVE FALSE
      <4>1. k \in 0..Len(sent) /\ pos < End(k) /\ End(k) <= pos
        BY <1>2 DEF LinesIn
      <4>2. End(k) \in Nat
        BY <1>2, <4>1, LineEnds
      <4> QED
        BY <1>2, <4>1, <4>2
    <3> QED
      BY <3>1 DEF HeardTo
  <2>2. Following(Parser, pos)
    BY <1>1, <1>4, Zenon DEF Following, FromStart, On
  <2> QED
    BY <1>1, <1>3, <1>4, <2>1, <2>2 DEF Track, Going
<1>5. CASE ~FromStart
  <2>1. Len(Parser.args) <= 2
    BY <1>1
  <2>2. CASE start = "ESC"
    <3>1. LostQuoted(Parser)
      BY <1>1, <2>2 DEF LostQuoted, ParserInv
    <3> QED
      BY <1>3, <1>5, <2>1, <3>1 DEF Track, Lost
  <2>3. CASE start = "INITIAL"
    <3>1. \A k \in 0..Len(sent) : pos # End(k)
      BY <1>5, <2>3 DEF FromStart
    <3>2. pos \in cuts /\ pos < Len(Stream)
      <4>1. 0 \in 0..Len(sent) /\ Len(sent) \in 0..Len(sent) /\ End(0) = 0 /\ End(Len(sent)) = Len(Stream)
        BY <1>2, LineEnds
      <4>2. pos # 0 /\ pos # Len(Stream) /\ Len(Stream) \in Nat
        BY <1>2, <3>1, <4>1, StreamTyped
      <4> QED
        BY <1>2, <4>2 DEF ParserInv
    <3>3. PICK k \in 1..Len(sent) : End(k - 1) <= pos /\ pos < End(k)
      BY <1>2, <3>2, LineAt
    <3>4. InLine(k, pos)
      <4>1. k - 1 \in 0..Len(sent)
        BY <1>2
      <4>2. End(k - 1) \in Nat /\ End(k - 1) # pos
        BY <1>2, <3>1, <4>1, LineEnds
      <4> QED
        BY <1>2, <3>3, <4>2 DEF InLine
    <3>5. IsCut(k)
      BY <3>2, <3>4 DEF IsCut, InLine
    <3>6. LostInLine(Parser, pos)
      BY <1>1, <3>4, <3>5 DEF LostInLine, Wordless
    <3> QED
      BY <1>1, <1>3, <1>5, <2>1, <2>3, <3>6 DEF Track, Lost
  <2> QED
    BY <1>2, <2>2, <2>3
<1> QED
  BY <1>4, <1>5

\* A callback more.
LEMMA RoomForOne ==
  ASSUME sent \in Seq(Kinds), NEW x \in Nat, NEW n \in Nat, Room(x, n),
         NEW k \in 1..Len(sent), End(k - 1) <= x, x + 1 = End(k)
  PROVE  Room(x + 1, n + 1)
<1>1. PICK m \in 0..Len(sent) : End(m) <= x /\ n <= m
  BY DEF Room
<1>2. /\ k - 1 \in 0..Len(sent) /\ k \in 0..Len(sent) /\ k \in Nat /\ m \in Nat
      /\ End(k - 1) \in Nat /\ End(k) \in Nat /\ End(m) \in Nat
  <2>1. k - 1 \in 0..Len(sent) /\ k \in 0..Len(sent) /\ k \in Nat /\ m \in Nat
    OBVIOUS
  <2> QED
    BY <2>1, LineEnds
<1>3. m <= k - 1
  <2>1. x < End(k)
    BY <1>2
  <2> QED
    BY <1>1, <2>1, OneLine
<1>4. n + 1 <= k
  BY <1>1, <1>2, <1>3
<1> QED
  BY <1>2, <1>4 DEF Room

LEMMA AsMeantOneMore ==
  ASSUME NEW S, NEW s \in Seq(S), AsMeant(s), NEW k \in DOMAIN sent,
         NEW t, t = Append(s, [cb |-> Gives[sent[k]], at |-> End(k)])
  PROVE  AsMeant(t)
<1>1. PICK e : e = [cb |-> Gives[sent[k]], at |-> End(k)]
  OBVIOUS
<1>2. PICK n \in Nat : n = Len(s)
  OBVIOUS
<1>3. DOMAIN s = 1..n /\ DOMAIN t = 1..(n + 1) /\ t[n + 1] = e /\ \A j \in 1..n : t[j] = s[j]
  BY <1>1, <1>2, AppendProperties
<1>4. ASSUME NEW j \in DOMAIN t PROVE \E m \in DOMAIN sent : t[j] = [cb |-> Gives[sent[m]], at |-> End(m)]
  <2>1. CASE j = n + 1
    BY <1>1, <1>3, <2>1
  <2>2. CASE j # n + 1
    <3>1. j \in DOMAIN s /\ t[j] = s[j]
      BY <1>2, <1>3, <2>2
    <3> QED
      BY <3>1 DEF AsMeant
  <2> QED
    BY <2>1, <2>2
<1> QED
  BY <1>4 DEF AsMeant

LEMMA TrackGoesOn ==
  ASSUME sent \in Seq(Kinds), Len(handled) \in Nat, pos \in Nat, NEW p \in Parsers,
         NEW x \in Nat, pos <= x, x < Len(Stream), Track(p, x), NEW q, q = Scan(p, Stream[x + 1])
  PROVE  Track(q, x + 1)
<1>1. PICK n \in Nat : n = Len(p.got)
  BY DEF Parsers
<1>2. AsMeant(p.got) /\ Room(x, Len(handled) + n)
  BY <1>1 DEF Track
<1>3. Room(x + 1, Len(handled) + n)
  <2>1. PICK m \in 0..Len(sent) : End(m) <= x /\ Len(handled) + n <= m
    BY <1>2 DEF Room
  <2>2. End(m) \in Nat
    BY LineEnds
  <2>3. End(m) <= x + 1
    BY <2>1, <2>2
  <2> QED
    BY <2>1, <2>3 DEF Room
<1>4. ASSUME LostInDash(x) PROVE LostInDash(x + 1)
  <2>1. PICK k \in 1..Len(sent) : sent[k] = "dash" /\ pos <= End(k - 1) /\ End(k - 1) < x
    BY <1>4 DEF LostInDash
  <2>2. End(k - 1) \in Nat
    <3>1. k - 1 \in 0..Len(sent)
      OBVIOUS
    <3> QED
      BY <3>1, LineEnds
  <2>3. End(k - 1) < x + 1
    BY <2>1, <2>2
  <2> QED
    BY <2>1, <2>3 DEF LostInDash
<1>5. CASE Lost(p, x) /\ (FromStart => LostInDash(x))
  <2>1. Lost(q, x + 1) /\ q.got = p.got
    BY <1>5, LostGoesOn
  <2> QED
    BY <1>1, <1>2, <1>3, <1>4, <1>5, <2>1 DEF Track
<1>6. CASE FromStart /\ Going(p, x)
  <2>1. CASE Going(q, x + 1) /\ q.got = p.got
    BY <1>1, <1>2, <1>3, <1>6, <2>1 DEF Track
  <2>2. ASSUME Going(q, x + 1), NEW k \in 1..Len(sent), CallsBack(p, q, x, k)
        PROVE  Track(q, x + 1)
    <3>1. /\ End(k - 1) <= x /\ x + 1 = End(k)
          /\ q.got = Append(p.got, [cb |-> Gives[sent[k]], at |-> End(k)])
      BY <2>2 DEF CallsBack
    <3>2. AsMeant(q.got)
      <4>1. p.got \in Seq(Called) /\ k \in DOMAIN sent
        BY DEF Parsers
      <4> QED
        BY <1>2, <3>1, <4>1, AsMeantOneMore
    <3>3. Len(q.got) = n + 1
      <4>1. p.got \in Seq(Called)
        BY DEF Parsers
      <4>2. PICK e : q.got = Append(p.got, e)
        BY <3>1
      <4> QED
        BY <1>1, <4>1, <4>2, AppendProperties
    <3>4. Room(x + 1, (Len(handled) + n) + 1)
      BY <1>2, <3>1, RoomForOne
    <3>5. Len(handled) + Len(q.got) = (Len(handled) + n) + 1
      BY <3>3
    <3> QED
      BY <1>6, <2>2, <3>2, <3>4, <3>5 DEF Track
  <2>3. ASSUME Lost(q, x + 1), q.got = p.got,
               NEW k \in 1..Len(sent), sent[k] = "dash", End(k - 1) <= x, x < End(k)
        PROVE  Track(q, x + 1)
    <3>1. End(k - 1) < x + 1
      <4>1. k - 1 \in 0..Len(sent)
        OBVIOUS
      <4>2. End(k - 1) \in Nat
        BY <4>1, LineEnds
      <4> QED
        BY <2>3, <4>2
    <3>2. pos <= End(k - 1)
      <4>1. PICK m \in 0..Len(sent) : pos = End(m)
        BY <1>6 DEF FromStart
      <4>2. End(m) <= x => End(m) <= End(k - 1)
        BY <2>3, OneLine
      <4> QED
        BY <4>1, <4>2
    <3>3. LostInDash(x + 1)
      BY <2>3, <3>1, <3>2 DEF LostInDash
    <3> QED
      BY <1>1, <1>2, <1>3, <2>3, <3>3 DEF Track
  <2> QED
    BY <1>6, <2>1, <2>2, <2>3, GoingGoesOn
<1> QED
  BY <1>5, <1>6 DEF Track

\* Character by character.
LEMMA TransferTracked ==
  ASSUME ScannerInv, ParserInv, NEW n \in 1..(Len(Stream) - pos),
         NEW text, text = SubSeq(Stream, pos + 1, pos + n), NEW st, Scanned(text, st)
  PROVE  st[n] \in Parsers /\ Track(st[n], pos + n)
<1>1. /\ sent \in Seq(Kinds) /\ Len(handled) \in Nat /\ Stream \in Seq(Chars) /\ Len(Stream) \in Nat
      /\ pos \in Nat /\ n \in Nat /\ 1 <= n /\ pos + n <= Len(Stream) /\ Parser \in Parsers
      /\ text \in Seq(Chars) /\ Len(text) = n
  BY TransferOf, StreamTyped DEF ScannerInv
<1>2. ASSUME NEW i \in 1..n PROVE text[i] = Stream[pos + i]
  BY CharOfTransfer
<1> DEFINE T == {j \in 0..n : ~Track(st[j], pos + j)}
<1>3. ASSUME T # {} PROVE FALSE
  <2>1. T \in SUBSET Nat
    BY <1>1
  <2>2. PICK j \in T : \A i \in T : j <= i
    <3> HIDE DEF T
    <3> QED
      BY <1>3, <2>1, LeastNumber
  <2>3. j # 0
    <3>1. st[0] = Parser /\ pos + 0 = pos
      BY <1>1 DEF Scanned
    <3>2. Track(st[0], pos + 0)
      BY <3>1, TrackBegins
    <3> QED
      BY <3>2
  <2>4. PICK i \in 0..n : i = j - 1 /\ i \notin T
    <3>1. j \in Nat /\ j <= n /\ j # 0
      BY <1>1, <2>3
    <3>2. j - 1 \in 0..n /\ ~(j <= j - 1)
      BY <1>1, <3>1
    <3> QED
      BY <2>2, <3>2
  <2>5. Track(st[i], pos + i)
    BY <2>4
  <2>6. j \in 1..n /\ st[j] = Scan(st[i], Stream[(pos + i) + 1])
    <3>1. j \in 1..n /\ (pos + i) + 1 = pos + j
      BY <1>1, <2>3, <2>4
    <3>2. st[j] = Scan(st[i], text[j])
      BY <1>1, <2>4, <3>1 DEF Scanned
    <3> QED
      BY <1>2, <3>1, <3>2
  <2>7. st[i] \in Parsers
    BY <1>1, ScannedTyped
  <2>8. pos + i \in Nat /\ pos <= pos + i /\ pos + i < Len(Stream) /\ (pos + i) + 1 = pos + j
    BY <1>1, <2>4, <2>6
  <2>9. Track(st[j], (pos + i) + 1)
    BY <1>1, <2>5, <2>6, <2>7, <2>8, TrackGoesOn
  <2> QED
    BY <2>8, <2>9
<1>4. st[n] \in Parsers
  <2>1. n \in 0..Len(text)
    BY <1>1
  <2> QED
    BY <1>1, <2>1, ScannedTyped
<1> QED
  BY SMTT(60), <1>1, <1>3, <1>4

\* What a transfer leaves behind.
LEMMA TransferLeaves ==
  ASSUME ScannerInv, ParserInv, NEW n \in 1..(Len(Stream) - pos),
         NEW x, x = pos + n, NEW q, q = at_parse(SubSeq(Stream, pos + 1, pos + n))
  PROVE  /\ AsMeant(q.got) /\ Room(x, Len(handled) + Len(q.got)) /\ Len(q.args) <= 2
         /\ q.start = "ESC" =>
              Excuse \/ \E k \in 1..Len(sent) : InLine(k, x) /\ Quote \in ToSet(Text[sent[k]])
         /\ FromStart /\ (\E k \in 0..Len(sent) : x = End(k)) /\ (\A k \in LinesIn(pos, x) : sent[k] # "dash")
              => HeardTo(q, x)
<1>1. PICK text : text = SubSeq(Stream, pos + 1, pos + n)
  OBVIOUS
<1>2. text \in Seq(Chars) /\ Len(text) = n /\ sent \in Seq(Kinds) /\ x \in Nat
  <2>1. pos \in Nat /\ Len(Stream) \in Nat
    BY StreamTyped DEF ScannerInv
  <2>2. x \in Nat
    BY <2>1
  <2>3. text \in Seq(Chars) /\ Len(text) = n
    BY <1>1, TransferOf
  <2> QED
    BY <2>2, <2>3 DEF ScannerInv
<1>3. PICK st : Scanned(text, st) /\ q = EndRun(st[Len(text)])
  BY <1>1, <1>2, ScanStepwise
<1>4. PICK p \in Parsers : Track(p, x) /\ q = EndRun(p)
  BY <1>1, <1>2, <1>3, TransferTracked
<1>5. q.got = p.got /\ q.start = p.start
  BY <1>4, EndRunKeeps
<1>6. AsMeant(q.got) /\ Room(x, Len(handled) + Len(q.got))
  BY <1>4, <1>5 DEF Track
<1>7. CASE Lost(p, x) /\ (FromStart => LostInDash(x))
  <2>1. Len(q.args) <= 2 /\ (q.start = "ESC" => Excuse)
    BY <1>4, <1>7, LostEnds DEF Lost
  <2>2. ASSUME FromStart, NEW m \in 0..Len(sent), x = End(m), \A k \in LinesIn(pos, x) : sent[k] # "dash"
        PROVE  FALSE
    <3>1. PICK k \in 1..Len(sent) : sent[k] = "dash" /\ pos <= End(k - 1) /\ End(k - 1) < x
      BY <1>7, <2>2 DEF LostInDash
    <3>2. /\ k - 1 \in 0..Len(sent) /\ k \in 0..Len(sent) /\ k - 1 < k /\ k \in DOMAIN sent
          /\ k \in Nat /\ m \in Nat
      BY <1>2
    <3>3. End(k - 1) \in Nat /\ End(k) \in Nat /\ pos \in Nat
      <4>1. Len(Stream) \in Nat
        BY StreamTyped DEF ScannerInv
      <4> QED
        BY <1>2, <3>2, <4>1, LineEnds DEF ScannerInv
    <3>4. End(k - 1) < End(k)
      BY <1>2, <3>2, LaterEnds
    <3>5. ~(x < End(k))
      <4>1. ASSUME x < End(k) PROVE m = k - 1
        BY SMTT(60), <1>2, <2>2, <3>1, <3>3, <4>1, OneLine
      <4> QED
        BY <1>2, <2>2, <3>1, <3>3, <4>1
    <3>6. k \in LinesIn(pos, x)
      BY <1>2, <3>1, <3>2, <3>3, <3>4, <3>5 DEF LinesIn
    <3> QED
      BY <2>2, <3>1, <3>6
  <2> QED
    BY <1>6, <2>1, <2>2
<1>8. CASE FromStart /\ Going(p, x)
  <2>1. HeardTo(q, x)
    BY <1>5, <1>8 DEF Going, HeardTo
  <2>2. FewArgs(p) /\ (p.start = "ESC" =>
                         \E k \in 1..Len(sent) : InLine(k, x) /\ Quote \in ToSet(Text[sent[k]]))
    <3>1. CASE On(p, "line", << >>, << >>)
      BY <3>1, FewWhen DEF On
    <3>2. ASSUME NEW k \in 1..Len(sent), NEW o \in Nat, x = End(k - 1) + o, 0 < o,
                 o < Len(Text[sent[k]]), Partway(p, sent[k], o)
          PROVE  FewArgs(p) /\ (p.start = "ESC" => InLine(k, x) /\ Quote \in ToSet(Text[sent[k]]))
      <4>1. /\ End(k - 1) \in Nat /\ Len(Text[sent[k]]) \in Nat /\ sent[k] \in Kinds
            /\ End(k) = End(k - 1) + Len(Text[sent[k]])
        <5>1. k - 1 \in 0..Len(sent) /\ k \in 0..Len(sent) /\ sent[k] \in Kinds
          BY <1>2
        <5> QED
          BY <1>2, <5>1, LineEnds, LengthOfText
      <4>2. InLine(k, x)
        BY <3>2, <4>1 DEF InLine
      <4> QED
        BY <3>2, <4>1, <4>2, PartwayFew, PartwayQuoted
    <3> QED
      BY <1>8, <3>1, <3>2 DEF Going, Following
  <2>3. Len(q.args) <= 2
    <3>1. Len(p.args) \in Nat /\ q \in Parsers /\ Len(q.args) \in Nat
      <4>1. q \in Parsers
        BY <1>4, EndRunTyped
      <4> QED
        BY <4>1 DEF Parsers
    <3>2. /\ Len(p.args) <= 2 /\ (p.run # << >> => Len(p.args) <= 1)
          /\ Len(q.args) <= Len(p.args) + 1 /\ (p.run = << >> => q.args = p.args)
      BY <1>4, <2>2, EndRunKeeps DEF FewArgs
    <3> QED
      BY <3>1, <3>2
  <2> QED
    BY <1>5, <1>6, <2>1, <2>2, <2>3
<1> QED
  BY <1>4, <1>7, <1>8 DEF Track

LEMMA GivesFew == \A l \in Kinds : Len(Gives[l].args) <= 2
<1>1. Len(Gives["ok"].args) <= 2
  BY DEF Gives, Meant
<1>2. Len(Gives["error"].args) <= 2
  BY DEF Gives, Meant
<1>3. Len(Gives["response"].args) <= 2
  <2>1. PICK u, v : Gives["response"].args = <<u, v>>
    BY GivesOf
  <2> QED
    BY <2>1
<1>4. Len(Gives["quoted"].args) <= 2
  <2>1. PICK u, v : Gives["quoted"].args = <<u, v>>
    BY GivesOf
  <2> QED
    BY <2>1
<1>5. Len(Gives["dash"].args) <= 2
  BY DEF Gives, Meant
<1>6. Len(Gives["cme"].args) <= 2
  <2>1. PICK u : Gives["cme"].args = <<u>>
    BY GivesOf
  <2> QED
    BY <2>1
<1>7. Len(Gives["nw3"].args) <= 2
  BY DEF Gives, Meant
<1>8. Len(Gives["nw5"].args) <= 2
  <2>1. PICK u : Gives["nw5"].args = <<u>>
    BY GivesOf
  <2> QED
    BY <2>1
<1>9. Len(Gives["inactive"].args) <= 2
  BY DEF Gives, Meant
<1>10. Len(Gives["echo"].args) <= 2
  BY DEF Gives, Meant
<1>11. Len(Gives["ate1"].args) <= 2
  BY DEF Gives, Meant
<1> QED
  BY <1>1, <1>2, <1>3, <1>4, <1>5, <1>6, <1>7, <1>8, <1>9, <1>10, <1>11 DEF Kinds

LEMMA EndsStay == sent' = sent => \A k : End(k)' = End(k)
BY Zenon DEF End, Spelling, FoldLeft, MapThenFoldSet

\* A transfer, as its parts.
LEMMA TransferParts ==
  ASSUME NEW n, Transfer(n), NEW q, q = at_parse(SubSeq(Stream, pos + 1, pos + n))
  PROVE  /\ start' = q.start /\ args' = q.args /\ handled' = handled \o q.got
         /\ sent' = sent /\ pos' = pos + n /\ cuts' = cuts \cup {pos + n}
BY DEF Transfer, modem_response

\* The callbacks of two transfers.
LEMMA AsMeantBoth ==
  ASSUME NEW s \in Seq(Called), NEW t \in Seq(Called), AsMeant(s), AsMeant(t)
  PROVE  AsMeant(s \o t)
<1>1. PICK a \in Nat, b \in Nat : a = Len(s) /\ b = Len(t)
  OBVIOUS
<1>2. PICK u : u = s \o t
  OBVIOUS
<1>3. /\ DOMAIN s = 1..a /\ DOMAIN t = 1..b /\ DOMAIN u = 1..(a + b)
      /\ \A j \in 1..(a + b) : u[j] = IF j <= a THEN s[j] ELSE t[j - a]
  BY <1>1, <1>2, ConcatProperties
<1>4. ASSUME NEW j \in DOMAIN u PROVE \E k \in DOMAIN sent : u[j] = [cb |-> Gives[sent[k]], at |-> End(k)]
  <2>1. CASE j <= a
    <3>1. j \in DOMAIN s /\ u[j] = s[j]
      BY <1>1, <1>3, <2>1
    <3> QED
      BY <3>1 DEF AsMeant
  <2>2. CASE ~(j <= a)
    <3>1. PICK i \in DOMAIN t : u[j] = t[i]
      <4>1. j - a \in DOMAIN t /\ u[j] = t[j - a]
        BY <1>1, <1>3, <2>2
      <4> QED
        BY <4>1
    <3> QED
      BY <3>1 DEF AsMeant
  <2> QED
    BY <2>1, <2>2
<1> QED
  BY <1>2, <1>4 DEF AsMeant

LEMMA InitParser == Init => ParserInv
<1> SUFFICES ASSUME Init PROVE ParserInv
  OBVIOUS
<1>1. ScannerInv /\ sent \in Seq(Kinds)
  BY InitScanner DEF ScannerInv
<1>2. pos = 0 /\ handled = << >> /\ args = << >> /\ start = "INITIAL"
  BY DEF Init
<1>3. End(0) <= pos /\ 0 \in 0..Len(sent)
  BY <1>1, <1>2, LineEnds
<1>4. Room(pos, Len(handled))
  BY <1>2, <1>3 DEF Room
<1>5. AsMeant(handled) /\ Len(args) <= 2
  BY <1>2 DEF AsMeant
<1> QED
  BY <1>2, <1>4, <1>5 DEF ParserInv

LEMMA NextParser == ScannerInv /\ ParserInv /\ [Next]_vars => ParserInv'
<1> SUFFICES ASSUME ScannerInv, ParserInv, [Next]_vars PROVE ParserInv'
  OBVIOUS
<1>1. ASSUME NEW n \in 1..(Len(Stream) - pos), Transfer(n) PROVE ParserInv'
  <2>1. PICK q, x : q = at_parse(SubSeq(Stream, pos + 1, pos + n)) /\ x = pos + n
    OBVIOUS
  <2>2. /\ start' = q.start /\ args' = q.args /\ handled' = handled \o q.got
        /\ sent' = sent /\ pos' = x /\ cuts' = cuts \cup {x}
    BY <1>1, <2>1, TransferParts
  <2>3. /\ AsMeant(q.got) /\ Room(x, Len(handled) + Len(q.got)) /\ Len(q.args) <= 2
        /\ q.start = "ESC" =>
             Excuse \/ \E k \in 1..Len(sent) : InLine(k, x) /\ Quote \in ToSet(Text[sent[k]])
    BY <2>1, TransferLeaves
  <2>4. q \in Parsers /\ handled \in Seq(Called) /\ sent \in Seq(Kinds)
    <3>1. SubSeq(Stream, pos + 1, pos + n) \in Seq(Chars)
      BY TransferOf
    <3> QED
      BY <2>1, <3>1, ParsedTyped DEF ScannerInv
  <2>5. \A k : End(k)' = End(k)
    BY <2>2, EndsStay
  <2>6. q.got \in Seq(Called)
    BY <2>4 DEF Parsers
  <2>7. AsMeant(handled)'
    <3>1. AsMeant(handled \o q.got)
      BY <2>3, <2>4, <2>6, AsMeantBoth DEF ParserInv
    <3> QED
      BY <2>2, <2>5, <3>1 DEF AsMeant
  <2>8. Room(pos, Len(handled))'
    <3>1. Len(handled \o q.got) = Len(handled) + Len(q.got)
      BY <2>4, <2>6, ConcatProperties
    <3>2. PICK m \in 0..Len(sent) : End(m) <= x /\ Len(handled') <= m
      BY <2>2, <2>3, <3>1 DEF Room
    <3> QED
      BY <2>2, <2>5, <3>2 DEF Room
  <2>9. \A k : IsCut(k) => IsCut(k)'
    BY <2>2, <2>5 DEF IsCut
  <2>10. start' = "ESC" => Excuse'
    <3>1. ASSUME Excuse PROVE Excuse'
      BY <2>2, <2>9, <3>1 DEF Excuse
    <3>2. ASSUME NEW k \in 1..Len(sent), InLine(k, x), Quote \in ToSet(Text[sent[k]]) PROVE Excuse'
      <4>1. IsCut(k)'
        BY <2>2, <2>5, <3>2 DEF IsCut, InLine
      <4>2. k \in DOMAIN sent
        BY <2>4
      <4> QED
        BY <2>2, <3>2, <4>1, <4>2 DEF Excuse
    <3> QED
      BY <2>2, <2>3, <3>1, <3>2
  <2>11. pos' \in cuts' /\ Len(args') <= 2
    BY <2>2, <2>3
  <2> QED
    BY <2>7, <2>8, <2>10, <2>11 DEF ParserInv
<1>2. CASE UNCHANGED vars
  <2>1. /\ sent' = sent /\ pos' = pos /\ cuts' = cuts /\ handled' = handled /\ start' = start /\ args' = args
    BY <1>2 DEF vars
  <2>2. \A k : End(k)' = End(k)
    BY <2>1, EndsStay
  <2>3. AsMeant(handled)' /\ Room(pos, Len(handled))'
    BY <2>1, <2>2 DEF ParserInv, AsMeant, Room
  <2>4. Excuse' = Excuse
    BY <2>1, <2>2 DEF Excuse, IsCut
  <2> QED
    BY <2>1, <2>3, <2>4 DEF ParserInv
<1> QED
  BY <1>1, <1>2 DEF Next

LEMMA ParserInvariant == Spec => [](ScannerInv /\ ParserInv)
BY InitScanner, NextScanner, InitParser, NextParser, PTL DEF Spec

\* Wherever the transfers end, no callback gets less, more or something else than its
\* line (atcmd.y:26-33, atcmd.c:107-132).
THEOREM HandledAsSentHolds == Spec => []HandledAsSent
<1>1. ParserInv => HandledAsSent
  <2>1. ASSUME ParserInv, NEW j \in DOMAIN handled
        PROVE  \E k \in DOMAIN sent : /\ handled[j].at = End(k)
                                      /\ handled[j].cb.type # "COMMAND" => handled[j].cb = Gives[sent[k]]
    <3>1. PICK k \in DOMAIN sent : handled[j] = [cb |-> Gives[sent[k]], at |-> End(k)]
      BY <2>1 DEF ParserInv, AsMeant
    <3> QED
      BY <3>1
  <2> QED
    BY <2>1 DEF HandledAsSent
<1> QED
  BY <1>1, ParserInvariant, PTL

\* narg never grows over more than one line (atcmd.c:88, atcmd.c:145).
THEOREM ArgsOfOneLineHolds == Spec => []ArgsOfOneLine
<1>1. ScannerInv /\ ParserInv => ArgsOfOneLine
  <2>1. ASSUME ScannerInv, ParserInv, NEW j \in DOMAIN handled
        PROVE  Len(handled[j].cb.args) <= 2
    <3>1. PICK k \in DOMAIN sent : handled[j] = [cb |-> Gives[sent[k]], at |-> End(k)]
      BY <2>1 DEF ParserInv, AsMeant
    <3>2. PICK l \in Kinds : l = sent[k]
      BY <2>1 DEF ScannerInv
    <3>3. Len(Gives[l].args) <= 2
      BY GivesFew
    <3>4. handled[j].cb = Gives[l]
      BY <3>1, <3>2
    <3> QED
      BY <3>3, <3>4
  <2> QED
    BY <2>1 DEF ArgsOfOneLine, ParserInv
<1> QED
  BY <1>1, ParserInvariant, PTL

\* The scanner is left inside a quotation only by a line with a quote that was cut, or
\* that has a character in its quotation the scanner has no rule for (atcmd.l:26).
THEOREM DeafOnlyByQuotationHolds == Spec => []DeafOnlyByQuotation
<1>1. ParserInv => DeafOnlyByQuotation
  BY DEF ParserInv, DeafOnlyByQuotation, Excuse
<1> QED
  BY <1>1, ParserInvariant, PTL

\* A transfer of whole lines, begun outside a quotation, calls back what each of them
\* gives (atcmd.y:23-33).
THEOREM HearsWholeLinesHolds == Spec => HearsWholeLines
<1> DEFINE Hears ==
      /\ start = "INITIAL"
      /\ {pos, pos'} \subseteq {0} \cup {End(k) : k \in DOMAIN sent}
      /\ \A k \in LinesIn(pos, pos') : sent[k] # "dash"
      => \A k \in LinesIn(pos, pos') :
           \E j \in DOMAIN handled' : handled'[j] = [cb |-> Gives[sent[k]], at |-> End(k)]
<1>1. ASSUME ScannerInv, ParserInv, Next PROVE Hears
  <2>1. PICK n \in 1..(Len(Stream) - pos) : Transfer(n)
    BY <1>1 DEF Next
  <2>2. PICK q, x : q = at_parse(SubSeq(Stream, pos + 1, pos + n)) /\ x = pos + n
    OBVIOUS
  <2>3. handled' = handled \o q.got /\ pos' = x
    BY <2>1, <2>2, TransferParts
  <2>4. q \in Parsers /\ handled \in Seq(Called) /\ sent \in Seq(Kinds)
    <3>1. SubSeq(Stream, pos + 1, pos + n) \in Seq(Chars)
      BY <1>1, TransferOf
    <3> QED
      BY <1>1, <2>2, <3>1, ParsedTyped DEF ScannerInv
  <2>5. ASSUME start = "INITIAL", {pos, x} \subseteq {0} \cup {End(k) : k \in DOMAIN sent},
               \A k \in LinesIn(pos, x) : sent[k] # "dash", NEW k \in LinesIn(pos, x)
        PROVE  \E j \in DOMAIN handled' : handled'[j] = [cb |-> Gives[sent[k]], at |-> End(k)]
    <3>1. \A y \in {0} \cup {End(m) : m \in DOMAIN sent} : \E m \in 0..Len(sent) : y = End(m)
      <4>1. 0 \in 0..Len(sent) /\ End(0) = 0 /\ \A m \in DOMAIN sent : m \in 0..Len(sent)
        BY <2>4, LineEnds
      <4> QED
        BY <4>1
    <3>2. FromStart /\ \E m \in 0..Len(sent) : x = End(m)
      BY <2>5, <3>1 DEF FromStart
    <3>3. HeardTo(q, x)
      BY <1>1, <2>2, <2>5, <3>2, TransferLeaves
    <3>4. PICK j \in DOMAIN q.got : q.got[j] = [cb |-> Gives[sent[k]], at |-> End(k)]
      BY <2>5, <3>3 DEF HeardTo
    <3>5. PICK a \in Nat, b \in Nat : a = Len(handled) /\ b = Len(q.got)
      BY <2>4 DEF Parsers
    <3>6. /\ DOMAIN q.got = 1..b /\ DOMAIN handled' = 1..(a + b)
          /\ \A i \in 1..(a + b) : handled'[i] = IF i <= a THEN handled[i] ELSE q.got[i - a]
      BY <2>3, <2>4, <3>5, ConcatProperties DEF Parsers
    <3>7. a + j \in 1..(a + b) /\ ~(a + j <= a) /\ (a + j) - a = j
      BY <3>4, <3>5, <3>6
    <3>8. a + j \in DOMAIN handled' /\ handled'[a + j] = q.got[j]
      BY <3>6, <3>7
    <3> QED
      BY <3>4, <3>8
  <2> QED
    BY <2>3, <2>5
<1>2. ScannerInv /\ ParserInv /\ [Next]_vars => [Hears]_vars
  BY <1>1
<1> QED
  BY <1>2, ParserInvariant, PTL DEF Spec, HearsWholeLines

-----------------------------------------------------------------------------
(* The numbers of modem_response.                                          *)

LEMMA DigitIs ==
  /\ DOMAIN Digit = {"0", "1", "3", "5"} /\ \A d \in DOMAIN Digit : Digit[d] \in Nat
  /\ Digit["3"] = 3 /\ Digit["5"] = 5
BY DEF Digit

Readings == [value : Nat, end : BOOLEAN]

LEMMA ReadingTyped == ASSUME NEW acc \in Readings, NEW ch PROVE Reading(acc, ch) \in Readings
<1>1. CASE acc.end \/ ch \notin DOMAIN Digit
  BY <1>1 DEF Reading, Readings
<1>2. CASE ~(acc.end \/ ch \notin DOMAIN Digit)
  <2>1. PICK d \in Nat : d = Digit[ch]
    BY <1>2, DigitIs
  <2>2. acc.value \in Nat /\ 10 * acc.value + d \in Nat
    BY DEF Readings
  <2>3. Reading(acc, ch) = [acc EXCEPT !.value = 10 * acc.value + d]
    BY <1>2, <2>1 DEF Reading
  <2> QED
    BY <2>2, <2>3 DEF Readings
<1> QED
  BY <1>1, <1>2

LEMMA AtoiTyped == ASSUME NEW S, NEW text \in Seq(S) PROVE atoi(text) \in Nat
<1>1. PICK st : Read(text, st) /\ atoi(text) = st[Len(text)].value
  BY ReadStepwise
<1>2. Len(text) \in Nat
  OBVIOUS
<1> DEFINE T == {j \in 0..Len(text) : st[j] \notin Readings}
<1>3. ASSUME T # {} PROVE FALSE
  <2>1. T \in SUBSET Nat
    BY <1>2
  <2>2. PICK j \in T : \A i \in T : j <= i
    BY <1>3, <2>1, LeastNumber
  <2>3. j # 0
    <3>1. [value |-> 0, end |-> FALSE] \in Readings
      BY DEF Readings
    <3> QED
      BY <1>1, <3>1 DEF Read
  <2>4. PICK i \in 0..Len(text) : i = j - 1 /\ i \notin T
    <3>1. j \in Nat /\ j <= Len(text) /\ j # 0
      BY <1>2, <2>3
    <3>2. j - 1 \in 0..Len(text) /\ ~(j <= j - 1)
      BY <1>2, <3>1
    <3> QED
      BY <2>2, <3>2
  <2>5. j \in 1..Len(text)
    BY <1>2, <2>3
  <2>6. st[j] = Reading(st[i], text[j])
    BY <1>1, <2>4, <2>5 DEF Read
  <2> QED
    BY <2>4, <2>6, ReadingTyped
<1>4. st[Len(text)] \in Readings
  BY <1>2, <1>3
<1> QED
  BY <1>1, <1>4 DEF Readings

\* A digit in front of a character that is none.
LEMMA AtoiDigit ==
  ASSUME NEW S, NEW text \in Seq(S), Len(text) >= 2, NEW d \in {"3", "5"}, text[1] = d, text[2] = "CR"
  PROVE  atoi(text) = Digit[d]
<1>1. PICK st : Read(text, st) /\ atoi(text) = st[Len(text)].value
  BY ReadStepwise
<1>2. Len(text) \in Nat /\ 1 \in 1..Len(text) /\ 2 \in 1..Len(text)
  OBVIOUS
<1>3. PICK v \in Nat : v = Digit[d]
  BY DigitIs
<1>4. st[1].value = v /\ st[1].end = FALSE /\ DOMAIN st[1] = {"value", "end"}
  <2>1. st[0] = [value |-> 0, end |-> FALSE] /\ st[1] = Reading(st[0], d)
    <3>1. 1 - 1 = 0
      OBVIOUS
    <3> QED
      BY <1>1, <1>2, <3>1 DEF Read
  <2>2. 10 * 0 + v = v /\ d \in DOMAIN Digit
    BY DigitIs
  <2>3. Reading(st[0], d) = [st[0] EXCEPT !.value = 10 * 0 + v]
    BY <1>3, <2>1, <2>2 DEF Reading
  <2> QED
    BY <2>1, <2>2, <2>3
<1> DEFINE Done(acc) == acc.value = v /\ acc.end = TRUE /\ DOMAIN acc = {"value", "end"}
<1>5. Done(st[2])
  <2>1. st[2] = Reading(st[1], "CR") /\ "CR" \notin DOMAIN Digit
    <3>1. 2 - 1 = 1
      OBVIOUS
    <3> QED
      BY <1>1, <1>2, <3>1, DigitIs DEF Read
  <2>2. st[2] = [st[1] EXCEPT !.end = TRUE]
    BY <2>1 DEF Reading
  <2> QED
    BY <1>4, <2>2
<1>6. ASSUME NEW acc, Done(acc), NEW ch PROVE Done(Reading(acc, ch))
  <2>1. Reading(acc, ch) = [acc EXCEPT !.end = TRUE]
    BY <1>6 DEF Reading
  <2> QED
    BY <1>6, <2>1
<1> HIDE DEF Done
<1> DEFINE T == {j \in 2..Len(text) : ~Done(st[j])}
<1>7. ASSUME T # {} PROVE FALSE
  <2>1. T \in SUBSET Nat
    BY <1>2
  <2>2. PICK j \in T : \A i \in T : j <= i
    BY <1>7, <2>1, LeastNumber
  <2>3. j # 2
    BY <1>5
  <2>4. PICK i \in 2..Len(text) : i = j - 1 /\ i \notin T
    <3>1. j \in Nat /\ j <= Len(text) /\ 2 <= j /\ j # 2
      BY <1>2, <2>3
    <3>2. j - 1 \in 2..Len(text) /\ ~(j <= j - 1)
      BY <1>2, <3>1
    <3> QED
      BY <2>2, <3>2
  <2>5. st[j] = Reading(st[i], text[j])
    <3>1. j \in 1..Len(text)
      BY <1>2
    <3> QED
      BY <1>1, <2>4, <3>1 DEF Read
  <2> QED
    BY <1>6, <2>4, <2>5
<1>8. Done(st[Len(text)])
  BY <1>2, <1>7
<1> QED
  BY <1>1, <1>3, <1>8 DEF Done

\* Numbers that are counted by 1..n have a bound, and the largest of them.
LEMMA Bounded ==
  ASSUME NEW n \in Nat, NEW v \in [1..n -> Nat]
  PROVE  \E b \in Nat : \A i \in 1..n : v[i] <= b
<1> DEFINE T == {m \in 0..n : ~\E b \in Nat : \A i \in 1..m : v[i] <= b}
<1>1. ASSUME T # {} PROVE FALSE
  <2>1. T \in SUBSET Nat
    OBVIOUS
  <2>2. PICK m \in T : \A i \in T : m <= i
    BY <1>1, <2>1, LeastNumber
  <2>3. m # 0
    <3>1. \A i \in 1..0 : v[i] <= 0
      OBVIOUS
    <3>2. 0 \in Nat
      OBVIOUS
    <3> QED
      BY <3>1, <3>2
  <2>4. PICK l \in 0..n : l = m - 1 /\ l \notin T
    <3>1. m \in Nat /\ m <= n /\ m # 0
      BY <2>3
    <3>2. m - 1 \in 0..n /\ ~(m <= m - 1)
      BY <3>1
    <3> QED
      BY <2>2, <3>2
  <2>5. PICK b \in Nat : \A i \in 1..l : v[i] <= b
    BY <2>4
  <2>6. v[m] \in Nat
    BY <2>3
  <2>7. PICK d \in Nat : b <= d /\ v[m] <= d
    <3>1. b <= b + v[m] /\ v[m] <= b + v[m] /\ b + v[m] \in Nat
      BY <2>6
    <3> QED
      BY <3>1
  <2>8. ASSUME NEW i \in 1..m PROVE v[i] <= d
    <3>1. CASE i = m
      BY <2>7, <3>1
    <3>2. CASE i # m
      <4>1. i \in 1..l /\ v[i] \in Nat
        BY <2>4, <3>2
      <4>2. v[i] <= b
        BY <2>5, <4>1
      <4> QED
        BY <2>7, <4>1, <4>2
    <3> QED
      BY <3>1, <3>2
  <2> QED
    BY <2>8
<1>2. n \in 0..n
  OBVIOUS
<1> QED
  BY <1>1, <1>2

LEMMA LargestIs ==
  ASSUME NEW T, NEW m \in T, T \subseteq Nat, \A x \in T : x <= m
  PROVE  Largest(T) = m
<1>1. Largest(T) \in T /\ \A x \in T : x <= Largest(T)
  BY DEF Largest
<1>2. Largest(T) <= m /\ m <= Largest(T) /\ Largest(T) \in Nat /\ m \in Nat
  BY <1>1
<1> QED
  BY <1>2

LEMMA LargestTyped ==
  ASSUME NEW T \in SUBSET Nat, T # {}, NEW b \in Nat, \A x \in T : x <= b
  PROVE  Largest(T) \in Nat
<1> DEFINE D == {d \in Nat : \E x \in T : x + d = b}
<1>1. PICK e \in T : TRUE
  OBVIOUS
<1>2. b - e \in D
  BY <1>1
<1>3. PICK d \in D : \A y \in D : d <= y
  <2>1. D \in SUBSET Nat /\ D # {}
    BY <1>2
  <2> HIDE DEF D
  <2> QED
    BY <2>1, LeastNumber
<1>4. PICK m \in T : m + d = b
  BY <1>3
<1>5. ASSUME NEW x \in T PROVE x <= m
  <2>1. b - x \in D
    OBVIOUS
  <2>2. d <= b - x
    BY <1>3, <2>1
  <2> QED
    BY <1>4, <2>2
<1>6. Largest(T) = m
  BY <1>5, LargestIs
<1> QED
  BY <1>6

LEMMA PlacesBehind ==
  ASSUME NEW S, NEW s \in Seq(S), NEW pattern, Len(pattern) \in Nat
  PROVE  Behind(s, pattern) \subseteq 1..(Len(s) + 1)
<1>1. Len(s) \in Nat
  OBVIOUS
<1> QED
  BY <1>1 DEF Behind

LEMMA ReportsTyped ==
  ASSUME NEW S, NEW s \in Seq(S)
  PROVE  Reports(s) \subseteq Nat /\ \E b \in Nat : \A x \in Reports(s) : x <= b
<1>1. PICK n \in Nat : n = Len(s) + 1
  OBVIOUS
<1>2. Behind(s, NWSTATEIND) \subseteq 1..n
  <2>1. Len(NWSTATEIND) \in Nat
    BY DEF NWSTATEIND
  <2> QED
    BY <1>1, <2>1, PlacesBehind
<1> DEFINE v == [k \in 1..n |-> atoi(SubSeq(s, k, Len(s)))]
<1>3. ASSUME NEW k \in 1..n PROVE atoi(SubSeq(s, k, Len(s))) \in Nat
  <2>1. k \in Int /\ Len(s) \in Int /\ \A i \in k..Len(s) : s[i] \in S
    BY <1>1
  <2>2. SubSeq(s, k, Len(s)) \in Seq(S)
    BY <2>1, SubSeqProperties
  <2> QED
    BY <2>2, AtoiTyped
<1>4. v \in [1..n -> Nat]
  BY <1>3
<1>5. \A x \in Reports(s) : \E k \in 1..n : x = v[k]
  BY <1>2 DEF Reports
<1> HIDE DEF v
<1>6. PICK b \in Nat : \A k \in 1..n : v[k] <= b
  BY <1>4, Bounded
<1> QED
  BY <1>4, <1>5, <1>6

LEMMA FindTyped ==
  ASSUME NEW S, NEW s \in Seq(S), nwstate \in Nat
  PROVE  find_nws(s) \in Nat
<1>1. PICK b \in Nat : Reports(s) \subseteq Nat /\ \A x \in Reports(s) : x <= b
  BY ReportsTyped
<1>2. PICK d \in Nat : \A x \in {nwstate} \cup Reports(s) : x <= d
  <2>1. b + nwstate \in Nat /\ b <= b + nwstate /\ nwstate <= b + nwstate
    OBVIOUS
  <2>2. ASSUME NEW x \in {nwstate} \cup Reports(s) PROVE x <= b + nwstate
    <3>1. x \in Nat /\ (x = nwstate \/ x <= b)
      BY <1>1
    <3> QED
      BY <2>1, <3>1
  <2> QED
    BY <2>1, <2>2
<1>3. {nwstate} \cup Reports(s) \in SUBSET Nat
  BY <1>1
<1>4. PICK T : T = {nwstate} \cup Reports(s)
  OBVIOUS
<1>5. Largest(T) \in Nat
  BY <1>2, <1>3, <1>4, LargestTyped
<1> QED
  BY <1>4, <1>5 DEF find_nws

-----------------------------------------------------------------------------
(* The read buffer.                                                        *)

Bytes == Chars \cup {"NUL"}

\* The part of s in front of its first 0.
LEMMA StringIs ==
  ASSUME NEW S, NEW s \in Seq(S)
  PROVE  \E n \in 0..Len(s) :
           /\ String(s) \in Seq(S) /\ Len(String(s)) = n
           /\ \A i \in 1..n : String(s)[i] = s[i] /\ s[i] # "NUL"
           /\ n < Len(s) => s[n + 1] = "NUL"
<1>1. Len(s) \in Nat /\ DOMAIN s = 1..Len(s) /\ \A i \in 1..Len(s) : s[i] \in S
  OBVIOUS
<1> DEFINE zeros == {k \in 1..Len(s) : s[k] = "NUL"}
<1>2. String(s) = IF zeros = {} THEN s ELSE SubSeq(s, 1, (CHOOSE k \in zeros : \A j \in zeros : k <= j) - 1)
  BY <1>1 DEF String
<1>3. CASE zeros = {}
  <2>1. String(s) = s
    BY <1>2, <1>3
  <2>2. Len(s) \in 0..Len(s) /\ ~(Len(s) < Len(s))
    BY <1>1
  <2>3. \A i \in 1..Len(s) : s[i] # "NUL"
    BY <1>3
  <2> QED
    BY <2>1, <2>2, <2>3
<1>4. CASE zeros # {}
  <2>1. zeros \in SUBSET Nat
    BY <1>1
  <2>2. \E k \in zeros : \A j \in zeros : k <= j
    <3> HIDE DEF zeros
    <3> QED
      BY <1>4, <2>1, LeastNumber
  <2>3. PICK k \in zeros : String(s) = SubSeq(s, 1, k - 1) /\ \A j \in zeros : k <= j
    <3> HIDE DEF zeros
    <3> QED
      BY <1>2, <1>4, <2>2
  <2>4. k \in 1..Len(s) /\ s[k] = "NUL" /\ k - 1 \in 0..Len(s) /\ (k - 1) + 1 = k
    BY <1>1
  <2>5. ASSUME NEW i \in 1..(k - 1) PROVE s[i] # "NUL"
    <3>1. i \in 1..Len(s) /\ ~(k <= i)
      BY <1>1, <2>4
    <3> QED
      BY <2>3, <3>1
  <2>6. PICK m \in Nat : m = k - 1 /\ m <= Len(s)
    BY <1>1, <2>4
  <2>7. \A i \in 1..m : s[i] \in S
    BY <1>1, <2>6
  <2>8. /\ SubSeq(s, 1, m) \in Seq(S) /\ Len(SubSeq(s, 1, m)) = IF 1 <= m THEN m - 1 + 1 ELSE 0
        /\ \A i \in 1..(m - 1 + 1) : SubSeq(s, 1, m)[i] = s[1 + i - 1]
    BY <2>6, <2>7, SubSeqProperties
  <2>9. Len(SubSeq(s, 1, m)) = m /\ \A i \in 1..m : SubSeq(s, 1, m)[i] = s[i]
    BY <2>6, <2>8
  <2> QED
    BY <2>3, <2>4, <2>5, <2>6, <2>8, <2>9
<1> QED
  BY <1>3, <1>4

\* What is behind place n of a sequence.
LEMMA RestOf ==
  ASSUME NEW S, NEW s \in Seq(S), NEW n \in Nat
  PROVE  /\ SubSeq(s, n + 1, Len(s)) \in Seq(S)
         /\ Len(SubSeq(s, n + 1, Len(s))) = IF n <= Len(s) THEN Len(s) - n ELSE 0
         /\ \A i \in 1..(Len(s) - n) : SubSeq(s, n + 1, Len(s))[i] = s[n + i]
<1>1. Len(s) \in Nat /\ n + 1 \in Int /\ Len(s) \in Int /\ \A i \in (n + 1)..Len(s) : s[i] \in S
  OBVIOUS
<1>2. /\ SubSeq(s, n + 1, Len(s)) \in Seq(S)
      /\ Len(SubSeq(s, n + 1, Len(s))) = IF n + 1 <= Len(s) THEN Len(s) - (n + 1) + 1 ELSE 0
      /\ \A i \in 1..(Len(s) - (n + 1) + 1) : SubSeq(s, n + 1, Len(s))[i] = s[(n + 1) + i - 1]
  BY <1>1, SubSeqProperties
<1>3. ASSUME NEW i \in 1..(Len(s) - n) PROVE SubSeq(s, n + 1, Len(s))[i] = s[n + i]
  <2>1. i \in 1..(Len(s) - (n + 1) + 1) /\ (n + 1) + i - 1 = n + i
    BY <1>1
  <2> QED
    BY <1>2, <2>1
<1> QED
  BY <1>1, <1>2, <1>3

\* A transfer, as what it does to the buffer.
LEMMA BufferParts ==
  ASSUME NEW n, Transfer(n), NEW new, new = SubSeq(Stream, pos + 1, pos + n),
         NEW full, full = new \o SubSeq(c, n + 1, Len(c))
  PROVE  /\ c' = new \o <<"NUL">> \o SubSeq(c, n + 2, Len(c))
         /\ nwstate' = find_nws(String(full))
         /\ cgact_1_0' = (cgact_1_0 \/ Behind(String(full), CGACT) # {})
         /\ transfers < MaxTransfers /\ transfers' = transfers + 1
         /\ cuts' = cuts \cup {pos + n} /\ pos' = pos + n /\ sent' = sent
BY DEF Transfer, modem_response

\* The part of the types that concerns modem_response.
BufferInv ==
  /\ sent \in Conversations
  /\ transfers \in 0..MaxTransfers
  /\ c \in Seq(Bytes) /\ Len(c) <= pos + 1
  /\ nwstate \in Nat /\ cgact_1_0 \in BOOLEAN
  /\ flexmark \in BOOLEAN /\ args \in Seq(Texts)
  /\ cuts \subseteq 1..Len(Stream)

LEMMA InitBuffer == Init => BufferInv
<1> SUFFICES ASSUME Init PROVE BufferInv
  OBVIOUS
<1>1. cgact_1_0 \in BOOLEAN /\ flexmark \in BOOLEAN
  BY Zenon DEF Init
<1>2. 0 \in 0..MaxTransfers
  BY ParserAssumption
<1>3. << >> \in Seq(Bytes) /\ << >> \in Seq(Texts) /\ Len(<< >>) = 0
  OBVIOUS
<1> QED
  BY <1>1, <1>2, <1>3 DEF Init, BufferInv

LEMMA NextBuffer == ScannerInv /\ BufferInv /\ [Next]_vars => BufferInv'
<1> SUFFICES ASSUME ScannerInv, BufferInv, [Next]_vars PROVE BufferInv'
  OBVIOUS
<1>1. ASSUME NEW n \in 1..(Len(Stream) - pos), Transfer(n) PROVE BufferInv'
  <2>1. PICK new : new = SubSeq(Stream, pos + 1, pos + n)
    OBVIOUS
  <2>2. PICK full : full = new \o SubSeq(c, n + 1, Len(c))
    OBVIOUS
  <2>3. PICK s : s = String(full)
    OBVIOUS
  <2>4. PICK rest : rest = SubSeq(c, n + 2, Len(c))
    OBVIOUS
  <2>5. /\ c' = new \o <<"NUL">> \o rest
        /\ nwstate' = find_nws(s) /\ cgact_1_0' = (cgact_1_0 \/ Behind(s, CGACT) # {})
        /\ transfers < MaxTransfers /\ transfers' = transfers + 1
        /\ cuts' = cuts \cup {pos + n} /\ pos' = pos + n /\ sent' = sent
    BY <1>1, <2>1, <2>2, <2>3, <2>4, BufferParts
  <2>6. /\ pos \in Nat /\ n \in Nat /\ 1 <= n /\ pos + n <= Len(Stream) /\ Len(Stream) \in Nat
        /\ new \in Seq(Chars) /\ Len(new) = n
    <3>1. Len(Stream) \in Nat /\ pos \in 0..Len(Stream)
      BY StreamTyped DEF ScannerInv
    <3>2. new \in Seq(Chars) /\ Len(new) = n
      BY <2>1, TransferOf
    <3> QED
      BY <3>1, <3>2
  <2>7. new \in Seq(Bytes) /\ <<"NUL">> \in Seq(Bytes) /\ c \in Seq(Bytes) /\ Len(c) \in Nat
    <3>1. Chars \subseteq Bytes /\ "NUL" \in Bytes
      BY DEF Bytes
    <3>2. <<"NUL">> \in Seq(Bytes)
      BY <3>1
    <3>3. new \in Seq(Bytes)
      <4>1. \A i \in 1..Len(new) : new[i] \in Bytes
        BY <2>6, <3>1
      <4> QED
        BY <2>6, <4>1
    <3>4. c \in Seq(Bytes)
      BY DEF BufferInv
    <3> QED
      BY <3>2, <3>3, <3>4
  <2>8. rest \in Seq(Bytes) /\ Len(rest) = IF n + 1 <= Len(c) THEN Len(c) - (n + 1) ELSE 0
    <3>1. PICK m \in Nat : m = n + 1 /\ m + 1 = n + 2
      BY <2>6
    <3>2. rest = SubSeq(c, m + 1, Len(c))
      BY <2>4, <3>1
    <3> QED
      BY <2>7, <3>1, <3>2, RestOf
  <2>9. SubSeq(c, n + 1, Len(c)) \in Seq(Bytes)
    BY <2>6, <2>7, RestOf
  <2>10. c' \in Seq(Bytes) /\ Len(c') = n + 1 + Len(rest)
    <3>1. PICK u : u = new \o <<"NUL">>
      OBVIOUS
    <3>2. u \in Seq(Bytes) /\ Len(u) = n + 1
      BY <2>6, <2>7, <3>1, ConcatProperties
    <3>3. c' = u \o rest
      BY <2>5, <3>1
    <3> QED
      BY ZenonT(60), <2>8, <3>2, <3>3, ConcatProperties
  <2>11. Len(c') <= pos' + 1
    <3>1. Len(c) <= pos + 1
      BY DEF BufferInv
    <3> QED
      BY <2>5, <2>6, <2>7, <2>8, <2>10, <3>1
  <2>12. s \in Seq(Bytes)
    <3>1. full \in Seq(Bytes)
      BY <2>2, <2>7, <2>9, ConcatProperties
    <3> QED
      BY <2>3, <3>1, StringIs
  <2>13. nwstate' \in Nat
    BY <2>5, <2>12, FindTyped DEF BufferInv
  <2>14. cgact_1_0' \in BOOLEAN
    BY <2>5, Zenon
  <2>15. transfers' \in 0..MaxTransfers
    BY <2>5, ParserAssumption DEF BufferInv
  <2>16. Stream' = Stream
    BY <2>5, StreamStays
  <2>17. cuts' \subseteq 1..Len(Stream)
    <3>1. pos + n \in 1..Len(Stream)
      BY <2>6
    <3> QED
      BY <2>5, <3>1 DEF BufferInv
  <2>18. sent' \in Conversations
    BY <2>5 DEF BufferInv
  <2>19. flexmark' \in BOOLEAN /\ args' \in Seq(Texts)
    <3>1. PICK p : p = at_parse(new)
      OBVIOUS
    <3>2. flexmark' = p.flexmark /\ args' = p.args
      BY <1>1, <2>1, <3>1 DEF Transfer, modem_response
    <3>3. p \in Parsers
      BY <2>6, <3>1, ParsedTyped DEF ScannerInv
    <3> QED
      BY <3>2, <3>3 DEF Parsers
  <2> QED
    BY <2>10, <2>11, <2>13, <2>14, <2>15, <2>16, <2>17, <2>18, <2>19 DEF BufferInv
<1>2. CASE UNCHANGED vars
  <2>1. Stream' = Stream
    BY <1>2, StreamStays DEF vars
  <2> QED
    BY <1>2, <2>1 DEF vars, BufferInv
<1> QED
  BY <1>1, <1>2 DEF Next

LEMMA BufferInvariant == Spec => [](ScannerInv /\ BufferInv)
BY InitScanner, NextScanner, InitBuffer, NextBuffer, PTL DEF Spec

\* Type correctness: the start condition, the arguments, the callbacks and the numbers
\* of modem_response are what they can be, there are no more callbacks than lines were
\* sent, and the read buffer holds no more than one byte beyond what came (modem.c:75-86).
THEOREM TypesHold == Spec => []TypeOK
<1>1. ScannerInv /\ ParserInv /\ BufferInv => TypeOK
  <2> SUFFICES ASSUME ScannerInv, ParserInv, BufferInv PROVE TypeOK
    OBVIOUS
  <2>1. Parser.start = start
    BY DEF Parser
  <2>2. start \in {"INITIAL", "ESC"}
    BY <2>1 DEF ScannerInv, Parsers
  <2>3. Len(handled) <= Len(sent)
    <3>1. PICK m \in 0..Len(sent) : Len(handled) <= m
      BY DEF ParserInv, Room
    <3>2. Len(sent) \in Nat /\ Len(handled) \in Nat
      BY DEF ScannerInv
    <3> QED
      BY <3>1, <3>2
  <2>4. args \in Seq(Seq(Letters \cup {"space", "comma"}))
    BY DEF BufferInv, Texts, InWords
  <2> QED
    BY <2>2, <2>3, <2>4 DEF ScannerInv, BufferInv, TypeOK
<1> QED
  BY <1>1, ParserInvariant, BufferInvariant, PTL

-----------------------------------------------------------------------------
(* Where the bytes of the buffer come from.  src[i] is the place of the    *)
(* stream that byte i of s was transferred from; the byte behind it is     *)
(* from the next place, unless a transfer ended there.                     *)

Traces(s, src, x, ends) ==
  \A i \in 1..Len(s) :
    s[i] # "NUL" =>
      /\ src[i] \in 1..x /\ s[i] = Stream[src[i]]
      /\ src[i] \in ends \/ (i + 1 \in 1..Len(s) /\ s[i + 1] # "NUL" /\ src[i + 1] = src[i] + 1)

Traced(s, x, ends) == \E src \in [1..Len(s) -> Int] : Traces(s, src, x, ends)

LEMMA TracedLater ==
  ASSUME NEW S, NEW s \in Seq(S), NEW x \in Nat, NEW ends, Traced(s, x, ends),
         NEW y \in Nat, x <= y, NEW more, ends \subseteq more
  PROVE  Traced(s, y, more)
<1>1. PICK src \in [1..Len(s) -> Int] : Traces(s, src, x, ends)
  BY DEF Traced
<1>2. 1..x \subseteq 1..y
  OBVIOUS
<1>3. Traces(s, src, y, more)
  BY <1>1, <1>2 DEF Traces
<1> QED
  BY <1>1, <1>3 DEF Traced

\* The bytes behind place n.
LEMMA TracedRest ==
  ASSUME NEW S, NEW s \in Seq(S), NEW x \in Nat, NEW ends, Traced(s, x, ends), NEW n \in Nat,
         NEW t, t = SubSeq(s, n + 1, Len(s))
  PROVE  t \in Seq(S) /\ Traced(t, x, ends)
<1>1. PICK src \in [1..Len(s) -> Int] : Traces(s, src, x, ends)
  BY DEF Traced
<1>2. PICK a \in Nat, b \in Nat : a = Len(s) /\ b = Len(t)
  <2>1. t \in Seq(S)
    BY RestOf
  <2>2. Len(s) \in Nat /\ Len(t) \in Nat
    BY <2>1, LenProperties
  <2> QED
    BY <2>2
<1>3. /\ t \in Seq(S) /\ b = IF n <= a THEN a - n ELSE 0
      /\ \A i \in 1..b : t[i] = s[n + i]
  <2>1. /\ t \in Seq(S) /\ b = IF n <= a THEN a - n ELSE 0
        /\ \A i \in 1..(a - n) : t[i] = s[n + i]
    BY <1>2, RestOf
  <2>2. \A i \in 1..b : i \in 1..(a - n)
    BY <1>2, <2>1
  <2> QED
    BY <2>1, <2>2
<1> DEFINE sru == [i \in 1..b |-> src[n + i]]
<1>4. ASSUME NEW i \in 1..b, t[i] # "NUL"
      PROVE  /\ sru[i] \in 1..x /\ t[i] = Stream[sru[i]]
             /\ sru[i] \in ends \/ (i + 1 \in 1..b /\ t[i + 1] # "NUL" /\ sru[i + 1] = sru[i] + 1)
  <2>1. PICK j \in 1..a : j = n + i
    BY <1>2, <1>3
  <2>2. t[i] = s[j] /\ sru[i] = src[j]
    BY <1>3, <2>1
  <2>3. /\ src[j] \in 1..x /\ s[j] = Stream[src[j]]
        /\ src[j] \in ends \/ (j + 1 \in 1..a /\ s[j + 1] # "NUL" /\ src[j + 1] = src[j] + 1)
    BY <1>1, <1>2, <1>4, <2>2 DEF Traces
  <2>4. ASSUME j + 1 \in 1..a PROVE i + 1 \in 1..b /\ t[i + 1] = s[j + 1] /\ sru[i + 1] = src[j + 1]
    <3>1. i + 1 \in 1..b /\ n + (i + 1) = j + 1
      BY <1>2, <1>3, <2>1, <2>4
    <3> QED
      BY <1>3, <3>1
  <2> HIDE DEF sru
  <2> QED
    BY <2>2, <2>3, <2>4
<1>5. sru \in [1..b -> Int]
  <2>1. \A i \in 1..b : n + i \in 1..a
    BY <1>2, <1>3
  <2> QED
    BY <1>2, <2>1
<1> HIDE DEF sru
<1>6. Traces(t, sru, x, ends)
  BY <1>2, <1>4 DEF Traces
<1> QED
  BY <1>2, <1>3, <1>5, <1>6 DEF Traced

\* Two pieces, the first of which ends where a transfer did, or with a 0.
LEMMA TracedBoth ==
  ASSUME NEW S, NEW s \in Seq(S), NEW t \in Seq(S), NEW x \in Nat, NEW ends,
         Traced(s, x, ends), Traced(t, x, ends), NEW u, u = s \o t
  PROVE  u \in Seq(S) /\ Traced(u, x, ends)
<1>1. PICK srs \in [1..Len(s) -> Int] : Traces(s, srs, x, ends)
  BY DEF Traced
<1>2. PICK srt \in [1..Len(t) -> Int] : Traces(t, srt, x, ends)
  BY DEF Traced
<1>3. PICK a \in Nat, b \in Nat : a = Len(s) /\ b = Len(t)
  OBVIOUS
<1>4. /\ u \in Seq(S) /\ Len(u) = a + b
      /\ \A i \in 1..(a + b) : u[i] = IF i <= a THEN s[i] ELSE t[i - a]
  BY <1>3, ConcatProperties
<1> DEFINE sru == [i \in 1..(a + b) |-> IF i <= a THEN srs[i] ELSE srt[i - a]]
<1>5. ASSUME NEW i \in 1..(a + b), u[i] # "NUL"
      PROVE  /\ sru[i] \in 1..x /\ u[i] = Stream[sru[i]]
             /\ sru[i] \in ends \/ (i + 1 \in 1..(a + b) /\ u[i + 1] # "NUL" /\ sru[i + 1] = sru[i] + 1)
  <2>1. CASE i <= a
    <3>1. i \in 1..a /\ u[i] = s[i] /\ sru[i] = srs[i]
      BY <1>3, <1>4, <2>1
    <3>2. /\ srs[i] \in 1..x /\ s[i] = Stream[srs[i]]
          /\ srs[i] \in ends \/ (i + 1 \in 1..a /\ s[i + 1] # "NUL" /\ srs[i + 1] = srs[i] + 1)
      BY <1>1, <1>3, <1>5, <3>1 DEF Traces
    <3>3. ASSUME i + 1 \in 1..a PROVE i + 1 \in 1..(a + b) /\ u[i + 1] = s[i + 1] /\ sru[i + 1] = srs[i + 1]
      <4>1. i + 1 \in 1..(a + b) /\ i + 1 <= a
        BY <1>3, <3>3
      <4> QED
        BY <1>4, <4>1
    <3> HIDE DEF sru
    <3> QED
      BY <3>1, <3>2, <3>3
  <2>2. CASE ~(i <= a)
    <3>1. PICK j \in 1..b : j = i - a
      <4>1. i - a \in 1..b
        BY <1>3, <2>2
      <4> QED
        BY <4>1
    <3>2. u[i] = t[j] /\ sru[i] = srt[j]
      BY <1>4, <2>2, <3>1
    <3>3. /\ srt[j] \in 1..x /\ t[j] = Stream[srt[j]]
          /\ srt[j] \in ends \/ (j + 1 \in 1..b /\ t[j + 1] # "NUL" /\ srt[j + 1] = srt[j] + 1)
      BY <1>2, <1>3, <1>5, <3>2 DEF Traces
    <3>4. ASSUME j + 1 \in 1..b PROVE i + 1 \in 1..(a + b) /\ u[i + 1] = t[j + 1] /\ sru[i + 1] = srt[j + 1]
      <4>1. i + 1 \in 1..(a + b) /\ ~(i + 1 <= a) /\ (i + 1) - a = j + 1
        BY <1>3, <2>2, <3>1, <3>4
      <4> QED
        BY <1>4, <4>1
    <3> HIDE DEF sru
    <3> QED
      BY <3>2, <3>3, <3>4
  <2> QED
    BY <2>1, <2>2
<1>6. sru \in [1..(a + b) -> Int]
  <2>1. ASSUME NEW i \in 1..(a + b) PROVE sru[i] \in Int
    <3>1. CASE i <= a
      <4>1. i \in 1..a /\ sru[i] = srs[i]
        BY <1>3, <3>1
      <4> QED
        BY <1>3, <4>1
    <3>2. CASE ~(i <= a)
      <4>1. i - a \in 1..b /\ sru[i] = srt[i - a]
        BY <1>3, <3>2
      <4> QED
        BY <1>3, <4>1
    <3> QED
      BY <3>1, <3>2
  <2> QED
    BY <2>1
<1> HIDE DEF sru
<1>7. Traces(u, sru, x, ends)
  BY <1>4, <1>5 DEF Traces
<1> QED
  BY <1>4, <1>6, <1>7 DEF Traced

LEMMA CharsAreBytes ==
  ASSUME NEW s \in Seq(Chars)
  PROVE  s \in Seq(Bytes) /\ \A i \in 1..Len(s) : s[i] # "NUL"
<1>1. Chars \subseteq Bytes
  BY DEF Bytes
<1>2. "NUL" \notin Chars
  BY DEF Chars, Letters, Marks, Quote
<1>3. \A i \in 1..Len(s) : s[i] \in Chars
  OBVIOUS
<1>4. s \in Seq(Bytes)
  <2>1. PICK n \in Nat : n = Len(s) /\ s \in [1..n -> Chars]
    OBVIOUS
  <2>2. s \in [1..n -> Bytes]
    BY <1>1, <2>1
  <2> QED
    BY <2>2
<1> QED
  BY <1>2, <1>3, <1>4

LEMMA NulIsByte == <<"NUL">> \in Seq(Bytes)
<1>1. "NUL" \in Bytes
  BY DEF Bytes
<1> QED
  BY <1>1

\* strstr sees at least the bytes of the transfer.
LEMMA StringBegins ==
  ASSUME NEW S, NEW first \in Seq(S), NEW rest \in Seq(S), \A i \in 1..Len(first) : first[i] # "NUL",
         NEW full, full = first \o rest
  PROVE  Len(first) <= Len(String(full)) /\ \A i \in 1..Len(first) : String(full)[i] = first[i]
<1>1. PICK n \in Nat, b \in Nat : n = Len(first) /\ b = Len(rest)
  OBVIOUS
<1>2. /\ full \in Seq(S) /\ Len(full) = n + b
      /\ \A i \in 1..(n + b) : full[i] = IF i <= n THEN first[i] ELSE rest[i - n]
  BY <1>1, ConcatProperties
<1>3. \A i \in 1..n : full[i] = first[i] /\ full[i] # "NUL"
  <2>1. \A i \in 1..n : i \in 1..(n + b) /\ i <= n
    BY <1>1
  <2> QED
    BY <1>1, <1>2, <2>1
<1>4. PICK s : s = String(full)
  OBVIOUS
<1>5. PICK m \in 0..(n + b) :
        Len(s) = m /\ (\A i \in 1..m : s[i] = full[i]) /\ (m < n + b => full[m + 1] = "NUL")
  <2>1. PICK m \in 0..Len(full) :
          Len(s) = m /\ (\A i \in 1..m : s[i] = full[i]) /\ (m < Len(full) => full[m + 1] = "NUL")
    BY ZenonT(60), <1>2, <1>4, StringIs
  <2> QED
    BY <1>2, <2>1
<1>6. n <= m
  <2>1. ASSUME m < n PROVE FALSE
    <3>1. m + 1 \in 1..n /\ m < n + b
      BY <1>1, <2>1
    <3> QED
      BY <1>3, <1>5, <3>1
  <2> QED
    BY <1>1, <2>1
<1>7. \A i \in 1..n : i \in 1..m
  BY <1>1, <1>6
<1> QED
  BY <1>1, <1>3, <1>4, <1>5, <1>6, <1>7

\* The bytes of a transfer.
LEMMA TracedNew ==
  ASSUME ScannerInv, NEW n \in 1..(Len(Stream) - pos), NEW new, new = SubSeq(Stream, pos + 1, pos + n),
         NEW x, x = pos + n, NEW ends, x \in ends
  PROVE  /\ new \in Seq(Chars) /\ Len(new) = n
         /\ \A i \in 1..n : new[i] = Stream[pos + i] /\ new[i] # "NUL"
         /\ Traced(new, x, ends)
<1>1. Stream \in Seq(Chars) /\ Len(Stream) \in Nat /\ pos \in Nat /\ pos + n <= Len(Stream) /\ n \in Nat
  <2>1. Stream \in Seq(Chars) /\ Len(Stream) \in Nat /\ pos \in 0..Len(Stream)
    BY StreamTyped DEF ScannerInv
  <2> QED
    BY <2>1
<1>2. new \in Seq(Chars) /\ Len(new) = n
  BY TransferOf
<1>3. ASSUME NEW i \in 1..n PROVE new[i] = Stream[pos + i] /\ new[i] # "NUL"
  BY <1>2, CharOfTransfer, CharsAreBytes
<1> DEFINE src == [i \in 1..n |-> pos + i]
<1>4. ASSUME NEW i \in 1..n
      PROVE  /\ src[i] \in 1..x /\ new[i] = Stream[src[i]]
             /\ src[i] \in ends \/ (i + 1 \in 1..n /\ new[i + 1] # "NUL" /\ src[i + 1] = src[i] + 1)
  <2>1. pos + i \in 1..x
    BY <1>1
  <2>2. CASE i = n
    BY <1>3, <2>1, <2>2
  <2>3. CASE i # n
    <3>1. i + 1 \in 1..n /\ pos + (i + 1) = (pos + i) + 1
      BY <1>1, <2>3
    <3>2. src[i] = pos + i /\ src[i + 1] = (pos + i) + 1
      BY <3>1
    <3> QED
      BY <1>3, <2>1, <3>1, <3>2
  <2> QED
    BY <2>2, <2>3
<1>5. src \in [1..n -> Int]
  BY <1>1
<1> HIDE DEF src
<1>6. Traces(new, src, x, ends)
  BY <1>2, <1>4 DEF Traces
<1> QED
  BY <1>2, <1>3, <1>5, <1>6 DEF Traced

\* What strstr sees has no 0.
LEMMA TracedString ==
  ASSUME NEW S, NEW s \in Seq(S), NEW x \in Nat, NEW ends, Traced(s, x, ends), NEW t, t = String(s)
  PROVE  t \in Seq(S) /\ Traced(t, x, ends) /\ \A i \in 1..Len(t) : t[i] # "NUL"
<1>1. PICK src \in [1..Len(s) -> Int] : Traces(s, src, x, ends)
  BY DEF Traced
<1>2. PICK n \in 0..Len(s) :
        /\ t \in Seq(S) /\ Len(t) = n
        /\ \A i \in 1..n : t[i] = s[i] /\ s[i] # "NUL"
        /\ n < Len(s) => s[n + 1] = "NUL"
  BY StringIs
<1>3. PICK a \in Nat : a = Len(s) /\ n \in Nat /\ n <= a
  OBVIOUS
<1> DEFINE sru == [i \in 1..n |-> src[i]]
<1>4. ASSUME NEW i \in 1..n
      PROVE  /\ sru[i] \in 1..x /\ t[i] = Stream[sru[i]]
             /\ sru[i] \in ends \/ (i + 1 \in 1..n /\ t[i + 1] # "NUL" /\ sru[i + 1] = sru[i] + 1)
  <2>1. i \in 1..a
    BY <1>3
  <2>2. t[i] = s[i] /\ s[i] # "NUL" /\ sru[i] = src[i]
    BY <1>2
  <2>3. /\ src[i] \in 1..x /\ s[i] = Stream[src[i]]
        /\ src[i] \in ends \/ (i + 1 \in 1..a /\ s[i + 1] # "NUL" /\ src[i + 1] = src[i] + 1)
    BY <1>1, <1>3, <2>1, <2>2 DEF Traces
  <2>4. ASSUME i + 1 \in 1..a, s[i + 1] # "NUL"
        PROVE  i + 1 \in 1..n /\ t[i + 1] = s[i + 1] /\ sru[i + 1] = src[i + 1]
    <3>1. i # n
      <4>1. CASE n < a
        BY <1>2, <1>3, <2>4, <4>1
      <4>2. CASE ~(n < a)
        BY <1>3, <2>4, <4>2
      <4> QED
        BY <4>1, <4>2
    <3>2. i + 1 \in 1..n
      BY <1>3, <3>1
    <3> QED
      BY <1>2, <3>2
  <2> HIDE DEF sru
  <2> QED
    BY <2>2, <2>3, <2>4
<1>5. sru \in [1..n -> Int]
  <2>1. \A i \in 1..n : i \in 1..Len(s)
    BY <1>3
  <2> QED
    BY <2>1
<1> HIDE DEF sru
<1>6. Traces(t, sru, x, ends)
  BY <1>2, <1>4 DEF Traces
<1>7. Traced(t, x, ends)
  <2>1. Len(t) = n
    BY <1>2
  <2> QED
    BY <1>5, <1>6, <2>1 DEF Traced
<1> QED
  BY <1>2, <1>7

LEMMA TracedNul ==
  ASSUME NEW x \in Nat, NEW ends, NEW t, t = <<"NUL">>
  PROVE  Traced(t, x, ends)
<1> DEFINE src == [i \in 1..Len(t) |-> 0]
<1>1. Len(t) = 1 /\ t[1] = "NUL"
  OBVIOUS
<1>2. Traces(t, src, x, ends)
  <2>1. \A i \in 1..Len(t) : t[i] = "NUL"
    BY <1>1
  <2> QED
    BY <2>1 DEF Traces
<1>3. src \in [1..Len(t) -> Int]
  OBVIOUS
<1> QED
  BY <1>2, <1>3 DEF Traced

\* What strstr sees in a transfer of n characters: them, and no 0.
Seen(s, n) ==
  /\ s \in Seq(Bytes) /\ \A i \in 1..Len(s) : s[i] # "NUL"
  /\ n <= Len(s) /\ \A i \in 1..n : s[i] = Stream[pos + i]

\* The buffer behind a transfer: what the next one finds, and what this one's strstr sees.
LEMMA TransferTraced ==
  ASSUME ScannerInv, NEW n \in 1..(Len(Stream) - pos), NEW new, new = SubSeq(Stream, pos + 1, pos + n),
         NEW x, x = pos + n, NEW ends, ends = cuts \cup {x}, c \in Seq(Bytes), Traced(c, pos, cuts),
         NEW full, full = new \o SubSeq(c, n + 1, Len(c)), NEW s, s = String(full),
         NEW d, d = new \o <<"NUL">> \o SubSeq(c, n + 2, Len(c))
  PROVE  Traced(d, x, ends) /\ Traced(s, x, ends) /\ Seen(s, n)
<1>1. /\ new \in Seq(Chars) /\ Len(new) = n
      /\ \A i \in 1..n : new[i] = Stream[pos + i] /\ new[i] # "NUL"
      /\ Traced(new, x, ends)
  <2>1. x \in ends
    OBVIOUS
  <2> QED
    BY <2>1, TracedNew
<1>2. pos \in Nat /\ n \in Nat /\ x \in Nat /\ pos <= x /\ 1 <= n
  <2>1. Len(Stream) \in Nat /\ pos \in 0..Len(Stream)
    BY StreamTyped DEF ScannerInv
  <2> QED
    BY <2>1
<1>3. new \in Seq(Bytes) /\ <<"NUL">> \in Seq(Bytes)
  BY <1>1, CharsAreBytes, NulIsByte
<1>4. Traced(c, x, ends)
  <2>1. cuts \subseteq ends
    OBVIOUS
  <2> QED
    BY <1>2, <2>1, TracedLater
<1>5. PICK rest : rest = SubSeq(c, n + 1, Len(c)) /\ rest \in Seq(Bytes) /\ Traced(rest, x, ends)
  BY <1>2, <1>4, TracedRest
<1>6. full = new \o rest /\ full \in Seq(Bytes) /\ Traced(full, x, ends)
  <2>1. full = new \o rest
    BY <1>5
  <2> QED
    BY <1>1, <1>2, <1>3, <1>5, <2>1, TracedBoth
<1>7. s \in Seq(Bytes) /\ Traced(s, x, ends) /\ \A i \in 1..Len(s) : s[i] # "NUL"
  BY <1>2, <1>6, TracedString
<1>8. n <= Len(s) /\ \A i \in 1..n : s[i] = Stream[pos + i]
  <2>1. s = String(full)
    BY <1>5, <1>6
  <2>2. Len(new) <= Len(s) /\ \A i \in 1..Len(new) : s[i] = new[i]
    <3>1. \A i \in 1..Len(new) : new[i] # "NUL"
      BY <1>1, CharsAreBytes
    <3>2. new \in Seq(Bytes) /\ rest \in Seq(Bytes) /\ full = new \o rest
      BY <1>3, <1>5, <1>6
    <3>3. /\ Len(new) <= Len(String(full))
          /\ \A i \in 1..Len(new) : String(full)[i] = new[i]
      BY ONLY <3>1, <3>2, StringBegins
    <3> QED
      BY <2>1, <3>3
  <2> QED
    BY <1>1, <2>2
<1>9. Traced(d, x, ends)
  <2>1. PICK m \in Nat : m = n + 1 /\ m + 1 = n + 2
    BY <1>2
  <2>2. PICK later : later = SubSeq(c, m + 1, Len(c)) /\ later \in Seq(Bytes) /\ Traced(later, x, ends)
    BY <1>2, <1>4, TracedRest
  <2>3. PICK nul : nul = <<"NUL">> /\ nul \in Seq(Bytes) /\ Traced(nul, x, ends)
    BY <1>2, <1>3, TracedNul
  <2>4. PICK u : u = new \o nul /\ u \in Seq(Bytes) /\ Traced(u, x, ends)
    BY <1>1, <1>2, <1>3, <2>3, TracedBoth
  <2>5. d = u \o later
    BY <2>1, <2>2, <2>3, <2>4
  <2> QED
    BY <1>2, <2>2, <2>4, <2>5, TracedBoth
<1> QED
  BY <1>7, <1>8, <1>9 DEF Seen

\* Where a pattern is found.
Occurs(s, pattern, j) == \A i \in 1..Len(pattern) : s[j + i - 1] = pattern[i]

LEMMA BehindIs ==
  ASSUME NEW S, NEW s \in Seq(S), NEW pattern, NEW R, pattern \in Seq(R),
         NEW n \in Nat, n = Len(pattern), NEW x
  PROVE  x \in Behind(s, pattern) <=>
           \E j \in 1..(Len(s) - n + 1) : x = j + n /\ Occurs(s, pattern, j)
<1>1. PICK a \in Nat : a = Len(s) /\ \A i \in 1..a : s[i] \in S
  OBVIOUS
<1>2. ASSUME NEW j \in 1..(a - n + 1)
      PROVE  SubSeq(s, j, j + n - 1) = pattern <=> \A i \in 1..n : s[j + i - 1] = pattern[i]
  <2>1. j \in Int /\ j + n - 1 \in Int /\ \A i \in j..(j + n - 1) : s[i] \in S
    BY <1>1
  <2>2. PICK t : t = SubSeq(s, j, j + n - 1)
    OBVIOUS
  <2>3. /\ t \in Seq(S) /\ Len(t) = IF j <= j + n - 1 THEN (j + n - 1) - j + 1 ELSE 0
        /\ \A i \in 1..((j + n - 1) - j + 1) : t[i] = s[j + i - 1]
    BY <2>1, <2>2, SubSeqProperties
  <2>4. Len(t) = n /\ \A i \in 1..n : t[i] = s[j + i - 1]
    BY <2>3
  <2>5. t = pattern <=> \A i \in 1..n : t[i] = pattern[i]
    <3>1. ASSUME \A i \in 1..n : t[i] = pattern[i] PROVE t = pattern
      <4>1. t \in [1..n -> S] /\ pattern \in [1..n -> R]
        BY <2>3, <2>4
      <4> QED
        BY <3>1, <4>1
    <3> QED
      BY <3>1
  <2> QED
    BY <2>2, <2>4, <2>5
<1>3. /\ x \in Behind(s, pattern) <=> \E j \in 1..(a - n + 1) : x = j + n /\ SubSeq(s, j, j + n - 1) = pattern
  BY <1>1 DEF Behind
<1> QED
  BY <1>1, <1>2, <1>3 DEF Occurs

LEMMA Patterns ==
  /\ NWSTATEIND \in Seq(Chars) /\ Len(NWSTATEIND) = 4
  /\ NWSTATEIND[1] = "plus" /\ NWSTATEIND[2] = "N" /\ NWSTATEIND[3] = "colon" /\ NWSTATEIND[4] = "space"
  /\ CGACT \in Seq(Chars) /\ Len(CGACT) = 6
  /\ CGACT[1] = "plus" /\ CGACT[2] = "C" /\ CGACT[3] = "colon" /\ CGACT[4] = "1"
  /\ CGACT[5] = "comma" /\ CGACT[6] = "0"
<1>1. {"plus", "N", "colon", "space", "C", "1", "comma", "0"} \subseteq Chars
  BY DEF Chars, Letters, Marks
<1>2. NWSTATEIND \in Seq(Chars)
  BY <1>1 DEF NWSTATEIND
<1>3. CGACT \in Seq(Chars)
  BY <1>1 DEF CGACT
<1> QED
  BY <1>2, <1>3 DEF NWSTATEIND, CGACT

\* The letters that make a report.
LEMMA WhereInText ==
  ASSUME NEW l \in Kinds, NEW o \in 1..Len(Text[l])
  PROVE  /\ Text[l][o] = "N" => l \in {"nw3", "nw5"} /\ o = 4
         /\ Text[l][o] = "C" => l = "inactive" /\ o = 4
<1> DEFINE Others(k, n, m) == \A i \in (1..n) \ {m} : Text[k][i] \notin {"N", "C"}
<1>1. Others("ok", 6, 0)
  BY SMTT(60), TextOf DEF Reads, Quote
<1>2. Others("error", 6, 0)
  BY SMTT(60), TextOf DEF Reads, Quote
<1>3. Others("response", 11, 0)
  BY SMTT(60), TextOf DEF Reads, Quote
<1>4. Others("quoted", 14, 0)
  BY SMTT(60), TextOf DEF Reads, Quote
<1>5. Others("dash", 12, 0)
  BY SMTT(60), TextOf DEF Reads, Quote
<1>6. Others("cme", 11, 0)
  BY SMTT(60), TextOf DEF Reads, Quote
<1>7. Others("nw3", 9, 4)
  BY SMTT(60), TextOf DEF Reads, Quote
<1>8. Others("nw5", 9, 4)
  BY SMTT(60), TextOf DEF Reads, Quote
<1>9. Others("inactive", 10, 4)
  BY SMTT(60), TextOf DEF Reads, Quote
<1>10. Others("echo", 10, 0)
  BY SMTT(60), TextOf DEF Reads, Quote
<1>11. Others("ate1", 6, 0)
  BY SMTT(60), TextOf DEF Reads, Quote
<1>12. Text["nw3"][4] = "N" /\ Text["nw5"][4] = "N" /\ Text["inactive"][4] = "C"
  BY TextOf DEF Reads
<1>13. PICK n \in Nat : n = Len(Text[l]) /\ o \in 1..n
  BY Lengths
<1> HIDE DEF Others
<1>14. Others(l, n, IF l \in {"nw3", "nw5", "inactive"} THEN 4 ELSE 0)
  BY <1>1, <1>2, <1>3, <1>4, <1>5, <1>6, <1>7, <1>8, <1>9, <1>10, <1>11, <1>13, Lengths DEF Kinds
<1> QED
  BY <1>12, <1>13, <1>14 DEF Others, Kinds

LEMMA WhereInStream ==
  ASSUME sent \in Seq(Kinds), NEW z \in 1..Len(Stream), NEW e \in {"N", "C"}, Stream[z] = e
  PROVE  \E k \in 1..Len(sent) :
           /\ z = End(k - 1) + 4
           /\ e = "N" => sent[k] \in {"nw3", "nw5"}
           /\ e = "C" => sent[k] = "inactive"
<1>1. Len(Stream) \in Nat /\ Len(sent) \in Nat
  BY StreamTyped
<1>2. PICK y \in Nat : y = z - 1 /\ y < Len(Stream) /\ y + 1 = z
  <2>1. z - 1 \in Nat /\ z - 1 < Len(Stream) /\ (z - 1) + 1 = z
    BY <1>1
  <2> QED
    BY <2>1
<1>3. PICK k \in 1..Len(sent) : End(k - 1) <= y /\ y < End(k)
  BY <1>2, LineAt
<1>4. /\ sent[k] \in Kinds /\ End(k - 1) \in Nat
      /\ End(k) = End(k - 1) + Len(Text[sent[k]]) /\ Len(Text[sent[k]]) \in Nat
  <2>1. k - 1 \in 0..Len(sent) /\ sent[k] \in Kinds
    BY <1>1
  <2> QED
    BY <2>1, LineEnds, LengthOfText
<1>5. PICK o \in 1..Len(Text[sent[k]]) : z = End(k - 1) + o
  <2>1. z - End(k - 1) \in 1..Len(Text[sent[k]]) /\ z = End(k - 1) + (z - End(k - 1))
    BY <1>2, <1>3, <1>4
  <2> QED
    BY <2>1
<1>6. Text[sent[k]][o] = e
  BY <1>5, CharOfLine
<1>7. /\ e = "N" => sent[k] \in {"nw3", "nw5"} /\ o = 4
      /\ e = "C" => sent[k] = "inactive" /\ o = 4
  BY <1>4, <1>6, WhereInText
<1> QED
  BY <1>5, <1>7

\* No transfer ended in line k.
Whole(k, ends) == \A y \in ends : ~(End(k - 1) < y /\ y < End(k))

\* Behind place b of s there is t; from place j on there is t, from its place o on.
HasText(s, b, t) == \A m \in 1..Len(t) : b + m \in 1..Len(s) /\ s[b + m] = t[m]
Onward(s, j, o, t) == \A m \in o..Len(t) : j + (m - o) \in 1..Len(s) /\ s[j + (m - o)] = t[m]

\* A byte of a whole line is followed by the rest of the line.
LEMMA LineFollows ==
  ASSUME sent \in Seq(Kinds), NEW S, NEW s \in Seq(S), NEW x \in Nat, NEW ends, NEW src,
         Traces(s, src, x, ends), \A i \in 1..Len(s) : s[i] # "NUL",
         NEW k \in 1..Len(sent), Whole(k, ends), NEW j \in 1..Len(s),
         NEW o \in 1..Len(Text[sent[k]]), src[j] = End(k - 1) + o
  PROVE  End(k) <= x /\ Onward(s, j, o, Text[sent[k]])
<1>1. PICK a \in Nat, l \in Nat, e \in Nat :
        a = Len(s) /\ l = Len(Text[sent[k]]) /\ e = End(k - 1) /\ End(k) = e + l
  <2>1. k - 1 \in 0..Len(sent) /\ sent[k] \in Kinds
    OBVIOUS
  <2>2. End(k - 1) \in Nat /\ End(k) = End(k - 1) + Len(Text[sent[k]]) /\ Len(Text[sent[k]]) \in Nat
    BY <2>1, LineEnds, LengthOfText
  <2> QED
    BY <2>2
<1>2. o \in Nat /\ 1 <= o /\ o <= l /\ j \in 1..a /\ src[j] = e + o
  BY <1>1
<1>3. ASSUME NEW i \in 1..a
      PROVE  /\ src[i] \in 1..x /\ s[i] = Stream[src[i]]
             /\ src[i] \in ends \/ (i + 1 \in 1..a /\ src[i + 1] = src[i] + 1)
  BY <1>1 DEF Traces
<1> DEFINE Follows(m) == j + (m - o) \in 1..a /\ src[j + (m - o)] = e + m
           T == {m \in o..l : ~Follows(m)}
<1>4. ASSUME T # {} PROVE FALSE
  <2>1. T \in SUBSET Nat
    BY <1>2
  <2>2. PICK m \in T : \A i \in T : m <= i
    <3> HIDE DEF T
    <3> QED
      BY <1>4, <2>1, LeastNumber
  <2>3. m # o
    BY <1>2
  <2>4. PICK i \in o..l : i = m - 1 /\ i \notin T /\ i < l
    <3>1. m \in Nat /\ m <= l /\ o <= m /\ m # o
      BY <1>2, <2>3
    <3>2. m - 1 \in o..l /\ ~(m <= m - 1) /\ m - 1 < l
      BY SMTT(60), <1>1, <1>2, <3>1
    <3>3. m - 1 \notin T
      BY <2>2, <3>2
    <3> QED
      BY <3>2, <3>3
  <2>5. Follows(i)
    BY <2>4
  <2>6. src[j + (i - o)] \notin ends
    <3>1. 1 <= i /\ i < l /\ i \in Nat
      BY <1>1, <1>2, <2>4
    <3>2. e < e + i /\ e + i < e + l
      BY SMTT(60), <1>1, <3>1
    <3>3. End(k - 1) < e + i /\ e + i < End(k)
      BY <1>1, <3>2
    <3> QED
      BY <2>5, <3>3 DEF Whole
  <2>7. PICK q \in 1..a : q = j + (i - o) /\ src[q] = e + i
    BY <2>5
  <2>8. q + 1 \in 1..a /\ src[q + 1] = (e + i) + 1
    BY <1>3, <2>6, <2>7
  <2>9. q + 1 = j + (m - o) /\ (e + i) + 1 = e + m
    BY <1>1, <1>2, <2>4, <2>7
  <2>10. Follows(m)
    BY <2>8, <2>9
  <2> QED
    BY <2>10
<1>5. \A m \in o..l : Follows(m)
  BY <1>4
<1>6. ASSUME NEW m \in o..l PROVE j + (m - o) \in 1..a /\ s[j + (m - o)] = Text[sent[k]][m]
  <2>1. PICK q \in 1..a : q = j + (m - o) /\ src[q] = e + m
    BY <1>5
  <2>2. m \in 1..Len(Text[sent[k]])
    BY <1>1, <1>2
  <2>3. Stream[e + m] = Text[sent[k]][m]
    BY <1>1, <2>2, CharOfLine
  <2> QED
    BY <1>3, <2>1, <2>3
<1>7. e + l <= x
  <2>1. l \in o..l
    BY <1>1, <1>2
  <2>2. PICK q \in 1..a : src[q] = e + l
    BY <1>5, <2>1
  <2>3. src[q] \in 1..x
    BY <1>3
  <2> QED
    BY <2>2, <2>3
<1> QED
  BY <1>1, <1>6, <1>7 DEF Onward

LEMMA ReportPlaces ==
  ASSUME NEW s \in Seq(Bytes), NEW x
  PROVE  x \in Behind(s, NWSTATEIND) <=>
           \E j \in 1..(Len(s) - 3) :
             x = j + 4 /\ s[j] = "plus" /\ s[j + 1] = "N" /\ s[j + 2] = "colon" /\ s[j + 3] = "space"
<1>1. PICK a \in Nat : a = Len(s)
  OBVIOUS
<1>2. PICK p : p = NWSTATEIND /\ p \in Seq(Chars) /\ 4 = Len(p)
  BY Patterns
<1>3. x \in Behind(s, p) <=>
        \E j \in 1..(Len(s) - 4 + 1) : x = j + 4 /\ Occurs(s, p, j)
  <2>1. PICK n \in Nat : n = 4 /\ n = Len(p)
    BY <1>2
  <2>2. x \in Behind(s, p) <=>
          \E j \in 1..(Len(s) - n + 1) : x = j + n /\ Occurs(s, p, j)
    BY <1>2, <2>1, BehindIs
  <2> QED
    BY <2>1, <2>2
<1>4. ASSUME NEW j \in Nat
      PROVE  Occurs(s, p, j) <=>
               /\ s[j] = "plus" /\ s[j + 1] = "N" /\ s[j + 2] = "colon" /\ s[j + 3] = "space"
  <2>1. j + 1 - 1 = j /\ j + 2 - 1 = j + 1 /\ j + 3 - 1 = j + 2 /\ j + 4 - 1 = j + 3
    OBVIOUS
  <2>2. p[1] = "plus" /\ p[2] = "N" /\ p[3] = "colon" /\ p[4] = "space"
    BY <1>2, Patterns
  <2>3. 1..4 = {1, 2, 3, 4}
    OBVIOUS
  <2> QED
    BY ZenonT(60), <1>2, <2>1, <2>2, <2>3 DEF Occurs
<1>5. 1..(Len(s) - 4 + 1) = 1..(Len(s) - 3) /\ \A j \in 1..(Len(s) - 3) : j \in Nat
  BY <1>1
<1> QED
  BY <1>2, <1>3, <1>4, <1>5

LEMMA ClosedPlaces ==
  ASSUME NEW s \in Seq(Bytes), NEW x
  PROVE  x \in Behind(s, CGACT) <=>
           \E j \in 1..(Len(s) - 5) :
             /\ x = j + 6 /\ s[j] = "plus" /\ s[j + 1] = "C" /\ s[j + 2] = "colon"
             /\ s[j + 3] = "1" /\ s[j + 4] = "comma" /\ s[j + 5] = "0"
<1>1. PICK a \in Nat : a = Len(s)
  OBVIOUS
<1>2. PICK p : p = CGACT /\ p \in Seq(Chars) /\ 6 = Len(p)
  BY Patterns
<1>3. x \in Behind(s, p) <=>
        \E j \in 1..(Len(s) - 6 + 1) : x = j + 6 /\ Occurs(s, p, j)
  <2>1. PICK n \in Nat : n = 6 /\ n = Len(p)
    BY <1>2
  <2>2. x \in Behind(s, p) <=>
          \E j \in 1..(Len(s) - n + 1) : x = j + n /\ Occurs(s, p, j)
    BY <1>2, <2>1, BehindIs
  <2> QED
    BY <2>1, <2>2
<1>4. ASSUME NEW j \in Nat
      PROVE  Occurs(s, p, j) <=>
               /\ s[j] = "plus" /\ s[j + 1] = "C" /\ s[j + 2] = "colon"
               /\ s[j + 3] = "1" /\ s[j + 4] = "comma" /\ s[j + 5] = "0"
  <2>1. /\ j + 1 - 1 = j /\ j + 2 - 1 = j + 1 /\ j + 3 - 1 = j + 2 /\ j + 4 - 1 = j + 3
        /\ j + 5 - 1 = j + 4 /\ j + 6 - 1 = j + 5
    OBVIOUS
  <2>2. p[1] = "plus" /\ p[2] = "C" /\ p[3] = "colon" /\ p[4] = "1" /\ p[5] = "comma" /\ p[6] = "0"
    BY <1>2, Patterns
  <2>3. 1..6 = {1, 2, 3, 4, 5, 6}
    OBVIOUS
  <2>4. Occurs(s, p, j) <=>
          /\ s[j + 1 - 1] = p[1] /\ s[j + 2 - 1] = p[2] /\ s[j + 3 - 1] = p[3]
          /\ s[j + 4 - 1] = p[4] /\ s[j + 5 - 1] = p[5] /\ s[j + 6 - 1] = p[6]
    BY ZenonT(60), <1>2, <2>3 DEF Occurs
  <2> QED
    BY <2>1, <2>2, <2>4
<1>5. 1..(Len(s) - 6 + 1) = 1..(Len(s) - 5) /\ \A j \in 1..(Len(s) - 5) : j \in Nat
  BY <1>1
<1> QED
  BY <1>2, <1>3, <1>4, <1>5

\* A report in the buffer, and its value.
LEMMA ReportAt ==
  ASSUME NEW s \in Seq(Bytes), NEW j \in 1..Len(s), j + 5 \in 1..Len(s),
         s[j] = "plus", s[j + 1] = "N", s[j + 2] = "colon", s[j + 3] = "space",
         NEW d \in {"3", "5"}, s[j + 4] = d, s[j + 5] = "CR"
  PROVE  j + 4 \in Behind(s, NWSTATEIND) /\ atoi(SubSeq(s, j + 4, Len(s))) = Digit[d]
<1>1. PICK a \in Nat : a = Len(s) /\ j \in Nat /\ 1 <= j /\ j + 5 <= a
  OBVIOUS
<1>2. j + 4 \in Behind(s, NWSTATEIND)
  <2>1. j \in 1..(Len(s) - 3)
    BY <1>1
  <2>2. PICK y : y = j + 4
    OBVIOUS
  <2>3. y \in Behind(s, NWSTATEIND)
    BY <2>1, <2>2, ReportPlaces
  <2> QED
    BY <2>2, <2>3
<1>3. PICK m \in Nat : m = j + 3 /\ m + 1 = j + 4
  BY <1>1
<1>4. PICK t : t = SubSeq(s, m + 1, Len(s))
  OBVIOUS
<1>5. t \in Seq(Bytes) /\ Len(t) = a - m /\ \A i \in 1..(a - m) : t[i] = s[m + i]
  <2>1. /\ t \in Seq(Bytes) /\ Len(t) = IF m <= Len(s) THEN Len(s) - m ELSE 0
        /\ \A i \in 1..(Len(s) - m) : t[i] = s[m + i]
    BY ONLY <1>3, <1>4, RestOf, s \in Seq(Bytes)
  <2>2. m <= Len(s)
    BY <1>1, <1>3
  <2> QED
    BY <1>1, <2>1, <2>2
<1>6. Len(t) >= 2 /\ t[1] = d /\ t[2] = "CR"
  <2>1. 1 \in 1..(a - m) /\ 2 \in 1..(a - m) /\ m + 2 = j + 5 /\ a - m >= 2
    BY <1>1, <1>3
  <2> QED
    BY <1>3, <1>5, <2>1
<1>7. atoi(t) = Digit[d]
  BY <1>5, <1>6, AtoiDigit
<1> QED
  BY <1>2, <1>3, <1>4, <1>7

ReportKinds == {"nw3", "nw5", "inactive"}
NoneCut(ends) == \A k \in 1..Len(sent) : sent[k] \in ReportKinds => Whole(k, ends)

\* A line of kind l ended in from+1..to.
Arrived(l, from, to) == \E k \in 1..Len(sent) : sent[k] = l /\ from < End(k) /\ End(k) <= to

LEMMA EndsPositive == ASSUME sent \in Seq(Kinds), NEW k \in 1..Len(sent) PROVE End(k) \in Nat /\ 0 < End(k)
<1>1. k \in 0..Len(sent) /\ 0 \in 0..Len(sent) /\ 0 < k
  OBVIOUS
<1> QED
  BY <1>1, LineEnds, LaterEnds

LEMMA ReportText ==
  /\ \A l \in {"nw3", "nw5"} :
       /\ Len(Text[l]) = 9 /\ Text[l][3] = "plus" /\ Text[l][4] = "N" /\ Text[l][5] = "colon"
       /\ Text[l][6] = "space" /\ Text[l][8] = "CR"
  /\ Text["nw3"][7] = "3" /\ Text["nw5"][7] = "5"
  /\ Len(Text["inactive"]) = 10
  /\ Text["inactive"][3] = "plus" /\ Text["inactive"][4] = "C" /\ Text["inactive"][5] = "colon"
  /\ Text["inactive"][6] = "1" /\ Text["inactive"][7] = "comma" /\ Text["inactive"][8] = "0"
BY TextOf DEF Reads

\* Every report found in the buffer is that of a line that has arrived ...
LEMMA ReportsFrom ==
  ASSUME sent \in Seq(Kinds), NEW s \in Seq(Bytes), NEW x \in Nat, x <= Len(Stream), NEW ends,
         Traced(s, x, ends), \A i \in 1..Len(s) : s[i] # "NUL", NoneCut(ends), NEW v \in Reports(s)
  PROVE  (v = 3 /\ Arrived("nw3", 0, x)) \/ (v = 5 /\ Arrived("nw5", 0, x))
<1>1. PICK y : y \in Behind(s, NWSTATEIND) /\ v = atoi(SubSeq(s, y, Len(s)))
  BY DEF Reports
<1>2. PICK j \in 1..(Len(s) - 3) :
        y = j + 4 /\ s[j] = "plus" /\ s[j + 1] = "N" /\ s[j + 2] = "colon" /\ s[j + 3] = "space"
  BY <1>1, ReportPlaces
<1>3. PICK src \in [1..Len(s) -> Int] : Traces(s, src, x, ends)
  BY DEF Traced
<1>4. PICK i \in 1..Len(s) : i = j + 1 /\ j \in 1..Len(s)
  <2>1. Len(s) \in Nat
    OBVIOUS
  <2>2. j + 1 \in 1..Len(s) /\ j \in 1..Len(s)
    BY <2>1
  <2> QED
    BY <2>2
<1>5. src[i] \in 1..x /\ Stream[src[i]] = "N"
  BY <1>2, <1>3, <1>4 DEF Traces
<1>6. PICK z \in 1..Len(Stream) : z = src[i]
  <2>1. Len(Stream) \in Nat
    BY StreamTyped
  <2> QED
    BY <1>5, <2>1
<1>7. PICK k \in 1..Len(sent) : z = End(k - 1) + 4 /\ sent[k] \in {"nw3", "nw5"}
  BY <1>5, <1>6, WhereInStream
<1>8. Whole(k, ends) /\ sent[k] \in Kinds
  BY <1>7 DEF NoneCut, ReportKinds
<1>9. PICK l : l = sent[k] /\ l \in {"nw3", "nw5"}
  BY <1>7
<1>10. End(k) <= x /\ Onward(s, i, 4, Text[l])
  <2>1. Len(Text[l]) = 9
    BY <1>9, ReportText
  <2>2. PICK o : o = 4 /\ o \in 1..Len(Text[sent[k]])
    BY <1>9, <2>1
  <2>3. src[i] = End(k - 1) + o
    BY <1>6, <1>7, <2>2
  <2>4. End(k) <= x /\ Onward(s, i, o, Text[sent[k]])
    BY <1>3, <1>8, <2>2, <2>3, LineFollows
  <2> QED
    BY <1>9, <2>2, <2>4
<1>11. s[j + 4] = Text[l][7] /\ s[j + 5] = "CR" /\ j + 5 \in 1..Len(s)
  <2>1. i + (7 - 4) = j + 4 /\ i + (8 - 4) = j + 5
    BY <1>4
  <2>2. Len(Text[l]) = 9 /\ Text[l][8] = "CR"
    BY <1>9, ReportText
  <2>3. /\ i + (7 - 4) \in 1..Len(s) /\ s[i + (7 - 4)] = Text[l][7]
        /\ i + (8 - 4) \in 1..Len(s) /\ s[i + (8 - 4)] = Text[l][8]
    <3>1. 7 \in 4..Len(Text[l]) /\ 8 \in 4..Len(Text[l])
      BY <2>2
    <3> QED
      BY <1>10, <3>1 DEF Onward
  <2> QED
    BY <2>1, <2>2, <2>3
<1>12. PICK d \in {"3", "5"} : d = Text[l][7]
  BY <1>9, ReportText
<1>13. v = Digit[d]
  BY <1>1, <1>2, <1>4, <1>11, <1>12, ReportAt
<1>14. Arrived(l, 0, x)
  BY <1>9, <1>10, EndsPositive DEF Arrived
<1> QED
  BY <1>9, <1>12, <1>13, <1>14, ReportText, DigitIs

\* ... and a line that arrives is found.
LEMMA NewText ==
  ASSUME sent \in Seq(Kinds), NEW s, pos \in Nat, NEW n \in Nat,
         Len(s) \in Nat, n <= Len(s), \A i \in 1..n : s[i] = Stream[pos + i],
         NEW k \in 1..Len(sent), pos <= End(k - 1), End(k) <= pos + n
  PROVE  \E b \in Nat : HasText(s, b, Text[sent[k]])
<1>1. PICK e \in Nat, l \in Nat : e = End(k - 1) /\ l = Len(Text[sent[k]]) /\ End(k) = e + l
  <2>1. k - 1 \in 0..Len(sent) /\ sent[k] \in Kinds
    OBVIOUS
  <2>2. End(k - 1) \in Nat /\ End(k) = End(k - 1) + Len(Text[sent[k]]) /\ Len(Text[sent[k]]) \in Nat
    BY <2>1, LineEnds, LengthOfText
  <2> QED
    BY <2>2
<1>2. PICK b \in Nat, a \in Nat : b = e - pos /\ a = Len(s) /\ n <= a
  <2>1. pos <= e
    BY <1>1
  <2>2. e - pos \in Nat
    BY <1>1, <2>1
  <2> QED
    BY <2>2
<1>3. e + l <= pos + n
  BY <1>1
<1>4. ASSUME NEW m \in 1..l PROVE b + m \in 1..a /\ s[b + m] = Text[sent[k]][m]
  <2>1. b + m \in 1..n /\ pos + (b + m) = e + m
    <3>1. PICK y \in Nat : y = pos
      OBVIOUS
    <3>2. b = e - y /\ e + l <= y + n /\ m \in Nat /\ 1 <= m /\ m <= l
      BY <1>1, <1>2, <1>3, <3>1
    <3>3. b + m \in 1..n /\ y + (b + m) = e + m
      BY ONLY <3>2, b \in Nat, e \in Nat, y \in Nat, l \in Nat, n \in Nat
    <3> QED
      BY <3>1, <3>3
  <2>2. Stream[e + m] = Text[sent[k]][m]
    BY <1>1, CharOfLine
  <2>3. b + m \in 1..a
    BY SMTT(60), <1>1, <1>2, <2>1
  <2> QED
    BY <2>1, <2>2, <2>3
<1> QED
  BY <1>1, <1>2, <1>4 DEF HasText

LEMMA TextAt ==
  ASSUME NEW s, NEW b \in Nat, NEW t, HasText(s, b, t), Len(t) \in {9, 10}
  PROVE  /\ b + 3 \in 1..Len(s) /\ b + 8 \in 1..Len(s) /\ s[b + 3] = t[3] /\ s[b + 4] = t[4]
         /\ s[b + 5] = t[5] /\ s[b + 6] = t[6] /\ s[b + 7] = t[7] /\ s[b + 8] = t[8]
<1>1. PICK n : n = Len(t) /\ n \in {9, 10}
  BY Zenon
<1>2. 3 \in 1..n /\ 4 \in 1..n /\ 5 \in 1..n /\ 6 \in 1..n /\ 7 \in 1..n /\ 8 \in 1..n
  BY <1>1
<1> QED
  BY <1>1, <1>2 DEF HasText

LEMMA ReportsOf ==
  ASSUME sent \in Seq(Kinds), NEW s \in Seq(Bytes), pos \in Nat, NEW n \in Nat, n <= Len(s),
         \A i \in 1..n : s[i] = Stream[pos + i],
         NEW k \in 1..Len(sent), pos <= End(k - 1), End(k) <= pos + n
  PROVE  /\ sent[k] = "nw3" => 3 \in Reports(s)
         /\ sent[k] = "nw5" => 5 \in Reports(s)
         /\ sent[k] = "inactive" => Behind(s, CGACT) # {}
<1>1. PICK b \in Nat : HasText(s, b, Text[sent[k]])
  <2>1. Len(s) \in Nat
    OBVIOUS
  <2> QED
    BY <2>1, NewText
<1>2. PICK j \in Nat : /\ j = b + 3 /\ b + 4 = j + 1 /\ b + 5 = j + 2 /\ b + 6 = j + 3
                       /\ b + 7 = j + 4 /\ b + 8 = j + 5
  OBVIOUS
<1>3. ASSUME NEW l \in {"nw3", "nw5"}, sent[k] = l, NEW d \in {"3", "5"}, d = Text[l][7]
      PROVE  Digit[d] \in Reports(s)
  <2>1. PICK t : t = Text[l] /\ HasText(s, b, t)
    BY <1>1, <1>3
  <2>2. /\ Len(t) = 9 /\ t[3] = "plus" /\ t[4] = "N" /\ t[5] = "colon"
        /\ t[6] = "space" /\ t[7] = d /\ t[8] = "CR"
    BY <1>3, <2>1, ReportText
  <2>3. /\ b + 3 \in 1..Len(s) /\ b + 8 \in 1..Len(s) /\ s[b + 3] = t[3] /\ s[b + 4] = t[4]
        /\ s[b + 5] = t[5] /\ s[b + 6] = t[6] /\ s[b + 7] = t[7] /\ s[b + 8] = t[8]
    <3>1. HasText(s, b, t) /\ Len(t) \in {9, 10}
      BY <2>1, <2>2
    <3> QED
      BY ONLY <3>1, TextAt, b \in Nat
  <2>5. /\ j \in 1..Len(s) /\ j + 5 \in 1..Len(s) /\ s[j] = "plus" /\ s[j + 1] = "N" /\ s[j + 2] = "colon"
        /\ s[j + 3] = "space" /\ s[j + 4] = d /\ s[j + 5] = "CR"
    BY <1>2, <2>2, <2>3
  <2>6. j + 4 \in Behind(s, NWSTATEIND) /\ atoi(SubSeq(s, j + 4, Len(s))) = Digit[d]
    BY <2>5, ReportAt
  <2> QED
    BY <2>6 DEF Reports
<1>4. ASSUME sent[k] = "inactive" PROVE Behind(s, CGACT) # {}
  <2>1. PICK t : t = Text["inactive"] /\ HasText(s, b, t)
    BY <1>1, <1>4
  <2>2. /\ Len(t) = 10 /\ t[3] = "plus" /\ t[4] = "C" /\ t[5] = "colon"
        /\ t[6] = "1" /\ t[7] = "comma" /\ t[8] = "0"
    BY <2>1, ReportText
  <2>3. /\ b + 3 \in 1..Len(s) /\ b + 8 \in 1..Len(s) /\ s[b + 3] = t[3] /\ s[b + 4] = t[4]
        /\ s[b + 5] = t[5] /\ s[b + 6] = t[6] /\ s[b + 7] = t[7] /\ s[b + 8] = t[8]
    <3>1. HasText(s, b, t) /\ Len(t) \in {9, 10}
      BY <2>1, <2>2
    <3> QED
      BY ONLY <3>1, TextAt, b \in Nat
  <2>5. /\ j \in 1..(Len(s) - 5) /\ s[j] = "plus" /\ s[j + 1] = "C" /\ s[j + 2] = "colon"
        /\ s[j + 3] = "1" /\ s[j + 4] = "comma" /\ s[j + 5] = "0"
    <3>1. PICK a \in Nat : a = Len(s)
      OBVIOUS
    <3>2. j \in 1..(a - 5)
      <4>1. b + 3 \in 1..a /\ b + 8 \in 1..a
        BY <2>3, <3>1
      <4> QED
        BY <1>2, <4>1
    <3> QED
      BY <1>2, <2>2, <2>3, <3>1, <3>2
  <2>6. PICK y : y = j + 6
    OBVIOUS
  <2>7. y \in Behind(s, CGACT)
    BY <2>5, <2>6, ClosedPlaces
  <2> QED
    BY <2>7
<1> QED
  BY <1>3, <1>4, ReportText, DigitIs

LEMMA ClosedFrom ==
  ASSUME sent \in Seq(Kinds), NEW s \in Seq(Bytes), NEW x \in Nat, x <= Len(Stream), NEW ends,
         Traced(s, x, ends), \A i \in 1..Len(s) : s[i] # "NUL", NoneCut(ends), Behind(s, CGACT) # {}
  PROVE  Arrived("inactive", 0, x)
<1>1. PICK y : y \in Behind(s, CGACT)
  OBVIOUS
<1>2. PICK j \in 1..(Len(s) - 5) : s[j + 1] = "C"
  BY <1>1, ClosedPlaces
<1>3. PICK src \in [1..Len(s) -> Int] : Traces(s, src, x, ends)
  BY DEF Traced
<1>4. PICK i \in 1..Len(s) : i = j + 1
  <2>1. Len(s) \in Nat
    OBVIOUS
  <2>2. j + 1 \in 1..Len(s)
    BY <2>1
  <2> QED
    BY <2>2
<1>5. src[i] \in 1..x /\ Stream[src[i]] = "C"
  BY <1>2, <1>3, <1>4 DEF Traces
<1>6. PICK z \in 1..Len(Stream) : z = src[i]
  <2>1. Len(Stream) \in Nat
    BY StreamTyped
  <2> QED
    BY <1>5, <2>1
<1>7. PICK k \in 1..Len(sent) : z = End(k - 1) + 4 /\ sent[k] = "inactive"
  BY <1>5, <1>6, WhereInStream
<1>8. Whole(k, ends)
  BY <1>7 DEF NoneCut, ReportKinds
<1>9. PICK o : o = 4 /\ o \in 1..Len(Text[sent[k]])
  BY <1>7, ReportText
<1>10. src[i] = End(k - 1) + o
  BY <1>6, <1>7, <1>9
<1>11. End(k) <= x
  BY <1>3, <1>8, <1>9, <1>10, LineFollows
<1> QED
  BY <1>7, <1>11, EndsPositive DEF Arrived

\* What the modem has reported up to place x.
Value(x) == IF Arrived("nw5", 0, x) THEN 5 ELSE IF Arrived("nw3", 0, x) THEN 3 ELSE 0

\* Between two transfers.
StateInv ==
  /\ pos = 0 \/ pos \in cuts
  /\ Traced(c, pos, cuts)
  /\ NoneCut(cuts) => nwstate = Value(pos) /\ (cgact_1_0 <=> Arrived("inactive", 0, pos))

\* A line that arrives in a transfer is in it as a whole, unless it was cut.
LEMMA NewLine ==
  ASSUME ScannerInv, pos = 0 \/ pos \in cuts, NEW ends, cuts \subseteq ends, NoneCut(ends),
         NEW k \in 1..Len(sent), sent[k] \in ReportKinds, pos < End(k)
  PROVE  pos <= End(k - 1)
<1>1. sent \in Seq(Kinds) /\ pos \in Nat
  <2>1. sent \in Seq(Kinds) /\ pos \in 0..Len(Stream) /\ Len(Stream) \in Nat
    BY StreamTyped DEF ScannerInv
  <2> QED
    BY <2>1
<1>2. End(k - 1) \in Nat
  <2>1. k - 1 \in 0..Len(sent)
    BY <1>1
  <2> QED
    BY <1>1, <2>1, LineEnds
<1>3. Whole(k, ends)
  BY DEF NoneCut
<1>4. CASE pos = 0
  BY <1>2, <1>4
<1>5. CASE pos \in ends
  <2>1. ~(End(k - 1) < pos /\ pos < End(k))
    BY <1>3, <1>5 DEF Whole
  <2> QED
    BY <1>1, <1>2, <2>1
<1> QED
  BY <1>4, <1>5

LEMMA ArrivedBy ==
  ASSUME ScannerInv, NEW x \in Nat, pos <= x, NEW l, Arrived(l, 0, x)
  PROVE  Arrived(l, 0, pos) \/ \E k \in 1..Len(sent) : sent[k] = l /\ pos < End(k) /\ End(k) <= x
<1>1. PICK k \in 1..Len(sent) : sent[k] = l /\ 0 < End(k) /\ End(k) <= x
  BY DEF Arrived
<1>2. End(k) \in Nat /\ pos \in Nat
  <2>1. sent \in Seq(Kinds) /\ pos \in 0..Len(Stream) /\ Len(Stream) \in Nat
    BY StreamTyped DEF ScannerInv
  <2> QED
    BY <2>1, EndsPositive
<1>3. CASE End(k) <= pos
  BY <1>1, <1>3 DEF Arrived
<1>4. CASE ~(End(k) <= pos)
  BY <1>1, <1>2, <1>4
<1> QED
  BY <1>3, <1>4

LEMMA ArrivedStays ==
  ASSUME ScannerInv, NEW x \in Nat, pos <= x, NEW l, Arrived(l, 0, pos)
  PROVE  Arrived(l, 0, x)
<1>1. PICK k \in 1..Len(sent) : sent[k] = l /\ 0 < End(k) /\ End(k) <= pos
  BY DEF Arrived
<1>2. End(k) \in Nat /\ pos \in Nat
  <2>1. sent \in Seq(Kinds) /\ pos \in 0..Len(Stream) /\ Len(Stream) \in Nat
    BY StreamTyped DEF ScannerInv
  <2> QED
    BY <2>1, EndsPositive
<1>3. End(k) <= x
  BY <1>1, <1>2
<1> QED
  BY <1>1, <1>3 DEF Arrived

LEMMA InitState == Init => StateInv
<1> SUFFICES ASSUME Init PROVE StateInv
  OBVIOUS
<1>1. sent \in Seq(Kinds)
  BY InitScanner DEF ScannerInv
<1>2. pos = 0 /\ c = << >> /\ cuts = {} /\ nwstate = 0 /\ ~cgact_1_0
  BY Zenon DEF Init
<1>3. Traced(c, pos, cuts)
  <2>1. PICK src : src = [i \in 1..Len(c) |-> 0]
    OBVIOUS
  <2>2. 1..Len(c) = {} /\ src \in [1..Len(c) -> Int]
    BY <1>2, <2>1
  <2>3. Traces(c, src, pos, cuts)
    BY <2>2 DEF Traces
  <2> QED
    BY <2>2, <2>3 DEF Traced
<1>4. \A l : ~Arrived(l, 0, pos)
  <2>1. ASSUME NEW k \in 1..Len(sent), End(k) <= pos PROVE FALSE
    <3>1. End(k) \in Nat /\ 0 < End(k)
      BY <1>1, EndsPositive
    <3> QED
      BY <1>2, <2>1, <3>1
  <2> QED
    BY <2>1 DEF Arrived
<1>5. nwstate = Value(pos)
  BY <1>2, <1>4 DEF Value
<1>6. cgact_1_0 <=> Arrived("inactive", 0, pos)
  BY <1>2, <1>4, Zenon
<1> QED
  BY <1>2, <1>3, <1>5, <1>6, Zenon DEF StateInv

\* What a transfer of n characters does to nwstate and cgact_1_0.
LEMMA TransferReports ==
  ASSUME ScannerInv, BufferInv, StateInv, NEW n \in 1..(Len(Stream) - pos), NEW x, x = pos + n,
         NEW ends, ends = cuts \cup {x}, NoneCut(ends), NEW s, Traced(s, x, ends), Seen(s, n)
  PROVE  /\ find_nws(s) = Value(x)
         /\ (cgact_1_0 \/ Behind(s, CGACT) # {}) <=> Arrived("inactive", 0, x)
<1>0. /\ s \in Seq(Bytes) /\ \A i \in 1..Len(s) : s[i] # "NUL"
      /\ n <= Len(s) /\ \A i \in 1..n : s[i] = Stream[pos + i]
  BY DEF Seen
<1>1. sent \in Seq(Kinds) /\ pos \in Nat /\ n \in Nat /\ x \in Nat /\ pos <= x /\ x <= Len(Stream)
  <2>1. sent \in Seq(Kinds) /\ pos \in 0..Len(Stream) /\ Len(Stream) \in Nat
    BY StreamTyped DEF ScannerInv
  <2> QED
    BY <2>1
<1>2. NoneCut(cuts)
  <2>1. cuts \subseteq ends
    OBVIOUS
  <2> QED
    BY <2>1 DEF NoneCut, Whole
<1>3. nwstate = Value(pos) /\ (cgact_1_0 <=> Arrived("inactive", 0, pos))
  BY <1>2, Zenon DEF StateInv
<1>4. ASSUME NEW k \in 1..Len(sent), sent[k] \in ReportKinds, pos < End(k), End(k) <= x
      PROVE  /\ sent[k] = "nw3" => 3 \in Reports(s)
             /\ sent[k] = "nw5" => 5 \in Reports(s)
             /\ sent[k] = "inactive" => Behind(s, CGACT) # {}
  <2>1. pos <= End(k - 1)
    <3>1. cuts \subseteq ends /\ (pos = 0 \/ pos \in cuts)
      BY DEF StateInv
    <3> QED
      BY <1>4, <3>1, NewLine
  <2>2. End(k) <= pos + n
    BY <1>4
  <2> QED
    BY <1>0, <1>1, <2>1, <2>2, ReportsOf
<1>5. \A v \in Reports(s) : (v = 3 /\ Arrived("nw3", 0, x)) \/ (v = 5 /\ Arrived("nw5", 0, x))
  BY <1>0, <1>1, ReportsFrom
<1>6. find_nws(s) = Value(x)
  <2>1. PICK R : R = Reports(s)
    OBVIOUS
  <2>2. R \subseteq {3, 5} /\ (3 \in R => Arrived("nw3", 0, x)) /\ (5 \in R => Arrived("nw5", 0, x))
    BY <1>5, <2>1
  <2>3. /\ Arrived("nw3", 0, x) => Arrived("nw3", 0, pos) \/ 3 \in R
        /\ Arrived("nw5", 0, x) => Arrived("nw5", 0, pos) \/ 5 \in R
    <3>1. ASSUME NEW l \in {"nw3", "nw5"}, Arrived(l, 0, x), ~Arrived(l, 0, pos)
          PROVE  (l = "nw3" => 3 \in R) /\ (l = "nw5" => 5 \in R)
      <4>1. PICK k \in 1..Len(sent) : sent[k] = l /\ pos < End(k) /\ End(k) <= x
        BY <1>1, <3>1, ArrivedBy
      <4>2. sent[k] \in ReportKinds
        BY <4>1 DEF ReportKinds
      <4> QED
        BY <1>4, <2>1, <4>1, <4>2
    <3> QED
      BY <3>1
  <2>4. /\ Arrived("nw3", 0, pos) => Arrived("nw3", 0, x)
        /\ Arrived("nw5", 0, pos) => Arrived("nw5", 0, x)
    BY <1>1, ArrivedStays
  <2>5. PICK v, m : v = nwstate /\ v = Value(pos) /\ m = Value(x)
    BY <1>3
  <2>6. m \in {v} \cup R /\ v <= m /\ \A y \in R : y <= m
    <3>1. CASE Arrived("nw5", 0, x)
      <4>1. m = 5 /\ (5 \in R \/ v = 5) /\ v \in {0, 3, 5}
        BY <2>3, <2>5, <3>1 DEF Value
      <4> QED
        BY <2>2, <4>1
    <3>2. CASE ~Arrived("nw5", 0, x) /\ Arrived("nw3", 0, x)
      <4>1. m = 3 /\ (3 \in R \/ v = 3) /\ v \in {0, 3} /\ 5 \notin R
        BY <2>2, <2>3, <2>4, <2>5, <3>2 DEF Value
      <4> QED
        BY <2>2, <4>1
    <3>3. CASE ~Arrived("nw5", 0, x) /\ ~Arrived("nw3", 0, x)
      <4>1. m = 0 /\ v = 0 /\ R = {}
        BY <2>2, <2>4, <2>5, <3>3 DEF Value
      <4> QED
        BY <4>1
    <3> QED
      BY <3>1, <3>2, <3>3
  <2>7. {v} \cup R \subseteq Nat
    <3>1. v \in {0, 3, 5}
      BY <2>5 DEF Value
    <3> QED
      BY <2>2, <3>1
  <2>8. Largest({v} \cup R) = m
    <3>1. PICK T : T = {v} \cup R
      OBVIOUS
    <3>2. m \in T /\ T \subseteq Nat /\ \A y \in T : y <= m
      BY <2>6, <2>7, <3>1
    <3> QED
      BY <3>1, <3>2, LargestIs
  <2> QED
    BY <2>1, <2>5, <2>8 DEF find_nws
<1>7. (cgact_1_0 \/ Behind(s, CGACT) # {}) <=> Arrived("inactive", 0, x)
  <2>1. ASSUME Behind(s, CGACT) # {} PROVE Arrived("inactive", 0, x)
    BY <1>0, <1>1, <2>1, ClosedFrom
  <2>2. Arrived("inactive", 0, pos) => Arrived("inactive", 0, x)
    BY <1>1, ArrivedStays
  <2>3. ASSUME Arrived("inactive", 0, x), ~Arrived("inactive", 0, pos) PROVE Behind(s, CGACT) # {}
    <3>1. PICK l : l = "inactive" /\ Arrived(l, 0, x) /\ ~Arrived(l, 0, pos)
      BY <2>3
    <3>2. PICK k \in 1..Len(sent) : sent[k] = l /\ pos < End(k) /\ End(k) <= x
      BY <1>1, <3>1, ArrivedBy
    <3>3. sent[k] \in ReportKinds
      BY <3>1, <3>2 DEF ReportKinds
    <3> QED
      BY <1>4, <3>1, <3>2, <3>3
  <2> QED
    BY <1>3, <2>1, <2>2, <2>3, Zenon
<1> QED
  BY <1>6, <1>7, Zenon

\* The lines stay what they are.
LEMMA LinesStay ==
  ASSUME sent' = sent
  PROVE  /\ NoneCut(cuts)' <=> NoneCut(cuts')
         /\ Arrived("nw3", 0, pos)' <=> Arrived("nw3", 0, pos')
         /\ Arrived("nw5", 0, pos)' <=> Arrived("nw5", 0, pos')
         /\ Arrived("inactive", 0, pos)' <=> Arrived("inactive", 0, pos')
         /\ Traced(c, pos, cuts)' <=> Traced(c', pos', cuts')
<1>1. \A k : End(k)' = End(k)
  BY EndsStay
<1>2. Stream' = Stream
  BY StreamStays
<1>3. NoneCut(cuts)' <=> NoneCut(cuts')
  BY <1>1 DEF NoneCut, Whole
<1>4. /\ Arrived("nw3", 0, pos)' <=> Arrived("nw3", 0, pos')
      /\ Arrived("nw5", 0, pos)' <=> Arrived("nw5", 0, pos')
      /\ Arrived("inactive", 0, pos)' <=> Arrived("inactive", 0, pos')
  BY <1>1 DEF Arrived
<1>5. Traced(c, pos, cuts)' <=> Traced(c', pos', cuts')
  BY <1>2 DEF Traced, Traces
<1> QED
  BY <1>3, <1>4, <1>5

LEMMA NextState == ScannerInv /\ BufferInv /\ StateInv /\ [Next]_vars => StateInv'
<1> SUFFICES ASSUME ScannerInv, BufferInv, StateInv, [Next]_vars PROVE StateInv'
  OBVIOUS
<1>1. ASSUME NEW n \in 1..(Len(Stream) - pos), Transfer(n) PROVE StateInv'
  <2>1. PICK new : new = SubSeq(Stream, pos + 1, pos + n)
    OBVIOUS
  <2>2. PICK full : full = new \o SubSeq(c, n + 1, Len(c))
    OBVIOUS
  <2>3. PICK s : s = String(full)
    OBVIOUS
  <2>4. PICK d : d = new \o <<"NUL">> \o SubSeq(c, n + 2, Len(c))
    OBVIOUS
  <2>5. PICK x : x = pos + n
    OBVIOUS
  <2>6. PICK ends : ends = cuts \cup {x}
    OBVIOUS
  <2>7. /\ c' = d /\ nwstate' = find_nws(s) /\ cuts' = ends /\ pos' = x /\ sent' = sent
        /\ cgact_1_0' = (cgact_1_0 \/ Behind(s, CGACT) # {})
    BY <1>1, <2>1, <2>2, <2>3, <2>4, <2>5, <2>6, BufferParts
  <2>8. Traced(d, x, ends) /\ Traced(s, x, ends) /\ Seen(s, n)
    <3>1. c \in Seq(Bytes) /\ Traced(c, pos, cuts)
      BY DEF BufferInv, StateInv
    <3> QED
      BY <2>1, <2>2, <2>3, <2>4, <2>5, <2>6, <3>1, TransferTraced
  <2>9. ASSUME NoneCut(ends)
        PROVE  /\ find_nws(s) = Value(x)
               /\ (cgact_1_0 \/ Behind(s, CGACT) # {}) <=> Arrived("inactive", 0, x)
    BY <2>5, <2>6, <2>8, <2>9, TransferReports
  <2>10. /\ NoneCut(cuts)' <=> NoneCut(ends)
         /\ Arrived("nw3", 0, pos)' <=> Arrived("nw3", 0, x)
         /\ Arrived("nw5", 0, pos)' <=> Arrived("nw5", 0, x)
         /\ Arrived("inactive", 0, pos)' <=> Arrived("inactive", 0, x)
         /\ Traced(c, pos, cuts)' <=> Traced(d, x, ends)
    BY <2>7, LinesStay
  <2>11. Value(pos)' = Value(x)
    BY <2>10 DEF Value
  <2>12. pos' \in cuts'
    BY <2>6, <2>7
  <2>13. ASSUME NoneCut(cuts)'
         PROVE  (nwstate = Value(pos))' /\ (cgact_1_0 <=> Arrived("inactive", 0, pos))'
    <3>1. nwstate' = Value(x)
      BY <2>7, <2>9, <2>10, <2>13
    <3>2. cgact_1_0' <=> Arrived("inactive", 0, x)
      BY <2>7, <2>9, <2>10, <2>13, Zenon
    <3> QED
      BY <2>10, <2>11, <3>1, <3>2, Zenon
  <2> QED
    BY <2>8, <2>10, <2>12, <2>13, Zenon DEF StateInv
<1>2. CASE UNCHANGED vars
  <2>1. /\ sent' = sent /\ pos' = pos /\ cuts' = cuts /\ c' = c /\ nwstate' = nwstate
        /\ cgact_1_0' = cgact_1_0
    BY <1>2 DEF vars
  <2>2. /\ NoneCut(cuts)' <=> NoneCut(cuts)
        /\ Arrived("nw3", 0, pos)' <=> Arrived("nw3", 0, pos)
        /\ Arrived("nw5", 0, pos)' <=> Arrived("nw5", 0, pos)
        /\ Arrived("inactive", 0, pos)' <=> Arrived("inactive", 0, pos)
        /\ Traced(c, pos, cuts)' <=> Traced(c, pos, cuts)
    BY <2>1, LinesStay
  <2>3. Value(pos)' = Value(pos)
    BY <2>2 DEF Value
  <2> QED
    BY <2>1, <2>2, <2>3, Zenon DEF StateInv
<1> QED
  BY <1>1, <1>2 DEF Next

LEMMA StateInvariant == Spec => [](ScannerInv /\ BufferInv /\ StateInv)
BY InitScanner, NextScanner, InitBuffer, NextBuffer, InitState, NextState, PTL DEF Spec

\* If no report was cut, nwstate is the largest the modem has reported, and cgact_1_0
\* says whether it reported +CGACT:1,0: the bytes that earlier transfers left behind the
\* new ones in the buffer do no harm (modem.c:59-78).
THEOREM StateFromReportsHolds == Spec => []StateFromReports
<1>1. ScannerInv /\ BufferInv /\ StateInv => StateFromReports
  <2> SUFFICES ASSUME ScannerInv, BufferInv, StateInv PROVE StateFromReports
    OBVIOUS
  <2> DEFINE arrived == LinesIn(0, pos)
             partly == {k \in DOMAIN sent : IsCut(k) /\ sent[k] \in {"nw3", "nw5", "inactive"}}
             values == {0} \cup {3 : k \in {x \in arrived : sent[x] = "nw3"}}
                           \cup {5 : k \in {x \in arrived : sent[x] = "nw5"}}
  <2>1. DOMAIN sent = 1..Len(sent)
    BY DEF ScannerInv
  <2>2. ASSUME partly = {} PROVE NoneCut(cuts)
    BY <2>1, <2>2 DEF NoneCut, Whole, IsCut, ReportKinds
  <2>3. \A l : Arrived(l, 0, pos) <=> \E k \in arrived : sent[k] = l
    BY <2>1 DEF Arrived, LinesIn
  <2>4. Largest(values) = Value(pos)
    <3>1. /\ values \subseteq {0, 3, 5} /\ 0 \in values
          /\ 3 \in values <=> Arrived("nw3", 0, pos)
          /\ 5 \in values <=> Arrived("nw5", 0, pos)
      BY <2>3
    <3> HIDE DEF values
    <3>2. PICK m : m = Value(pos)
      OBVIOUS
    <3>3. m \in values /\ values \subseteq Nat /\ \A y \in values : y <= m
      BY <3>1, <3>2 DEF Value
    <3> QED
      BY <3>2, <3>3, LargestIs
  <2>5. ASSUME partly = {} PROVE nwstate = Value(pos) /\ (cgact_1_0 <=> Arrived("inactive", 0, pos))
    BY <2>2, <2>5, Zenon DEF StateInv
  <2>6. ASSUME partly = {} PROVE cgact_1_0 = \E k \in arrived : sent[k] = "inactive"
    <3>1. cgact_1_0 \in BOOLEAN
      BY DEF BufferInv
    <3>2. cgact_1_0 <=> \E k \in arrived : sent[k] = "inactive"
      BY <2>3, <2>5, <2>6, Zenon
    <3> QED
      BY <3>1, <3>2, Zenon
  <2>7. ASSUME partly = {} PROVE nwstate = Largest(values)
    BY <2>4, <2>5, <2>7
  <2> QED
    BY <2>6, <2>7, Zenon DEF StateFromReports
<1> QED
  BY <1>1, StateInvariant, PTL
=============================================================================
