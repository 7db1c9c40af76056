------------------------- MODULE POP3DialogueProofs -------------------------
(* Proofs about POP3Dialogue, for any vocabulary, any accounts and lines   *)
(* of any length.                                                          *)
EXTENDS POP3Dialogue, SequenceTheorems, WellFoundedInduction, TLAPS

(* r and w are the two parts of l, in this order.                          *)
Parts(r, w, l) ==
    /\ Len(r) + Len(w) = Len(l)
    /\ \A i \in 1 .. Len(r) : r[i] = l[i]
    /\ \A i \in 1 .. Len(w) : w[i] = l[Len(r) + i]

(* The inductive invariant of a client in lockstep: what has been received *)
(* and what is still on its way are together the line it waits for.        *)
OneLineInTransit ==
    Lockstep =>
        /\ phase = "writing" => waiting
        /\ phase = "reading" /\ ~waiting => request = << >> /\ wire = << >>
        /\ phase = "reading" /\ waiting => Parts(request, wire, Append(line, EOL))
        /\ phase = "writing" => request = Append(line, EOL) /\ wire = << >>

IInv == TypeOK /\ OwnMaildropOnly /\ OneLineInTransit

-----------------------------------------------------------------------------
(* A line is a sequence of words, so its end is not one of its words.      *)
LEMMA LinesAreSequences == ASSUME NEW l \in Lines PROVE l \in Seq(Word)
  BY DialogueAssumption DEF Lines

(* What Receive moves from the wire to the buffer stays in its place.      *)
LEMMA MoveAcross ==
  ASSUME NEW S, NEW r \in Seq(S), NEW w \in Seq(S), NEW l \in Seq(S),
         NEW n \in 1 .. Len(w)
  PROVE  /\ r \o SubSeq(w, 1, n) \in Seq(S)
         /\ SubSeq(w, n + 1, Len(w)) \in Seq(S)
         /\ Parts(r, w, l) => Parts(r \o SubSeq(w, 1, n), SubSeq(w, n + 1, Len(w)), l)
<1>1. /\ SubSeq(w, 1, n) \in Seq(S)
      /\ Len(SubSeq(w, 1, n)) = n
      /\ \A i \in 1 .. n : SubSeq(w, 1, n)[i] = w[i]
  BY SubSeqProperties
<1>2. /\ SubSeq(w, n + 1, Len(w)) \in Seq(S)
      /\ Len(SubSeq(w, n + 1, Len(w))) = Len(w) - n
      /\ \A i \in 1 .. Len(w) - n : SubSeq(w, n + 1, Len(w))[i] = w[n + i]
  BY SubSeqProperties
<1>3. /\ r \o SubSeq(w, 1, n) \in Seq(S)
      /\ Len(r \o SubSeq(w, 1, n)) = Len(r) + n
      /\ \A i \in 1 .. Len(r) : (r \o SubSeq(w, 1, n))[i] = r[i]
      /\ \A i \in 1 .. n : (r \o SubSeq(w, 1, n))[Len(r) + i] = w[i]
  BY <1>1, ConcatProperties
<1>4. ASSUME Parts(r, w, l)
      PROVE  Parts(r \o SubSeq(w, 1, n), SubSeq(w, n + 1, Len(w)), l)
  <2>1. \A i \in 1 .. Len(r) + n : (r \o SubSeq(w, 1, n))[i] = l[i]
    <3>. SUFFICES ASSUME NEW i \in 1 .. Len(r) + n
                  PROVE  (r \o SubSeq(w, 1, n))[i] = l[i]
      OBVIOUS
    <3>1. CASE i \in 1 .. Len(r)
      BY <3>1, <1>3, <1>4 DEF Parts
    <3>2. CASE i \notin 1 .. Len(r)
      <4>. DEFINE j == i - Len(r)
      <4>1. j \in 1 .. n /\ j \in 1 .. Len(w) /\ i = Len(r) + j
        BY <3>2
      <4>. QED
        BY <4>1, <1>3, <1>4 DEF Parts
    <3>. QED BY <3>1, <3>2
  <2>2. \A i \in 1 .. Len(w) - n : w[n + i] = l[Len(r) + n + i]
    BY <1>4 DEF Parts
  <2>. DEFINE head == r \o SubSeq(w, 1, n)
              tail == SubSeq(w, n + 1, Len(w))
  <2>3. /\ Len(head) = Len(r) + n /\ Len(tail) = Len(w) - n
        /\ Len(r) + Len(w) = Len(l)
    BY <1>2, <1>3, <1>4 DEF Parts
  <2>4. \A i \in 1 .. Len(w) - n : tail[i] = l[Len(r) + n + i]
    BY <1>2, <2>2
  <2>5. \A i \in 1 .. Len(r) + n : head[i] = l[i]
    BY <2>1
  <2>. HIDE DEF head, tail
  <2>6. Parts(head, tail, l)
    <3>1. Len(head) + Len(tail) = Len(l)
      BY <2>3
    <3>2. \A i \in 1 .. Len(head) : head[i] = l[i]
      BY <2>3, <2>5
    <3>3. \A i \in 1 .. Len(tail) : tail[i] = l[Len(head) + i]
      BY <2>3, <2>4
    <3>. QED BY <3>1, <3>2, <3>3 DEF Parts
  <2>. QED BY <2>6 DEF head, tail
<1>. QED BY <1>1, <1>2, <1>3, <1>4

(* A prefix of a line with its end that contains the end is all of it.     *)
LEMMA EndIsLast ==
  ASSUME NEW S, NEW e, e \notin S, NEW l \in Seq(S),
         NEW r \in Seq(S \cup {e}), NEW w \in Seq(S \cup {e}),
         Parts(r, w, Append(l, e)), NEW i \in 1 .. Len(r), r[i] = e
  PROVE  r = Append(l, e) /\ w = << >>
<1>. l \in Seq(S \cup {e})
  OBVIOUS
<1>1. /\ Append(l, e) \in Seq(S \cup {e})
      /\ Len(Append(l, e)) = Len(l) + 1
      /\ \A k \in 1 .. Len(l) : Append(l, e)[k] = l[k]
  BY AppendProperties
<1>2. i = Len(l) + 1
  <2>. SUFFICES ASSUME i # Len(l) + 1 PROVE FALSE
    OBVIOUS
  <2>1. i \in 1 .. Len(l)
    BY <1>1 DEF Parts
  <2>2. l[i] = e /\ l[i] \in S
    BY <1>1, <2>1 DEF Parts
  <2>. QED BY <2>2
<1>3. Len(w) = 0 /\ Len(r) = Len(Append(l, e))
  BY <1>1, <1>2 DEF Parts
<1>4. w = << >>
  BY <1>3, EmptySeq
<1>5. r = Append(l, e)
  BY <1>1, <1>3, SeqEqual DEF Parts
<1>. QED BY <1>4, <1>5

-----------------------------------------------------------------------------
(* Words is defined by recursion on the length of the buffer.  A recursive *)
(* function is a CHOOSE to the prover: first that there is one, then what  *)
(* it computes, each by induction over a set of lengths.                   *)

(* The library's induction takes an operator, a set needs only WFMin: a    *)
(* least number outside the set has a predecessor inside.                  *)
LEMMA Induction ==
  ASSUME NEW T, 0 \in T, \A n \in Nat : n \in T => n + 1 \in T
  PROVE  Nat \subseteq T
<1>. SUFFICES ASSUME ~ (Nat \subseteq T) PROVE FALSE
  OBVIOUS
<1>. DEFINE R == OpToRel(<, Nat)
            C == Nat \ T
<1>1. IsWellFoundedOn(R, Nat)
  BY NatLessThanWellFounded
<1>2. \A x, y \in Nat : y < x => <<y, x>> \in R
  BY DEF OpToRel
<1>. HIDE DEF R
<1>3. C \subseteq Nat /\ C # {}
  OBVIOUS
<1>4. PICK x \in C : \A y \in C : ~ (<<y, x>> \in R)
  BY <1>1, <1>3, WFMin
<1>5. x \in Nat /\ x # 0 /\ x \notin T
  BY <1>4
<1>6. x - 1 \in Nat /\ x - 1 < x /\ x - 1 + 1 = x
  BY <1>5
<1>7. x - 1 \in T
  BY <1>2, <1>4, <1>5, <1>6
<1>. QED
  BY <1>5, <1>6, <1>7

(* f[n] are the words among the first n items of b.                        *)
WordsUpTo(b, m, f) ==
    f = [n \in 0 .. m |-> IF n = 0 THEN << >>
                          ELSE IF b[n] = EOL THEN f[n - 1]
                          ELSE Append(f[n - 1], b[n])]

LEMMA WordsExist == ASSUME NEW b PROVE \A m \in Nat : \E f : WordsUpTo(b, m, f)
<1>. DEFINE T == {m \in Nat : \E f : WordsUpTo(b, m, f)}
<1>1. 0 \in T
  <2>. DEFINE f == [n \in 0 .. 0 |-> << >>]
  <2>1. WordsUpTo(b, 0, f)
    BY DEF WordsUpTo
  <2>. QED BY <2>1
<1>2. ASSUME NEW m \in Nat, m \in T PROVE m + 1 \in T
  <2>. PICK f : WordsUpTo(b, m, f)
    BY <1>2
  <2>. DEFINE next(h, n) == IF n = 0 THEN << >>
                            ELSE IF b[n] = EOL THEN h[n - 1]
                            ELSE Append(h[n - 1], b[n])
              g == [n \in 0 .. m + 1 |-> next(f, n)]
  <2>1. f = [n \in 0 .. m |-> next(f, n)]
    BY DEF WordsUpTo
  <2>2. \A n \in 0 .. m : f[n] = next(f, n)
    BY <2>1
  <2>3. \A n \in 0 .. m + 1 : g[n] = next(f, n)
    OBVIOUS
  <2>. HIDE DEF next
  <2>4. \A n \in 0 .. m : g[n] = f[n]
    BY <2>2, <2>3
  <2>. HIDE DEF g
  <2>5. \A n \in 0 .. m + 1 : next(g, n) = next(f, n)
    BY <2>4 DEF next
  <2>6. g = [n \in 0 .. m + 1 |-> next(g, n)]
    BY <2>5 DEF g
  <2>7. WordsUpTo(b, m + 1, g)
    BY <2>6 DEF WordsUpTo, next
  <2>. QED BY <2>7
<1>. HIDE DEF T
<1>3. Nat \subseteq T
  BY <1>1, <1>2, Induction
<1>. QED BY <1>3 DEF T

LEMMA WordsAre ==
  ASSUME NEW b, Len(b) \in Nat
  PROVE  \E f : /\ Words(b) = f[Len(b)]
               /\ \A n \in 0 .. Len(b) :
                    f[n] = IF n = 0 THEN << >>
                           ELSE IF b[n] = EOL THEN f[n - 1]
                           ELSE Append(f[n - 1], b[n])
<1>. DEFINE words == CHOOSE f : WordsUpTo(b, Len(b), f)
<1>1. WordsUpTo(b, Len(b), words)
  BY WordsExist
<1>2. Words(b) = words[Len(b)]
  BY DEF Words, WordsUpTo
<1>. HIDE DEF words
<1>3. \A n \in 0 .. Len(b) :
          words[n] = IF n = 0 THEN << >>
                     ELSE IF b[n] = EOL THEN words[n - 1]
                     ELSE Append(words[n - 1], b[n])
  BY <1>1 DEF WordsUpTo
<1>. QED BY <1>2, <1>3

(* No line end gets into a command, wherever the buffer was cut.           *)
LEMMA WordsType ==
  ASSUME NEW b \in Seq(Word \cup {EOL})
  PROVE  Words(b) \in Seq(Word)
<1>. Len(b) \in Nat
  OBVIOUS
<1>. PICK f : /\ Words(b) = f[Len(b)]
              /\ \A n \in 0 .. Len(b) :
                    f[n] = IF n = 0 THEN << >>
                           ELSE IF b[n] = EOL THEN f[n - 1]
                           ELSE Append(f[n - 1], b[n])
  BY WordsAre
<1>. DEFINE T == {n \in Nat : n <= Len(b) => f[n] \in Seq(Word)}
<1>1. 0 \in T
  <2>1. f[0] = << >>
    OBVIOUS
  <2>. QED BY <2>1, EmptySeq
<1>2. ASSUME NEW n \in Nat, n \in T PROVE n + 1 \in T
  <2>. SUFFICES ASSUME n + 1 <= Len(b) PROVE f[n + 1] \in Seq(Word)
    OBVIOUS
  <2>1. f[n] \in Seq(Word)
    BY <1>2
  <2>2. f[n + 1] = IF b[n + 1] = EOL THEN f[n] ELSE Append(f[n], b[n + 1])
    OBVIOUS
  <2>3. b[n + 1] \in Word \cup {EOL}
    OBVIOUS
  <2>. HIDE DEF T
  <2>4. CASE b[n + 1] = EOL
    BY <2>1, <2>2, <2>4
  <2>5. CASE b[n + 1] # EOL
    <3>1. b[n + 1] \in Word
      BY <2>3, <2>5
    <3>2. Append(f[n], b[n + 1]) \in Seq(Word)
      BY <2>1, <3>1, AppendProperties
    <3>. QED BY <2>2, <2>5, <3>2
  <2>. QED BY <2>4, <2>5
<1>. HIDE DEF T
<1>3. Len(b) \in T
  BY <1>1, <1>2, Induction
<1>. QED BY <1>3 DEF T

(* A whole line is parsed into its own words.                              *)
LEMMA WordsOfLine ==
  ASSUME NEW l \in Seq(Word)
  PROVE  Words(Append(l, EOL)) = l
<1>. DEFINE b == Append(l, EOL)
<1>1. /\ Len(b) = Len(l) + 1 /\ Len(l) \in Nat
      /\ \A n \in 1 .. Len(l) : b[n] = l[n]
      /\ b[Len(l) + 1] = EOL
  BY AppendProperties
<1>. HIDE DEF b
<1>. PICK f : /\ Words(b) = f[Len(b)]
              /\ \A n \in 0 .. Len(b) :
                    f[n] = IF n = 0 THEN << >>
                           ELSE IF b[n] = EOL THEN f[n - 1]
                           ELSE Append(f[n - 1], b[n])
  BY <1>1, WordsAre
<1>. DEFINE Prefix(w, n) ==
              w \in Seq(Word) /\ Len(w) = n /\ \A i \in 1 .. n : w[i] = l[i]
            T == {n \in Nat : n <= Len(l) => Prefix(f[n], n)}
<1>2. 0 \in T
  <2>1. f[0] = << >>
    BY <1>1
  <2>2. Prefix(<< >>, 0)
    BY EmptySeq
  <2>3. Prefix(f[0], 0)
    BY <2>1, <2>2
  <2>. HIDE DEF Prefix
  <2>. QED BY <2>3
<1>3. ASSUME NEW n \in Nat, n \in T PROVE n + 1 \in T
  <2>. SUFFICES ASSUME n + 1 <= Len(l) PROVE Prefix(f[n + 1], n + 1)
    <3>. HIDE DEF Prefix
    <3>. QED OBVIOUS
  <2>1. Prefix(f[n], n)
    <3>1. n <= Len(l)
      BY <1>1
    <3>. HIDE DEF Prefix
    <3>. QED BY <1>3, <3>1
  <2>2. n + 1 \in 1 .. Len(l) /\ l[n + 1] \in Word /\ l[n + 1] # EOL
    BY <1>1, DialogueAssumption
  <2>. HIDE DEF T
  <2>3. b[n + 1] = l[n + 1] /\ n + 1 \in 0 .. Len(b) /\ n + 1 # 0 /\ n + 1 - 1 = n
    BY <1>1, <2>2
  <2>4. f[n + 1] = Append(f[n], l[n + 1])
    <3>. DEFINE m == n + 1
    <3>1. f[m] = IF m = 0 THEN << >>
                 ELSE IF b[m] = EOL THEN f[m - 1] ELSE Append(f[m - 1], b[m])
      BY <2>3
    <3>2. m - 1 = n /\ m # 0 /\ b[m] = l[m] /\ b[m] # EOL
      BY <2>2, <2>3
    <3>. HIDE DEF m
    <3>3. f[m] = Append(f[n], l[m])
      BY <3>1, <3>2
    <3>. QED BY <3>3 DEF m
  <2>. QED BY <2>1, <2>2, <2>4, AppendProperties
<1>. HIDE DEF T
<1>4. Len(l) \in T
  BY <1>1, <1>2, <1>3, Induction
<1>5. Prefix(f[Len(l)], Len(l))
  BY <1>1, <1>4 DEF T
<1>6. f[Len(l)] = l
  BY <1>5, SeqEqual
<1>7. Words(b) = f[Len(l)]
  BY <1>1
<1>. QED BY <1>6, <1>7 DEF b

-----------------------------------------------------------------------------
LEMMA InitIInv == Init => IInv
<1>. SUFFICES ASSUME Init PROVE IInv
  OBVIOUS
<1>1. << >> \in Lines
  BY DialogueAssumption DEF Lines
<1>2. << >> \in Seq(Word \cup {EOL})
  BY EmptySeq
<1>. QED
  BY <1>1, <1>2, DialogueAssumption
  DEF Init, IInv, TypeOK, OwnMaildropOnly, OneLineInTransit, Phases

(* What the parser is given by a client in lockstep is its whole line.     *)
LEMMA CompleteLine ==
  ASSUME IInv, Lockstep, phase = "reading", LineComplete
  PROVE  waiting /\ request = Append(line, EOL) /\ wire = << >>
<1>1. /\ request \in Seq(Word \cup {EOL})
      /\ wire \in Seq(Word \cup {EOL})
  BY DEF IInv, TypeOK
<1>2. EOL \in {request[i] : i \in DOMAIN request}
  BY DEF LineComplete, ToSet
<1>3. PICK i \in 1 .. Len(request) : request[i] = EOL
  BY <1>1, <1>2
<1>4. waiting /\ Parts(request, wire, Append(line, EOL))
  BY <1>3 DEF IInv, OneLineInTransit
<1>5. line \in Seq(Word)
  BY LinesAreSequences DEF IInv, TypeOK
<1>. QED
  BY <1>1, <1>3, <1>4, <1>5, EndIsLast, DialogueAssumption

LEMMA NextIInv == IInv /\ [Next]_vars => IInv'
<1>. SUFFICES ASSUME IInv, [Next]_vars PROVE IInv'
  OBVIOUS
<1>. USE DialogueAssumption
<1>1. ASSUME NEW l \in Lines, Send(l) PROVE IInv'
  <2>1. l \in Seq(Word) /\ line \in Seq(Word)
    BY LinesAreSequences DEF IInv, TypeOK
  <2>. wire \o Append(l, EOL) \in Seq(Word \cup {EOL})
    <3>1. l \in Seq(Word \cup {EOL})
      BY <2>1
    <3>2. Append(l, EOL) \in Seq(Word \cup {EOL})
      BY <3>1, AppendProperties
    <3>3. wire \in Seq(Word \cup {EOL})
      BY DEF IInv, TypeOK
    <3>. QED BY <3>2, <3>3, ConcatProperties
  <2>2. TypeOK'
    BY <1>1 DEF Send, IInv, TypeOK, session
  <2>3. Lockstep => phase = "reading" /\ request = << >> /\ wire = << >>
    BY <1>1 DEF Send, IInv, OneLineInTransit
  <2>4. wire = << >> => Parts(<< >>, wire \o Append(l, EOL), Append(l, EOL))
    BY <2>1 DEF Parts
  <2>5. OneLineInTransit'
    BY <1>1, <2>3, <2>4 DEF Send, OneLineInTransit, session
  <2>. QED
    BY <1>1, <2>2, <2>5 DEF Send, IInv, OwnMaildropOnly, session
<1>2. CASE Receive
  <2>. PICK n \in 1 .. Len(wire) :
            /\ request' = request \o SubSeq(wire, 1, n)
            /\ wire' = SubSeq(wire, n + 1, Len(wire))
    BY <1>2 DEF Receive
  <2>1. request \in Seq(Word \cup {EOL}) /\ wire \in Seq(Word \cup {EOL})
    BY DEF IInv, TypeOK
  <2>2. line \in Seq(Word) /\ Append(line, EOL) \in Seq(Word \cup {EOL})
    <3>1. line \in Seq(Word)
      BY LinesAreSequences DEF IInv, TypeOK
    <3>. QED BY <3>1, AppendProperties
  <2>3. /\ request' \in Seq(Word \cup {EOL})
        /\ wire' \in Seq(Word \cup {EOL})
        /\ Parts(request, wire, Append(line, EOL)) => Parts(request', wire', Append(line, EOL))
    BY <2>1, <2>2, MoveAcross
  <2>4. TypeOK'
    BY <1>2, <2>3 DEF Receive, IInv, TypeOK, session
  <2>5. wire # << >>
    BY <2>1
  <2>6. OneLineInTransit'
    BY <1>2, <2>3, <2>5 DEF Receive, IInv, OneLineInTransit, session
  <2>. QED
    BY <1>2, <2>4, <2>6 DEF Receive, IInv, OwnMaildropOnly, session
<1>3. CASE HandleRequest
  <2>1. PICK ws \in Readings(request) :
            \/ Reject(ws)
            \/ state = "Authorization" /\ Anonymous(ws)
            \/ state = "Transaction" /\ Authorized(ws)
    BY <1>3 DEF HandleRequest
  <2>2. /\ phase' \in {"writing", "stuck"}
        /\ UNCHANGED <<request, wire, line, waiting>>
    BY <2>1
    DEF Reject, Anonymous, Authorized, User, PassRefused, PassAccepted, Noop,
        Quit, UserAgain, List, Dele, Retr, StatOrRset, Respond,
        RespondFromFiles, client
  <2>3. TypeOK'
    <3>1. CASE Reject(ws)
      BY <3>1, <2>2 DEF Reject, Errors, Respond, IInv, TypeOK, session, Phases
    <3>2. CASE Anonymous(ws)
      BY <3>2, <2>2
      DEF Anonymous, User, PassRefused, PassAccepted, Noop, Quit, Respond,
          RespondFromFiles, IInv, TypeOK, session, Phases, SessionErrors, AuthErrors
    <3>3. CASE Authorized(ws)
      BY <3>3, <2>2
      DEF Authorized, Noop, Quit, UserAgain, List, Dele, Retr, StatOrRset,
          Respond, RespondFromFiles, IInv, TypeOK, session, Phases, SessionErrors
    <3>. QED BY <2>1, <3>1, <3>2, <3>3
  <2>4. OwnMaildropOnly'
    <3>1. CASE Reject(ws)
      BY <3>1 DEF Reject, IInv, OwnMaildropOnly, session
    <3>2. CASE state = "Authorization" /\ Anonymous(ws)
      BY <3>2
      DEF Anonymous, User, PassRefused, PassAccepted, Noop, Quit, Respond,
          RespondFromFiles, IInv, OwnMaildropOnly, session
    <3>3. CASE Authorized(ws)
      BY <3>3
      DEF Authorized, Noop, Quit, UserAgain, List, Dele, Retr, StatOrRset,
          IInv, OwnMaildropOnly, session
    <3>. QED BY <2>1, <3>1, <3>2, <3>3
  <2>5. OneLineInTransit'
    <3>. SUFFICES ASSUME Lockstep
                  PROVE  waiting /\ request = Append(line, EOL) /\ wire = << >>
      BY <2>2 DEF OneLineInTransit
    <3>. QED
      BY <1>3, CompleteLine DEF HandleRequest
  <2>. QED BY <2>3, <2>4, <2>5 DEF IInv
<1>4. CASE BlankLineCrashes
  BY <1>4
  DEF BlankLineCrashes, IInv, TypeOK, OwnMaildropOnly, OneLineInTransit,
      session, client, Phases
<1>5. CASE Written
  <2>. << >> \in Seq(Word \cup {EOL})
    BY EmptySeq
  <2>1. TypeOK' /\ OwnMaildropOnly'
    BY <1>5 DEF Written, IInv, TypeOK, OwnMaildropOnly, session, Phases
  <2>2. OneLineInTransit'
    BY <1>5 DEF Written, IInv, OneLineInTransit, session
  <2>. QED BY <2>1, <2>2 DEF IInv
<1>6. CASE ConnectionLost
  BY <1>6
  DEF ConnectionLost, IInv, TypeOK, OwnMaildropOnly, OneLineInTransit,
      session, client, Phases
<1>7. CASE UNCHANGED vars
  BY <1>7 DEF vars, IInv, TypeOK, OwnMaildropOnly, OneLineInTransit, session
<1>. QED
  BY <1>1, <1>2, <1>3, <1>4, <1>5, <1>6, <1>7 DEF Next

-----------------------------------------------------------------------------
(* Every piece that arrives and every command that is dispatched or         *)
(* rejected preserves the ties between buffer, wire and session state.     *)
THEOREM Invariance == Spec => []IInv
  BY InitIInv, NextIInv, PTL DEF Spec

(* The types of POP3Dialogue's variables.                                  *)
THEOREM TypeCorrect == Spec => []TypeOK
<1>1. IInv => TypeOK
  BY DEF IInv
<1>. QED BY <1>1, Invariance, PTL

(* No order of USER and PASS, pipelined or not, gives a session in the     *)
(* Transaction state anything but the maildrop of the name it goes by      *)
(* (POP3Session::handleAnonymousCommand, handleAuthorizedUserCommand).     *)
THEOREM MaildropIsOwn == Spec => []OwnMaildropOnly
<1>1. IInv => OwnMaildropOnly
  BY DEF IInv
<1>. QED BY <1>1, Invariance, PTL

(* A client in lockstep gets each reply to the whole line it sent last,    *)
(* however the line was cut on its way into POP3Session::request.          *)
THEOREM RepliesMatchLines == Spec => []AnswersTheLineSent
<1>1. IInv => AnswersTheLineSent
  BY DEF IInv, OneLineInTransit, AnswersTheLineSent
<1>. QED BY <1>1, Invariance, PTL

(* A command the parser lets through has the parameter its handler takes.  *)
LEMMA ParameterPresent ==
  ASSUME IInv, NEW ws \in Readings(request), Errors(ws) = {}
  PROVE  /\ TakesString(ws[1]) => Len(ws) > 1 /\ Alternative(ws) = "string"
         /\ ws[1] = "RETR" => Alternative(ws) = "unsigned int"
<1>1. Words(request) \in Seq(Word)
  BY WordsType DEF IInv, TypeOK
<1>2. ws \in Seq(Word) /\ ws # << >>
  <2>1. CASE Words(request) = << >>
    <3>. PICK w \in Word : ws = << w >>
      BY <2>1 DEF Readings
    <3>. QED OBVIOUS
  <2>2. CASE Words(request) # << >>
    BY <1>1, <2>2 DEF Readings
  <2>. QED BY <2>1, <2>2
<1>3. Len(ws) \in Nat /\ Len(ws) # 0
  BY <1>2, EmptySeq
<1>4. /\ ws[1] = "USER" => Len(ws) # 1
      /\ ws[1] = "PASS" => Len(ws) # 1
      /\ ws[1] = "RETR" => Len(ws) # 1
      /\ ws[1] = "RETR" /\ Len(ws) > 1 => ws[2] \in Numeral
  <2>1. \A e \in ParsingErrors : e \notin Errors(ws)
    OBVIOUS
  <2>. QED BY <2>1 DEF Errors, ParsingErrors, TakesNumber
<1>5. Len(ws) # 1 => Len(ws) > 1
  <2>1. \A n \in Nat : n # 0 /\ n # 1 => n > 1
    OBVIOUS
  <2>. QED BY <1>3, <2>1
<1>6. TakesString(ws[1]) => Len(ws) > 1 /\ Alternative(ws) = "string"
  BY <1>4, <1>5 DEF TakesString, Alternative
<1>7. ws[1] = "RETR" => Alternative(ws) = "unsigned int"
  BY <1>4, <1>5 DEF Alternative, TakesString, TakesNumber
<1>. QED BY <1>6, <1>7

(* std::get<std::string> and std::get<unsigned int> in the handlers find   *)
(* what they ask for: no buffer, whatever lines or pieces of lines it      *)
(* holds, is parsed into a USER, PASS or RETR without its parameter.       *)
THEOREM ParametersArePresent == Spec => []ParametersMatchCommands
<1>1. IInv => ParametersMatchCommands
  BY ParameterPresent DEF ParametersMatchCommands
<1>. QED BY <1>1, Invariance, PTL

-----------------------------------------------------------------------------
(* The implementation of POP3Exchange by a session and a client that       *)
(* waits.                                                                  *)
LEMMA InitExchange == Init => Exchange!Init
  BY DEF Init, Exchange!Init, Turn, Answer

(* What the handlers do with the client's line is an answer to it.         *)
LEMMA HandledIsAnswered ==
  ASSUME IInv, Lockstep, HandleRequest
  PROVE  Exchange!Grant \/ Exchange!Refuse \/ Exchange!Fail
<1>. DEFINE Waits == Turn = "server"
            Replied(a) == Turn' = "reply" /\ Answer' = a /\ line' = line
            Broken == Turn' = "over" /\ Answer' = "none" /\ line' = line
<1>1. phase = "reading" /\ waiting /\ request = Append(line, EOL)
  BY CompleteLine DEF HandleRequest
<1>2. Waits
  BY <1>1 DEF Turn
<1>3. Readings(request) = Exchange!Said
  <2>1. Words(request) = line
    BY <1>1, LinesAreSequences, WordsOfLine DEF IInv, TypeOK
  <2>. QED BY <2>1 DEF Readings, Exchange!Said
<1>4. PICK ws \in Readings(request) :
          \/ Reject(ws)
          \/ Errors(ws) = {} /\ state = "Authorization" /\ Anonymous(ws)
          \/ Errors(ws) = {} /\ state = "Transaction" /\ Authorized(ws)
  BY DEF HandleRequest
<1>5. ws \in Exchange!Said
  BY <1>3
<1>. DEFINE Refusals == ParsingErrors \cup SessionErrors \cup AuthErrors
<1>6. /\ Respond("OK") /\ line' = line => Replied("granted")
      /\ \A r \in Refusals : Respond(r) /\ line' = line => Replied("refused")
  BY DEF Respond, Turn, Answer, ParsingErrors, SessionErrors, AuthErrors
<1>7. RespondFromFiles /\ line' = line => Replied("granted") \/ Broken
  BY DEF RespondFromFiles, Respond, Turn, Answer
<1>8. Waits /\ Replied("granted")
        /\ (\/ Exchange!Name(ws) \/ Exchange!LogOn(ws) \/ Exchange!UseMaildrop(ws)
            \/ Exchange!Idle(ws) \/ Exchange!Leave(ws))
        => Exchange!Grant
  BY <1>5 DEF Exchange!Grant, Exchange!Answer
<1>9. Waits /\ Replied("refused") /\ ~Exchange!Due(ws) /\ UNCHANGED <<userName, mailbox, quit>>
        => Exchange!Refuse
  BY <1>5 DEF Exchange!Refuse, Exchange!Answer, Exchange!session
<1>10. Waits /\ Broken /\ (Exchange!LogOn(ws) \/ Exchange!UseMaildrop(ws))
        => Exchange!Fail
  BY <1>5 DEF Exchange!Fail
<1>. HIDE DEF Waits, Replied, Broken
<1>11. CASE Reject(ws)
  <2>1. PICK e \in Errors(ws) : Respond(e) /\ UNCHANGED <<session, request, client>>
    BY <1>11 DEF Reject
  <2>2. Replied("refused")
    BY <2>1, <1>6 DEF Errors, ParsingErrors, client
  <2>3. ~Exchange!Due(ws)
    <3>1. \/ ws[1] \notin Commands
          \/ TakesNumber(ws[1])
          \/ TakesString(ws[1]) /\ Len(ws) = 1
      BY <2>1 DEF Errors, TakesString, TakesNumber
    <3>. QED
      BY <3>1 DEF Exchange!Due, Commands, TakesNumber, TakesString
  <2>. QED BY <1>2, <1>9, <2>1, <2>2, <2>3 DEF session
<1>12. CASE Errors(ws) = {} /\ state = "Authorization" /\ Anonymous(ws)
  <2>1. mailbox = NoName /\ ~Exchange!LoggedOn /\ line' = line
    BY <1>12 DEF IInv, OwnMaildropOnly, Exchange!LoggedOn, Anonymous, client
  <2>2. TakesString(ws[1]) => Len(ws) > 1
    BY <1>12, ParameterPresent
  <2>3. CASE ws[1] = "USER" /\ User(ws[2])
    <3>1. CASE ws[2] \in Account
      <4>1. Replied("granted") /\ userName' = ws[2] /\ UNCHANGED <<mailbox, quit>>
        BY <2>1, <2>3, <3>1, <1>6 DEF User
      <4>2. Exchange!Name(ws)
        BY <2>1, <2>2, <2>3, <3>1, <4>1
        DEF Exchange!Name, Exchange!Nameable, TakesString
      <4>. QED BY <1>2, <1>8, <4>1, <4>2
    <3>2. CASE ws[2] \notin Account
      <4>1. Replied("refused") /\ UNCHANGED <<userName, mailbox, quit>>
        BY <2>1, <2>3, <3>2, <1>6 DEF User, SessionErrors
      <4>2. ~Exchange!Due(ws)
        BY <2>3, <3>2 DEF Exchange!Due, Exchange!Nameable
      <4>. QED BY <1>2, <1>9, <4>1, <4>2
    <3>. QED BY <3>1, <3>2
  <2>4. CASE ws[1] = "PASS" /\ PassRefused(ws[2])
    <3>1. Replied("refused") /\ UNCHANGED <<userName, mailbox, quit>>
      BY <2>1, <2>4, <1>6 DEF PassRefused, session, SessionErrors, AuthErrors
    <3>2. ~Exchange!Due(ws)
      BY <2>4 DEF Exchange!Due
    <3>. QED BY <1>2, <1>9, <3>1, <3>2
  <2>5. CASE ws[1] = "PASS" /\ PassAccepted(ws[2])
    <3>1. Exchange!LogOn(ws)
      BY <2>1, <2>2, <2>5 DEF PassAccepted, Exchange!LogOn, TakesString
    <3>2. Replied("granted") \/ Broken
      BY <2>1, <2>5, <1>7 DEF PassAccepted
    <3>. QED BY <1>2, <1>8, <1>10, <3>1, <3>2
  <2>6. CASE ws[1] = "NOOP" /\ Noop
    <3>1. Replied("granted") /\ Exchange!Idle(ws)
      BY <2>1, <2>6, <1>6 DEF Noop, Exchange!Idle, Exchange!session, session
    <3>. QED BY <1>2, <1>8, <3>1
  <2>7. CASE ws[1] = "QUIT" /\ Quit
    <3>1. Replied("granted") /\ Exchange!Leave(ws)
      BY <2>1, <2>7, <1>6 DEF Quit, Exchange!Leave
    <3>. QED BY <1>2, <1>8, <3>1
  <2>8. CASE /\ ws[1] \notin {"USER", "PASS", "NOOP", "QUIT"}
             /\ Respond("ProhibitedForAnonymous")
             /\ UNCHANGED session
    <3>1. Replied("refused") /\ UNCHANGED <<userName, mailbox, quit>>
      BY <2>1, <2>8, <1>6 DEF session, SessionErrors
    <3>2. ~Exchange!Due(ws)
      BY <2>1, <2>8 DEF Exchange!Due
    <3>. QED BY <1>2, <1>9, <3>1, <3>2
  <2>. QED
    BY <1>12, <2>3, <2>4, <2>5, <2>6, <2>7, <2>8 DEF Anonymous
<1>13. CASE Errors(ws) = {} /\ state = "Transaction" /\ Authorized(ws)
  <2>1. /\ mailbox \in Account /\ mailbox = userName
        /\ Exchange!LoggedOn /\ line' = line
    BY <1>13 DEF IInv, TypeOK, OwnMaildropOnly, Exchange!LoggedOn, Authorized, client
  <2>2. TakesString(ws[1]) => Len(ws) > 1
    BY <1>13, ParameterPresent
  <2>3. ASSUME UNCHANGED session, ws[1] \in {"STAT", "LIST", "RETR", "DELE", "RSET"},
               \/ RespondFromFiles
               \/ Respond("OK")
               \/ /\ ws[1] \notin {"STAT", "RSET"}
                  /\ Respond("NoSuchMessage") \/ Respond("MessageAlreadyDeleted")
        PROVE  Exchange!Grant \/ Exchange!Refuse \/ Exchange!Fail
    <3>1. Exchange!UseMaildrop(ws)
      BY <2>1, <2>3 DEF Exchange!UseMaildrop, Exchange!session, session
    <3>2. ws[1] \notin {"STAT", "RSET"} => ~Exchange!Due(ws)
      BY <2>3 DEF Exchange!Due
    <3>3. \/ Replied("granted") \/ Broken
          \/ Replied("refused") /\ ws[1] \notin {"STAT", "RSET"}
      BY <2>1, <2>3, <1>6, <1>7 DEF SessionErrors
    <3>4. UNCHANGED <<userName, mailbox, quit>>
      BY <2>3 DEF session
    <3>. QED BY <1>2, <1>8, <1>9, <1>10, <3>1, <3>2, <3>3, <3>4
  <2>4. CASE ws[1] = "LIST" /\ List(ws)
    BY <2>3, <2>4 DEF List
  <2>5. CASE ws[1] = "DELE" /\ Dele(ws)
    BY <2>3, <2>5 DEF Dele
  <2>6. CASE ws[1] = "RETR" /\ Retr
    BY <2>3, <2>6 DEF Retr
  <2>7. CASE ws[1] \in {"STAT", "RSET"} /\ StatOrRset
    BY <2>3, <2>7 DEF StatOrRset
  <2>8. CASE ws[1] = "NOOP" /\ Noop
    <3>1. Replied("granted") /\ Exchange!Idle(ws)
      BY <2>1, <2>8, <1>6 DEF Noop, Exchange!Idle, Exchange!session, session
    <3>. QED BY <1>2, <1>8, <3>1
  <2>9. CASE ws[1] = "QUIT" /\ Quit
    <3>1. Replied("granted") /\ Exchange!Leave(ws)
      BY <2>1, <2>9, <1>6 DEF Quit, Exchange!Leave
    <3>. QED BY <1>2, <1>8, <3>1
  <2>10. CASE ws[1] = "USER" /\ UserAgain(ws[2])
    <3>1. UNCHANGED <<userName, mailbox, quit>>
      BY <2>10 DEF UserAgain, session
    <3>2. CASE ws[2] = userName
      <4>1. Replied("granted")
        BY <2>1, <2>10, <3>2, <1>6 DEF UserAgain
      <4>2. Exchange!Name(ws)
        BY <2>1, <2>2, <2>10, <3>1, <3>2
        DEF Exchange!Name, Exchange!Nameable, TakesString
      <4>. QED BY <1>2, <1>8, <4>1, <4>2
    <3>3. CASE ws[2] # userName
      <4>1. Replied("refused")
        BY <2>1, <2>10, <3>3, <1>6 DEF UserAgain, SessionErrors
      <4>2. ~Exchange!Due(ws)
        BY <2>1, <2>10, <3>3 DEF Exchange!Due, Exchange!Nameable
      <4>. QED BY <1>2, <1>9, <3>1, <4>1, <4>2
    <3>. QED BY <3>2, <3>3
  <2>11. CASE ws[1] = "PASS" /\ Respond("AlreadyLogged") /\ UNCHANGED session
    <3>1. Replied("refused") /\ UNCHANGED <<userName, mailbox, quit>>
      BY <2>1, <2>11, <1>6 DEF session, SessionErrors
    <3>2. ~Exchange!Due(ws)
      BY <2>11 DEF Exchange!Due
    <3>. QED BY <1>2, <1>9, <3>1, <3>2
  <2>. QED
    BY <1>13, <2>4, <2>5, <2>6, <2>7, <2>8, <2>9, <2>10, <2>11 DEF Authorized
<1>. QED BY <1>4, <1>11, <1>12, <1>13

LEMMA NextExchange ==
  ASSUME Lockstep, IInv, [Next]_vars
  PROVE  [Exchange!Next]_(Exchange!vars)
<1>. USE DEF Exchange!vars, Exchange!session
<1>1. ASSUME NEW l \in Lines, Send(l) PROVE Exchange!Next
  <2>1. phase = "reading" /\ ~waiting
    BY <1>1 DEF Send, IInv, OneLineInTransit
  <2>2. Turn = "client" /\ Turn' = "server"
    BY <1>1, <2>1 DEF Send, Turn
  <2>3. Exchange!Ask(l)
    BY <1>1, <2>2 DEF Send, Exchange!Ask, Answer, session
  <2>. QED BY <2>3 DEF Exchange!Next
<1>2. CASE Receive
  <2>1. UNCHANGED Exchange!vars
    BY <1>2 DEF Receive, Turn, Answer, session
  <2>. QED BY <2>1
<1>3. CASE HandleRequest
  BY <1>3, HandledIsAnswered DEF Exchange!Next
<1>4. CASE BlankLineCrashes \/ ConnectionLost
  <2>1. Turn # "over" /\ Turn' = "over"
    BY <1>4 DEF BlankLineCrashes, ConnectionLost, Turn
  <2>2. Exchange!Lose
    BY <1>4, <2>1
    DEF BlankLineCrashes, ConnectionLost, Exchange!Lose, Answer, session, client
  <2>. QED BY <2>2 DEF Exchange!Next
<1>5. CASE Written
  <2>1. Turn = "reply" /\ Turn' = IF quit THEN "over" ELSE "client"
    BY <1>5 DEF Written, Turn
  <2>2. Exchange!Deliver
    BY <1>5, <2>1 DEF Written, Exchange!Deliver, Answer, session
  <2>. QED BY <2>2 DEF Exchange!Next
<1>6. CASE UNCHANGED vars
  BY <1>6 DEF vars, Turn, Answer, session
<1>. QED
  BY <1>1, <1>2, <1>3, <1>4, <1>5, <1>6 DEF Next

(* For any vocabulary, accounts and length of lines, a session and a       *)
(* client that waits are the exchange of POP3Exchange: POP3Session::read,  *)
(* readImpl, the parser and write answer each line once and as a whole.    *)
THEOREM DialogueIsExchange == ASSUME Lockstep PROVE Spec => ExchangeSpec
<1>1. IInv /\ [Next]_vars => [Exchange!Next]_(Exchange!vars)
  BY NextExchange
<1>. QED
  BY <1>1, InitExchange, Invariance, PTL DEF Spec, ExchangeSpec, Exchange!Spec

=============================================================================
