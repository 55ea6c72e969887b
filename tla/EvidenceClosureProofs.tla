----------------------- MODULE EvidenceClosureProofs -----------------------
(***************************************************************************)
(* Proofs about EvidenceClosure for any number of stages and of inodes.     *)
(* Most are for one closer that may crash at any point: that one closer     *)
(* works at a time is what the scripts that call advance rely on, and       *)
(* without it these properties do not hold. Of Torn they assume that it is  *)
(* no document, that is, no sequence of receipts. The last section is about *)
(* any number of closers: what is left of the promise when they race.       *)
(***************************************************************************)
EXTENDS EvidenceClosure, SequenceTheorems, FiniteSetTheorems, TLAPS

TornIsNoDocument == \A S : Torn \notin Seq(S)

\* What Append does to a sequence of anything.
LEMMA AppendToDocument ==
  ASSUME NEW s, s \in Seq({s[i] : i \in DOMAIN s}), NEW r
  PROVE  LET t == Append(s, r) IN
         /\ Len(s) \in Nat /\ Len(t) = Len(s) + 1
         /\ \A i \in 1..Len(s) : t[i] = s[i]
         /\ t[Len(s) + 1] = r
         /\ t \in Seq({t[i] : i \in DOMAIN t})
         /\ s = << >> <=> Len(s) = 0
<1> DEFINE R == {s[i] : i \in DOMAIN s}
           t == Append(s, r)
<1>1. s \in Seq(R \cup {r}) /\ r \in R \cup {r}
  <2>1. R \subseteq R \cup {r}
    OBVIOUS
  <2> QED BY <2>1, SeqMonotonic
<1>2. /\ t \in Seq(R \cup {r}) /\ Len(t) = Len(s) + 1
      /\ \A i \in 1..Len(s) : t[i] = s[i]
      /\ t[Len(s) + 1] = r
  BY <1>1, AppendProperties
<1>3. t \in Seq({t[i] : i \in DOMAIN t})
  BY <1>2
<1>4. Len(s) \in Nat /\ (s = << >> <=> Len(s) = 0)
  BY <1>1, EmptySeq, LenProperties
<1> QED BY <1>2, <1>3, <1>4

\* The document a closer is about to write is one that load accepts.
LEMMA DocumentIsAccepted ==
  ASSUME NEW c \in Closers, TornIsNoDocument, ClosureIInv,
         pc[c] \in {"open", "write", "replace"}
  PROVE  /\ Accepted(document[c])
         /\ document[c] \in Seq({document[c][i] : i \in DOMAIN document[c]})
         /\ Len(document[c]) = Len(Content) + 1 /\ Len(Content) \in Nat
         /\ \A i \in 1..Len(Content) : document[c][i] = Content[i]
         /\ document[c][Len(Content) + 1] = Receipt(c, Content)
<1> DEFINE s == Content
           d == document[c]
<1>1. s \in Seq({s[i] : i \in DOMAIN s}) /\ Accepted(s)
  BY DEF ClosureIInv, LedgerLoads
<1>2. /\ d = Append(s, Receipt(c, s))
      /\ stage[c] = Len(s) + 1 /\ stage[c] \in 1..NumStages
  BY DEF ClosureIInv, CallConsistent, TypeOK, Stages
<1>3. /\ Len(s) \in Nat /\ Len(d) = Len(s) + 1
      /\ \A i \in 1..Len(s) : d[i] = s[i]
      /\ d[Len(s) + 1] = Receipt(c, s)
      /\ d \in Seq({d[i] : i \in DOMAIN d})
      /\ s = << >> <=> Len(s) = 0
  BY <1>1, <1>2, AppendToDocument
<1>4. d # Torn
  BY <1>3 DEF TornIsNoDocument
<1>5. ASSUME NEW i \in 1..Len(d)
      PROVE  d[i].stage = i /\ d[i].prior = IF i = 1 THEN Genesis ELSE d[i - 1]
  <2>1. CASE i \in 1..Len(s)
    <3>1. d[i] = s[i] /\ (i # 1 => d[i - 1] = s[i - 1])
      BY <1>3, <2>1
    <3> QED BY <1>1, <2>1, <3>1 DEF Accepted
  <2>2. CASE i = Len(s) + 1
    <3>1. d[i].stage = i /\ d[i].prior = IF s = << >> THEN Genesis ELSE s[Len(s)]
      BY <1>2, <1>3, <2>2 DEF Receipt
    <3>2. i # 1 => d[i - 1] = s[Len(s)]
      BY <1>3, <2>2
    <3> QED BY <1>3, <2>2, <3>1, <3>2
  <2> QED BY <1>3, <2>1, <2>2
<1>6. Len(d) <= NumStages
  BY <1>2, <1>3, ClosureAssumption
<1> QED BY <1>3, <1>4, <1>5, <1>6 DEF Accepted

\* With two inodes or more there is one that is not the ledger's.
LEMMA InodeIsFree ==
  ASSUME NEW c \in Closers, Closers = {c}, fd[c] = NoFile, tmp = NoFile
  PROVE  \E j \in Inodes : j \in FreeInodes
<1>1. SUFFICES ASSUME FreeInodes = {} PROVE FALSE
  BY DEF FreeInodes
<1>2. Inodes \subseteq {ledger}
  BY <1>1, ClosureAssumption DEF FreeInodes
<1>3. Cardinality({ledger}) = 1 /\ IsFiniteSet({ledger}) /\ Cardinality(Closers) = 1
  BY FS_Singleton
<1>4. Cardinality(Inodes) <= 1
  BY <1>2, <1>3, FS_Subset
<1>5. Cardinality(Inodes) \in Nat
  BY ClosureAssumption, FS_CardinalityType
<1> QED BY <1>3, <1>4, <1>5, ClosureAssumption
-----------------------------------------------------------------------------
(* The steps that leave the receipts on file alone.                         *)

LEMMA QuietStep ==
  ASSUME ClosureIInv, Content' = Content, returned' = returned, TypeOK',
         data' = [i \in Inodes |-> data'[i]],
         document' = [d \in Closers |-> document'[d]],
         (ledger # NoFile => ledger # tmp)',
         \A d \in Closers : CallConsistent(d)'
  PROVE  ClosureIInv'
<1>1. LedgerLoads' /\ ReturnedIsRecorded' /\ (Content \in Seq({Content[i] : i \in DOMAIN Content}))'
  BY DEF ClosureIInv, LedgerLoads, Accepted, ReturnedIsRecorded
<1> QED BY <1>1 DEF ClosureIInv

\* Calls that start, end or read.
LEMMA CallStep ==
  ASSUME NEW c \in Closers, Closers = {c}, TornIsNoDocument, ClosureIInv,
         Begin(c) \/ CommandsPass(c) \/ CommandsFail(c) \/ Reload(c)
  PROVE  ClosureIInv' /\ Content' = Content
<1>1. /\ UNCHANGED <<data, ledger, tmp, fd, returned>>
      /\ pc[c] \in {"idle", "commands", "reload"}
  BY DEF Begin, CommandsPass, CommandsFail, Reload, callVars
<1>2. Content' = Content
  BY <1>1 DEF Content
<1>3. Len(Content) \in Nat
  BY AppendToDocument DEF ClosureIInv
<1>4. TypeOK'
  BY <1>1, <1>3, ClosureAssumption
     DEF ClosureIInv, TypeOK, PCs, Stages, Begin, CommandsPass, CommandsFail, Reload, callVars
<1>5. document' = [d \in Closers |-> document'[d]]
  BY DEF ClosureIInv, Begin, CommandsPass, CommandsFail, Reload, callVars
<1>6. CallConsistent(c)'
  <2>1. CASE Begin(c) \/ CommandsPass(c) \/ CommandsFail(c)
    BY <1>1, <1>2, <2>1 DEF ClosureIInv, TypeOK, CallConsistent, Begin, CommandsPass, CommandsFail, callVars
  <2>2. CASE Reload(c)
    <3>1. Receipt(c, Content)' = Receipt(c, Content)
      BY <1>2, <2>2 DEF Reload, Receipt
    <3>2. Accepted(Content)
      BY DEF ClosureIInv, LedgerLoads
    <3>3. /\ document'[c] = Append(Content, Receipt(c, Content))
          /\ pc'[c] = "open" /\ stage' = stage
      BY <2>2, <3>2 DEF ClosureIInv, TypeOK, Reload
    <3> QED BY <1>1, <1>2, <2>2, <3>1, <3>3 DEF ClosureIInv, CallConsistent, Reload
  <2> QED BY <2>1, <2>2
<1> QED BY <1>1, <1>2, <1>4, <1>5, <1>6, QuietStep DEF ClosureIInv

\* The temporary file that a call opens is not the ledger.
LEMMA OpenStep ==
  ASSUME NEW c \in Closers, Closers = {c}, ClosureIInv, OpenTmp(c)
  PROVE  ClosureIInv' /\ Content' = Content
<1>1. PICK i \in Inodes :
        /\ i # ledger /\ tmp' = i
        /\ fd' = [fd EXCEPT ![c] = i] /\ data' = [data EXCEPT ![i] = Torn]
  <2>1. CASE tmp # NoFile
    <3>1. tmp \in Inodes /\ tmp # ledger
      BY <2>1 DEF ClosureIInv, TypeOK
    <3> QED BY <2>1, <3>1 DEF OpenTmp
  <2>2. CASE tmp = NoFile
    <3> DEFINE j == CHOOSE j \in FreeInodes : TRUE
    <3>1. fd[c] = NoFile
      BY DEF ClosureIInv, CallConsistent, OpenTmp
    <3>2. j \in FreeInodes
      BY <2>2, <3>1, InodeIsFree
    <3>3. j \in Inodes /\ j # ledger
      BY <3>2 DEF FreeInodes
    <3> QED BY <2>2, <3>3 DEF OpenTmp
  <2> QED BY <2>1, <2>2
<1>2. /\ pc[c] = "open" /\ pc' = [pc EXCEPT ![c] = "write"]
      /\ UNCHANGED <<ledger, stage, document, returned>>
  BY DEF OpenTmp
<1>3. Content' = Content
  BY <1>1, <1>2 DEF ClosureIInv, TypeOK, Content
<1>4. TypeOK'
  BY <1>1, <1>2 DEF ClosureIInv, TypeOK, PCs
<1>5. Receipt(c, Content)' = Receipt(c, Content)
  BY <1>2, <1>3 DEF Receipt
<1>6. data'[i] = Torn /\ data' = [k \in Inodes |-> data'[k]]
  BY <1>1 DEF ClosureIInv
<1>7. CallConsistent(c)'
  BY <1>1, <1>2, <1>3, <1>5, <1>6, ClosureAssumption DEF ClosureIInv, TypeOK, CallConsistent
<1> QED BY <1>1, <1>2, <1>3, <1>4, <1>6, <1>7, QuietStep DEF ClosureIInv

LEMMA WriteStep ==
  ASSUME NEW c \in Closers, Closers = {c}, ClosureIInv, WriteTmp(c)
  PROVE  ClosureIInv' /\ Content' = Content
<1>1. fd[c] = tmp /\ data[tmp] = Torn /\ tmp \in Inodes /\ tmp # NoFile
  BY DEF ClosureIInv, TypeOK, CallConsistent, WriteTmp
<1>2. data' = [data EXCEPT ![tmp] = document[c]]
  BY <1>1 DEF WriteTmp
<1>3. /\ pc[c] = "write" /\ pc' = [pc EXCEPT ![c] = "replace"]
      /\ fd' = [fd EXCEPT ![c] = NoFile]
      /\ UNCHANGED <<ledger, tmp, stage, document, returned>>
  BY DEF WriteTmp
<1>4. Content' = Content
  BY <1>1, <1>2, <1>3 DEF ClosureIInv, TypeOK, Content
<1>5. TypeOK'
  BY <1>3 DEF ClosureIInv, TypeOK, PCs
<1>6. Receipt(c, Content)' = Receipt(c, Content)
  BY <1>3, <1>4 DEF Receipt
<1>7. data'[tmp] = document[c] /\ data' = [k \in Inodes |-> data'[k]]
  BY <1>1, <1>2 DEF ClosureIInv
<1>8. CallConsistent(c)'
  BY <1>1, <1>3, <1>4, <1>6, <1>7 DEF ClosureIInv, TypeOK, CallConsistent
<1> QED BY <1>3, <1>4, <1>5, <1>7, <1>8, QuietStep DEF ClosureIInv

LEMMA CrashStep ==
  ASSUME NEW c \in Closers, Closers = {c}, ClosureIInv, Crash(c)
  PROVE  ClosureIInv' /\ Content' = Content
<1>1. /\ pc' = [pc EXCEPT ![c] = "idle"] /\ fd' = [fd EXCEPT ![c] = NoFile]
      /\ UNCHANGED <<data, ledger, tmp, stage, document, returned>>
  BY DEF Crash
<1>2. Content' = Content
  BY <1>1 DEF Content
<1>3. TypeOK' /\ CallConsistent(c)'
  BY <1>1, <1>2 DEF ClosureIInv, TypeOK, PCs, CallConsistent
<1> QED BY <1>1, <1>2, <1>3, QuietStep DEF ClosureIInv

-----------------------------------------------------------------------------
(* The step that extends them.                                              *)

LEMMA ReplaceStep ==
  ASSUME NEW c \in Closers, Closers = {c}, TornIsNoDocument, ClosureIInv, Replace(c)
  PROVE  ClosureIInv' /\ Chain!Extend(c)
<1> DEFINE s == Content
           d == document[c]
<1>1. /\ pc[c] = "replace" /\ pc' = [pc EXCEPT ![c] = "idle"]
      /\ UNCHANGED <<data, stage, document, fd>>
  BY DEF Replace, callVars
<1>2. tmp \in Inodes /\ tmp # NoFile /\ data[tmp] = d
  BY <1>1 DEF ClosureIInv, TypeOK, CallConsistent
<1>3. ledger' = tmp /\ tmp' = NoFile /\ returned' = returned \cup {d[Len(d)]}
  BY <1>2 DEF Replace
<1>4. Content' = d
  BY <1>1, <1>2, <1>3 DEF Content
<1>5. /\ Accepted(d) /\ d \in Seq({d[i] : i \in DOMAIN d})
      /\ Len(d) = Len(s) + 1 /\ Len(s) \in Nat
      /\ \A i \in 1..Len(s) : d[i] = s[i]
      /\ d[Len(s) + 1] = Receipt(c, s)
  BY <1>1, DocumentIsAccepted
<1>6. stage[c] = Len(s) + 1 /\ stage[c] \in Stages /\ d = Append(s, Receipt(c, s))
  BY <1>1 DEF ClosureIInv, CallConsistent, TypeOK
<1>7. TypeOK'
  <2>1. d[Len(d)].stage \in Stages /\ d[Len(d)].by \in Closers
    BY <1>5, <1>6 DEF Receipt
  <2> QED BY <1>1, <1>2, <1>3, <2>1 DEF ClosureIInv, TypeOK, PCs
<1>8. LedgerLoads' /\ (Content \in Seq({Content[i] : i \in DOMAIN Content}))'
  BY <1>4, <1>5 DEF LedgerLoads, Accepted
<1>9. ReturnedIsRecorded'
  <2>1. ASSUME NEW r \in returned' PROVE \E i \in 1..Len(d) : d[i] = r
    <3>1. CASE r \in returned
      <4>1. PICK i \in 1..Len(s) : s[i] = r
        BY <3>1 DEF ClosureIInv, ReturnedIsRecorded
      <4>2. i \in 1..Len(d) /\ d[i] = r
        BY <1>5, <4>1
      <4> QED BY <4>2
    <3>2. CASE r = d[Len(d)]
      <4>1. Len(d) \in 1..Len(d)
        BY <1>5
      <4> QED BY <3>2, <4>1
    <3> QED BY <1>3, <2>1, <3>1, <3>2
  <2>2. d # Torn
    BY <1>5 DEF Accepted
  <2> QED BY <1>4, <2>1, <2>2 DEF ReturnedIsRecorded
<1>10. CallConsistent(c)'
  <2>1. fd'[c] = NoFile /\ pc'[c] = "idle"
    BY <1>1 DEF ClosureIInv, TypeOK, CallConsistent
  <2> QED BY <2>1 DEF CallConsistent
<1>11. ClosureIInv'
  BY <1>1, <1>2, <1>3, <1>7, <1>8, <1>9, <1>10 DEF ClosureIInv
<1>12. Chain!Extend(c)
  <2>1. Len(s) < NumStages
    BY <1>5, <1>6, ClosureAssumption DEF Stages
  <2>2. Receipt(c, s) = [stage |-> Len(s) + 1, by |-> c,
                         prior |-> IF s = << >> THEN Genesis ELSE s[Len(s)]]
    BY <1>6 DEF Receipt
  <2> QED BY <1>4, <1>6, <2>1, <2>2 DEF Chain!Extend
<1> QED BY <1>11, <1>12

-----------------------------------------------------------------------------
LEMMA InitHolds ==
  ASSUME Init, TornIsNoDocument PROVE ClosureIInv /\ Content = << >>
<1>1. Content = << >>
  BY DEF Init, Content
<1>2. LedgerLoads
  <2>1. << >> \in Seq({}) /\ Len(<< >>) = 0
    BY EmptySeq
  <2>2. << >> # Torn
    BY <2>1 DEF TornIsNoDocument
  <2>3. 0 <= NumStages /\ 1..0 = {}
    BY ClosureAssumption
  <2> QED BY <1>1, <2>1, <2>2, <2>3 DEF LedgerLoads, Accepted
<1>3. TypeOK /\ ReturnedIsRecorded /\ \A c \in Closers : CallConsistent(c)
  BY ClosureAssumption DEF Init, TypeOK, PCs, Stages, ReturnedIsRecorded, CallConsistent
<1> QED BY <1>1, <1>2, <1>3 DEF Init, ClosureIInv

LEMMA NextKeepsInvariant ==
  ASSUME NEW c, Closers = {c}, TornIsNoDocument, ClosureIInv, [Next]_vars
  PROVE  ClosureIInv' /\ (Content' = Content \/ Chain!Extend(c))
<1>1. CASE UNCHANGED vars
  <2>1. Content' = Content /\ \A d \in Closers : Receipt(d, Content)' = Receipt(d, Content)
    BY <1>1 DEF vars, Content, Receipt
  <2>2. TypeOK' /\ \A d \in Closers : CallConsistent(d)'
    BY <1>1, <2>1 DEF ClosureIInv, vars, TypeOK, CallConsistent
  <2> QED BY <1>1, <2>1, <2>2, QuietStep DEF ClosureIInv, vars
<1>2. CASE Next
  <2>1. c \in Closers
    OBVIOUS
  <2>2. CASE Begin(c) \/ CommandsPass(c) \/ CommandsFail(c) \/ Reload(c)
    BY <2>1, <2>2, CallStep
  <2>3. CASE OpenTmp(c)
    BY <2>1, <2>3, OpenStep
  <2>4. CASE WriteTmp(c)
    BY <2>1, <2>4, WriteStep
  <2>5. CASE Replace(c)
    BY <2>1, <2>5, ReplaceStep
  <2>6. CASE Crash(c)
    BY <2>1, <2>6, CrashStep
  <2> QED BY <1>2, <2>2, <2>3, <2>4, <2>5, <2>6 DEF Next
<1> QED BY <1>1, <1>2

-----------------------------------------------------------------------------
\* The inductive invariant: between any two steps of a call, the call still
\* knows what is on the ledger.
THEOREM ClosureInvariant ==
  ASSUME NEW c, Closers = {c}, TornIsNoDocument
  PROVE  Spec => []ClosureIInv
<1>1. Init => ClosureIInv
  BY InitHolds
<1>2. ClosureIInv /\ [Next]_vars => ClosureIInv'
  BY NextKeepsInvariant
<1> QED BY <1>1, <1>2, PTL DEF Spec

\* The state of the calls and of the files has its type.
THEOREM ClosureTypeCorrect ==
  ASSUME NEW c, Closers = {c}, TornIsNoDocument
  PROVE  Spec => []TypeOK
<1>1. ClosureIInv => TypeOK
  BY DEF ClosureIInv
<1> QED BY <1>1, ClosureInvariant, PTL

\* However many calls fail or crash, and wherever, load accepts the file that
\* they leave behind.
THEOREM LedgerAlwaysLoads ==
  ASSUME NEW c, Closers = {c}, TornIsNoDocument
  PROVE  Spec => []LedgerLoads
<1>1. ClosureIInv => LedgerLoads
  BY DEF ClosureIInv
<1> QED BY <1>1, ClosureInvariant, PTL

\* A receipt that advance has returned stays on the ledger.
THEOREM ReceiptsAreKept ==
  ASSUME NEW c, Closers = {c}, TornIsNoDocument
  PROVE  Spec => []ReturnedIsRecorded
<1>1. ClosureIInv => ReturnedIsRecorded
  BY DEF ClosureIInv
<1> QED BY <1>1, ClosureInvariant, PTL

\* The file is a chain of receipts that is extended at its end and nowhere else.
THEOREM ClosureImplementsStageChain ==
  ASSUME NEW c, Closers = {c}, TornIsNoDocument
  PROVE  Spec => ImplementsStageChain
<1>1. Init => Chain!Init
  BY InitHolds DEF Chain!Init
<1>2. ClosureIInv /\ [Next]_vars => [Chain!Next]_Content
  <2>1. SUFFICES ASSUME ClosureIInv, [Next]_vars, ~ Chain!Extend(c)
                 PROVE  Chain!Next \/ Content' = Content
    BY DEF Chain!Next
  <2> QED BY <2>1, NextKeepsInvariant
<1> QED BY <1>1, <1>2, ClosureInvariant, PTL DEF Spec, ImplementsStageChain, Chain!Spec
\* One closer at a time records each stage once, after the one before it: that
\* several closers do not is what a run of EvidenceClosure shows.
THEOREM OneCloserKeepsOrder ==
  ASSUME NEW c, Closers = {c}, TornIsNoDocument
  PROVE  Spec => []StagesInOrder
<1>1. LedgerLoads => StagesInOrder
  BY DEF LedgerLoads, Accepted, StagesInOrder
<1> QED BY <1>1, LedgerAlwaysLoads, PTL

-----------------------------------------------------------------------------
(* Any number of closers.                                                   *)

\* A document whose last receipt may be of any stage, and is otherwise one that
\* load accepts.
AcceptedButLast(doc) ==
  /\ doc \in Seq({doc[i] : i \in DOMAIN doc})
  /\ Len(doc) <= NumStages + 1
  /\ \A i \in 1..Len(doc) : doc[i].prior = IF i = 1 THEN Genesis ELSE doc[i - 1]
  /\ \A i \in 1..(Len(doc) - 1) : doc[i].stage = i

\* However many closers race and wherever they crash, the file is torn or a chain of
\* receipts in order, each bound to the one before it, of which at most the last one
\* records a stage out of turn: load is called again before each append, and refuses
\* to build on a document that has such a receipt.
OnlyLastOutOfTurn == Content # Torn => AcceptedButLast(Content)

RaceIInv ==
  /\ data = [i \in Inodes |-> data[i]] /\ document = [c \in Closers |-> document[c]]
  /\ ledger \in Inodes \cup {NoFile} /\ tmp \in Inodes \cup {NoFile}
  /\ \A i \in Inodes : data[i] # Torn => AcceptedButLast(data[i])
  /\ \A c \in Closers : AcceptedButLast(document[c])

LEMMA EmptyIsAccepted == AcceptedButLast(<< >>)
<1>1. << >> \in Seq({<< >>[i] : i \in DOMAIN << >>}) /\ Len(<< >>) = 0
  BY EmptySeq
<1> QED
  BY <1>1, ClosureAssumption DEF AcceptedButLast

\* Appending a receipt to a document that load accepts.
LEMMA AppendedOutOfTurn ==
  ASSUME NEW s, Accepted(s), AcceptedButLast(s), NEW c
  PROVE  AcceptedButLast(Append(s, Receipt(c, s)))
<1> DEFINE r == Receipt(c, s)
           d == Append(s, r)
<1>1. /\ Len(s) \in Nat /\ Len(d) = Len(s) + 1
      /\ \A i \in 1..Len(s) : d[i] = s[i]
      /\ d[Len(s) + 1] = r
      /\ d \in Seq({d[i] : i \in DOMAIN d})
      /\ s = << >> <=> Len(s) = 0
  <2>1. s \in Seq({s[i] : i \in DOMAIN s})
    BY DEF AcceptedButLast
  <2> QED BY <2>1, AppendToDocument
<1>2. r.prior = IF s = << >> THEN Genesis ELSE s[Len(s)]
  BY DEF Receipt
<1> HIDE DEF r, d
<1>3. ASSUME NEW i \in 1..Len(d) PROVE d[i].prior = IF i = 1 THEN Genesis ELSE d[i - 1]
  <2>1. CASE i \in 1..Len(s)
    <3>1. d[i] = s[i] /\ (i # 1 => d[i - 1] = s[i - 1])
      BY <1>1, <2>1
    <3> QED BY <2>1, <3>1 DEF AcceptedButLast
  <2>2. CASE i = Len(s) + 1
    <3>1. i # 1 => d[i - 1] = s[Len(s)]
      BY <1>1, <2>2
    <3> QED BY <1>1, <1>2, <2>2, <3>1
  <2> QED BY <1>1, <2>1, <2>2
<1>4. \A i \in 1..(Len(d) - 1) : d[i].stage = i
  <2>1. Len(d) - 1 = Len(s)
    BY <1>1
  <2>2. \A i \in 1..Len(s) : s[i].stage = i
    BY DEF Accepted
  <2> QED BY <1>1, <2>1, <2>2
<1>5. Len(d) <= NumStages + 1
  BY <1>1, ClosureAssumption DEF Accepted
<1> QED
  BY <1>1, <1>3, <1>4, <1>5 DEF AcceptedButLast, d, r

\* With as many inodes as can be open or named there is always a free one.
LEMMA InodesSuffice ==
  ASSUME tmp = NoFile
  PROVE  \E j \in Inodes : j \in FreeInodes
<1> DEFINE open == {fd[c] : c \in Closers}
           g    == [c \in Closers |-> fd[c]]
<1>1. SUFFICES ASSUME FreeInodes = {} PROVE FALSE
  BY DEF FreeInodes
<1>2. Inodes \subseteq open \cup {ledger}
  BY <1>1, ClosureAssumption DEF FreeInodes
<1>3. g \in Surjection(Closers, open)
  BY DEF Surjection
<1>4. IsFiniteSet(open) /\ Cardinality(open) <= Cardinality(Closers)
  BY <1>3, FS_Surjection, ClosureAssumption
<1> HIDE DEF open, g
<1>5. /\ IsFiniteSet(open \cup {ledger}) /\ Cardinality(open \cup {ledger}) <= Cardinality(open) + 1
      /\ Cardinality(open) \in Nat
  <2>1. Cardinality(open) \in Nat
    BY <1>4, FS_CardinalityType
  <2>2. /\ IsFiniteSet(open \cup {ledger})
        /\ Cardinality(open \cup {ledger})
             = IF ledger \in open THEN Cardinality(open) ELSE Cardinality(open) + 1
    BY <1>4, FS_AddElement
  <2> QED BY <2>1, <2>2
<1>6. /\ Cardinality(Inodes) <= Cardinality(open \cup {ledger})
      /\ Cardinality(Inodes) \in Nat /\ Cardinality(Closers) \in Nat
      /\ Cardinality(open \cup {ledger}) \in Nat
  BY <1>2, <1>5, FS_Subset, FS_CardinalityType, ClosureAssumption
<1> QED BY <1>4, <1>5, <1>6, ClosureAssumption

\* What load accepts is accepted but for its last receipt.
LEMMA ContentInRace ==
  ASSUME RaceIInv PROVE Content # Torn => AcceptedButLast(Content)
BY EmptyIsAccepted DEF RaceIInv, Content

LEMMA RaceStep == RaceIInv /\ [Next]_vars => RaceIInv'
<1> SUFFICES ASSUME RaceIInv, [Next]_vars PROVE RaceIInv'
  OBVIOUS
<1>1. ASSUME NEW c \in Closers, Reload(c) PROVE RaceIInv'
  <2> DEFINE d == Append(Content, Receipt(c, Content))
  <2>1. Accepted(Content) => AcceptedButLast(d)
    BY ContentInRace, AppendedOutOfTurn DEF Accepted
  <2>2. UNCHANGED <<data, ledger, tmp>>
        /\ \/ document' = document
           \/ Accepted(Content) /\ document' = [document EXCEPT ![c] = d]
    BY <1>1 DEF Reload
  <2> HIDE DEF d
  <2>3. \A e \in Closers : AcceptedButLast(document'[e])
    BY <2>1, <2>2 DEF RaceIInv
  <2> QED BY <2>2, <2>3 DEF RaceIInv
<1>2. ASSUME NEW c \in Closers, OpenTmp(c) PROVE RaceIInv'
  <2>1. PICK i \in Inodes : tmp' = i /\ data' = [data EXCEPT ![i] = Torn]
    <3>1. CASE tmp # NoFile
      BY <1>2, <3>1 DEF OpenTmp, RaceIInv
    <3>2. CASE tmp = NoFile
      <4>1. (CHOOSE j \in FreeInodes : TRUE) \in Inodes
        BY <3>2, InodesSuffice DEF FreeInodes
      <4> QED BY <1>2, <3>2, <4>1 DEF OpenTmp
    <3> QED BY <3>1, <3>2
  <2>2. UNCHANGED <<ledger, document>>
    BY <1>2 DEF OpenTmp
  <2> QED BY <2>1, <2>2 DEF RaceIInv
<1>3. ASSUME NEW c \in Closers, WriteTmp(c) PROVE RaceIInv'
  <2>1. PICK bytes \in {document[c], Torn} : data' = [data EXCEPT ![fd[c]] = bytes]
    BY <1>3 DEF WriteTmp
  <2>2. UNCHANGED <<ledger, tmp, document>>
    BY <1>3 DEF WriteTmp
  <2> QED BY <2>1, <2>2 DEF RaceIInv
<1>4. ASSUME NEW c \in Closers, Replace(c) PROVE RaceIInv'
  BY <1>4 DEF Replace, callVars, RaceIInv
<1>5. ASSUME NEW c \in Closers, Begin(c) \/ CommandsPass(c) \/ CommandsFail(c) \/ Crash(c)
      PROVE  RaceIInv'
  BY <1>5 DEF Begin, CommandsPass, CommandsFail, Crash, callVars, RaceIInv
<1>6. CASE UNCHANGED vars
  BY <1>6 DEF vars, RaceIInv
<1> QED BY <1>1, <1>2, <1>3, <1>4, <1>5, <1>6 DEF Next

\* A race loses receipts and can lock the ledger, but it cannot build on a stage that
\* was recorded out of turn, and no receipt is ever bound to the wrong one.
THEOREM RacesMisplaceOneReceipt == Spec => []OnlyLastOutOfTurn
<1>1. Init => RaceIInv
  BY EmptyIsAccepted DEF Init, RaceIInv
<1>2. RaceIInv => OnlyLastOutOfTurn
  BY ContentInRace DEF OnlyLastOutOfTurn
<1> QED BY <1>1, <1>2, RaceStep, PTL DEF Spec
=============================================================================
