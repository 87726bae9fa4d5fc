--------------------------- MODULE ScanCli_proofs ---------------------------
(***************************************************************************)
(* Proofs about ScanCli, for any number of processes, any accounts and     *)
(* rulebooks, any depth and any length of the reports.                     *)
(*                                                                         *)
(* The safety properties are not inductive.  IInv adds what each place in  *)
(* the program knows: which stages have left their result, that nothing is *)
(* written before it is printed, how many parts a process has written, and *)
(* that every level the search has left had no `rules` directory.          *)
(***************************************************************************)
EXTENDS ScanCli, TLAPS

Reports == Account \X Rulebook

(* What the place of a process says of its own variables.                  *)
StageOK(p) ==
    /\ pc[p] = "build" => command[p] \in {"scan", "debug-graph"}
    /\ pc[p] \in {"cwd", "search", "load", "match", "open", "write", "confirm"} => command[p] = "scan"
    /\ pc[p] = "print" => command[p] \in {"scan", "debug-graph"}
    /\ pc[p] \in {"cwd", "search", "load", "match", "print"} => seen[p] \in Account
    /\ pc[p] \in {"idle", "build", "cwd", "search", "load"} => rules[p] = Nothing
    /\ pc[p] = "match" \/ (pc[p] = "print" /\ command[p] = "scan") => rules[p] \in Rulebook
    /\ pc[p] \in {"idle", "build", "cwd", "search", "load", "match", "print", "open"} => offset[p] = -1
    /\ pc[p] \in {"open", "write", "confirm"} \/ offset[p] >= 0 => printed[p] \in Reports
    /\ pc[p] = "write" => offset[p] >= 0 /\ offset[p] < Size(printed[p])
    /\ pc[p] = "confirm" \/ (pc[p] = "success" /\ command[p] = "scan") =>
          printed[p] \in Reports /\ offset[p] = Size(printed[p])

(* How far the search for rules has come, while nobody edits.              *)
SearchOK(p) ==
    edits = 0 /\ (pc[p] \in {"search", "load"} \/ rules[p] # Nothing) =>
        /\ \A l \in level[p] + 1..Depth : rulebooks[l] = NoDir
        /\ rules[p] # Nothing => rules[p] = rulebooks[level[p]]

IInv ==
    /\ TypeOK
    /\ \A p \in Proc : StageOK(p)
    /\ \A p \in Proc : SearchOK(p)
    /\ UndisturbedFileIsPrefix
    /\ PartsInPlace
    /\ OldUntilPrinted

-----------------------------------------------------------------------------
(* A step that leaves a process's variables alone leaves what its place    *)
(* says of them.                                                           *)
LEMMA StageFrame ==
    ASSUME NEW p \in Proc, StageOK(p),
           pc'[p] = pc[p], command'[p] = command[p], seen'[p] = seen[p], rules'[p] = rules[p],
           printed'[p] = printed[p], offset'[p] = offset[p]
    PROVE  StageOK(p)'
BY DEF StageOK

LEMMA SearchFrame ==
    ASSUME NEW p \in Proc, SearchOK(p),
           pc'[p] = pc[p], level'[p] = level[p], rules'[p] = rules[p],
           edits' = edits, rulebooks' = rulebooks
    PROVE  SearchOK(p)'
BY DEF SearchOK

(* Nor does the file matter to anyone when it is left alone.               *)
LEMMA FileFrame ==
    ASSUME UndisturbedFileIsPrefix, UNCHANGED onDisk,
           \A p \in Proc : offset[p] >= 0 => printed'[p] = printed[p]
    PROVE  UndisturbedFileIsPrefix'
BY DEF UndisturbedFileIsPrefix, onDisk

LEMMA PlaceFrame ==
    ASSUME PartsInPlace, UNCHANGED onDisk,
           \A p \in Proc : offset[p] >= 0 => printed'[p] = printed[p]
    PROVE  PartsInPlace'
BY DEF PartsInPlace, Opened, onDisk

LEMMA OldFrame ==
    ASSUME OldUntilPrinted, file' = file,
           \A p \in Proc : printed'[p] = Nothing => printed[p] = Nothing
    PROVE  OldUntilPrinted'
BY DEF OldUntilPrinted

-----------------------------------------------------------------------------
LEMMA InitInv == Init => IInv
<1> SUFFICES ASSUME Init PROVE IInv
  OBVIOUS
<1>1. TypeOK
  <2>1. DOMAIN file \subseteq Nat \ {0}
    BY DEF Init, Old, Parts
  <2>2. level \in [Proc -> 0..Depth]
    BY DepthAssumption DEF Init
  <2> QED
    BY <2>1, <2>2 DEF Init, TypeOK, Pc
<1>2. \A p \in Proc : StageOK(p)
  <2> TAKE p \in Proc
  <2>1. pc[p] = "idle" /\ offset[p] = -1 /\ rules[p] = Nothing
    BY DEF Init
  <2>2. ~(offset[p] >= 0)
    BY <2>1
  <2> QED
    BY <2>1, <2>2 DEF StageOK
<1>3. \A p \in Proc : SearchOK(p)
  BY DEF Init, SearchOK
<1>4. UndisturbedFileIsPrefix
  BY DEF Init, UndisturbedFileIsPrefix
<1>5. OldUntilPrinted
  BY DEF Init, OldUntilPrinted
<1>6. PartsInPlace
  <2>1. Opened = {}
    BY DEF Init, Opened
  <2> QED
    BY <2>1 DEF PartsInPlace
<1> QED
  BY <1>1, <1>2, <1>3, <1>4, <1>5, <1>6 DEF IInv

LEMMA StartInv == ASSUME IInv, NEW p \in Proc, Start(p) PROVE IInv'
<1> USE DEF IInv
<1>1. TypeOK'
  BY DEF TypeOK, Start, Goto, Pc, Ended, shared, onDisk
<1>2. ASSUME NEW q \in Proc PROVE StageOK(q)'
  <2>1. CASE q = p
    BY <2>1 DEF TypeOK, StageOK, Start, Goto, onDisk
  <2>2. CASE q # p
    BY <2>2, StageFrame DEF TypeOK, Start, Goto, onDisk
  <2> QED
    BY <2>1, <2>2
<1>3. ASSUME NEW q \in Proc PROVE SearchOK(q)'
  BY DEF TypeOK, StageOK, SearchOK, Start, Goto, shared
<1>4. UndisturbedFileIsPrefix'
  BY FileFrame DEF Start
<1>5. OldUntilPrinted'
  BY OldFrame DEF Start, onDisk
<1>6. PartsInPlace'
  BY PlaceFrame DEF Start
<1> QED
  BY <1>1, <1>2, <1>3, <1>4, <1>5, <1>6

LEMMA BuildToScanInv == ASSUME IInv, NEW p \in Proc, BuildToScan(p) PROVE IInv'
<1> USE DEF IInv
<1>1. TypeOK'
  <2>1. pc' \in [Proc -> Pc]
    BY DEF TypeOK, BuildToScan, Goto, Pc, Ended
  <2>2. seen' \in [Proc -> Account \cup {Nothing}]
    BY DEF TypeOK, BuildToScan
  <2> QED
    BY <2>1, <2>2 DEF TypeOK, BuildToScan, shared, onDisk
<1>2. ASSUME NEW q \in Proc PROVE StageOK(q)'
  <2>1. CASE q = p
    BY <2>1 DEF TypeOK, StageOK, BuildToScan, Goto, onDisk
  <2>2. CASE q # p
    BY <2>2, StageFrame DEF TypeOK, BuildToScan, Goto, onDisk
  <2> QED
    BY <2>1, <2>2
<1>3. ASSUME NEW q \in Proc PROVE SearchOK(q)'
  BY DEF TypeOK, StageOK, SearchOK, BuildToScan, Goto, shared
<1>4. UndisturbedFileIsPrefix'
  BY FileFrame DEF BuildToScan
<1>5. OldUntilPrinted'
  BY OldFrame DEF BuildToScan, onDisk
<1>6. PartsInPlace'
  BY PlaceFrame DEF BuildToScan
<1> QED
  BY <1>1, <1>2, <1>3, <1>4, <1>5, <1>6

LEMMA BuildToShowInv == ASSUME IInv, NEW p \in Proc, BuildToShow(p) PROVE IInv'
<1> USE DEF IInv
<1>1. TypeOK'
  <2>1. pc' \in [Proc -> Pc]
    BY DEF TypeOK, BuildToShow, Goto, Pc, Ended
  <2>2. seen' \in [Proc -> Account \cup {Nothing}]
    BY DEF TypeOK, BuildToShow
  <2> QED
    BY <2>1, <2>2 DEF TypeOK, BuildToShow, shared, onDisk
<1>2. ASSUME NEW q \in Proc PROVE StageOK(q)'
  <2>1. CASE q = p
    BY <2>1 DEF TypeOK, StageOK, BuildToShow, Goto, onDisk
  <2>2. CASE q # p
    BY <2>2, StageFrame DEF TypeOK, BuildToShow, Goto, onDisk
  <2> QED
    BY <2>1, <2>2
<1>3. ASSUME NEW q \in Proc PROVE SearchOK(q)'
  BY DEF TypeOK, StageOK, SearchOK, BuildToShow, Goto, shared
<1>4. UndisturbedFileIsPrefix'
  BY FileFrame DEF BuildToShow
<1>5. OldUntilPrinted'
  BY OldFrame DEF BuildToShow, onDisk
<1>6. PartsInPlace'
  BY PlaceFrame DEF BuildToShow
<1> QED
  BY <1>1, <1>2, <1>3, <1>4, <1>5, <1>6

LEMMA CurrentDirInv == ASSUME IInv, NEW p \in Proc, CurrentDir(p) PROVE IInv'
<1> USE DEF IInv
<1>1. TypeOK'
  <2>1. pc' \in [Proc -> Pc]
    BY DEF TypeOK, CurrentDir, Goto, Pc, Ended
  <2>2. level' \in [Proc -> 0..Depth]
    <3>1. Depth \in 0..Depth
      BY DepthAssumption
    <3> QED
      BY <3>1 DEF TypeOK, CurrentDir
  <2> QED
    BY <2>1, <2>2 DEF TypeOK, CurrentDir, shared, onDisk
<1>2. ASSUME NEW q \in Proc PROVE StageOK(q)'
  <2>1. CASE q = p
    BY <2>1 DEF TypeOK, StageOK, CurrentDir, Goto, onDisk
  <2>2. CASE q # p
    BY <2>2, StageFrame DEF TypeOK, CurrentDir, Goto, onDisk
  <2> QED
    BY <2>1, <2>2
<1>3. ASSUME NEW q \in Proc PROVE SearchOK(q)'
  <2>1. CASE q = p
    BY <2>1, DepthAssumption DEF TypeOK, StageOK, SearchOK, CurrentDir, Goto, shared
  <2>2. CASE q # p
    BY <2>2, SearchFrame DEF TypeOK, CurrentDir, Goto, shared
  <2> QED
    BY <2>1, <2>2
<1>4. UndisturbedFileIsPrefix'
  BY FileFrame DEF CurrentDir
<1>5. OldUntilPrinted'
  BY OldFrame DEF CurrentDir, onDisk
<1>6. PartsInPlace'
  BY PlaceFrame DEF CurrentDir
<1> QED
  BY <1>1, <1>2, <1>3, <1>4, <1>5, <1>6

LEMMA SearchInv == ASSUME IInv, NEW p \in Proc, Search(p) PROVE IInv'
<1> USE DEF IInv
<1>1. TypeOK'
  <2>1. pc' \in [Proc -> Pc]
    BY DEF TypeOK, Search, Goto, Pc, Ended
  <2>2. level' \in [Proc -> 0..Depth]
    <3>1. level[p] \in 0..Depth
      BY DEF TypeOK
    <3>2. level[p] # 0 => level[p] - 1 \in 0..Depth
      BY <3>1, DepthAssumption
    <3>3. level' = level \/ (level[p] # 0 /\ level' = [level EXCEPT ![p] = level[p] - 1])
      BY DEF Search
    <3> QED
      BY <3>2, <3>3 DEF TypeOK
  <2> QED
    BY <2>1, <2>2 DEF TypeOK, Search, shared, onDisk
<1>2. ASSUME NEW q \in Proc PROVE StageOK(q)'
  <2>1. CASE q = p
    BY <2>1 DEF TypeOK, StageOK, Search, Goto, onDisk
  <2>2. CASE q # p
    BY <2>2, StageFrame DEF TypeOK, Search, Goto, onDisk
  <2> QED
    BY <2>1, <2>2
<1>3. ASSUME NEW q \in Proc PROVE SearchOK(q)'
  <2>1. CASE q = p
    BY <2>1, DepthAssumption DEF TypeOK, StageOK, SearchOK, Search, Goto, shared
  <2>2. CASE q # p
    BY <2>2, SearchFrame DEF TypeOK, Search, Goto, shared
  <2> QED
    BY <2>1, <2>2
<1>4. UndisturbedFileIsPrefix'
  BY FileFrame DEF Search
<1>5. OldUntilPrinted'
  BY OldFrame DEF Search, onDisk
<1>6. PartsInPlace'
  BY PlaceFrame DEF Search
<1> QED
  BY <1>1, <1>2, <1>3, <1>4, <1>5, <1>6

LEMMA LoadInv == ASSUME IInv, NEW p \in Proc, Load(p) PROVE IInv'
<1> USE DEF IInv
<1>1. TypeOK'
  BY DEF TypeOK, Load, Goto, Pc, Ended, shared, onDisk
<1>2. ASSUME NEW q \in Proc PROVE StageOK(q)'
  <2>1. CASE q = p
    BY <2>1 DEF TypeOK, StageOK, Load, Goto, onDisk
  <2>2. CASE q # p
    BY <2>2, StageFrame DEF TypeOK, Load, Goto, onDisk
  <2> QED
    BY <2>1, <2>2
<1>3. ASSUME NEW q \in Proc PROVE SearchOK(q)'
  BY DEF TypeOK, StageOK, SearchOK, Load, Goto, shared
<1>4. UndisturbedFileIsPrefix'
  BY FileFrame DEF Load
<1>5. OldUntilPrinted'
  BY OldFrame DEF Load, onDisk
<1>6. PartsInPlace'
  BY PlaceFrame DEF Load
<1> QED
  BY <1>1, <1>2, <1>3, <1>4, <1>5, <1>6

LEMMA MatchInv == ASSUME IInv, NEW p \in Proc, Match(p) PROVE IInv'
<1> USE DEF IInv
<1>1. TypeOK'
  BY DEF TypeOK, Match, Goto, Pc, Ended, shared, onDisk, local
<1>2. ASSUME NEW q \in Proc PROVE StageOK(q)'
  <2>1. CASE q = p
    BY <2>1 DEF TypeOK, StageOK, Match, Goto, onDisk, local
  <2>2. CASE q # p
    BY <2>2, StageFrame DEF TypeOK, Match, Goto, onDisk, local
  <2> QED
    BY <2>1, <2>2
<1>3. ASSUME NEW q \in Proc PROVE SearchOK(q)'
  BY DEF TypeOK, StageOK, SearchOK, Match, Goto, shared, local
<1>4. UndisturbedFileIsPrefix'
  BY FileFrame DEF Match, local
<1>5. OldUntilPrinted'
  BY OldFrame DEF Match, onDisk, local
<1>6. PartsInPlace'
  BY PlaceFrame DEF Match, local
<1> QED
  BY <1>1, <1>2, <1>3, <1>4, <1>5, <1>6

LEMMA PrintReportInv == ASSUME IInv, NEW p \in Proc, PrintReport(p) PROVE IInv'
<1> USE DEF IInv
<1>1. TypeOK'
  <2>1. pc' \in [Proc -> Pc]
    BY DEF TypeOK, PrintReport, Goto, Pc, Ended
  <2>2. printed' \in [Proc -> (Account \X Rulebook) \cup {Nothing}]
    <3>1. ReportOf(p) \in Account \X Rulebook
      BY DEF StageOK, PrintReport, ReportOf
    <3>2. printed' = printed \/ printed' = [printed EXCEPT ![p] = ReportOf(p)]
      BY DEF PrintReport
    <3> QED
      BY <3>1, <3>2 DEF TypeOK
  <2> QED
    BY <2>1, <2>2 DEF TypeOK, PrintReport, shared, onDisk
<1>2. ASSUME NEW q \in Proc PROVE StageOK(q)'
  <2>1. CASE q = p
    BY <2>1 DEF TypeOK, StageOK, PrintReport, Goto, ReportOf, Reports, onDisk
  <2>2. CASE q # p
    BY <2>2, StageFrame DEF TypeOK, PrintReport, Goto, ReportOf, Reports, onDisk
  <2> QED
    BY <2>1, <2>2
<1>3. ASSUME NEW q \in Proc PROVE SearchOK(q)'
  BY DEF TypeOK, StageOK, SearchOK, PrintReport, Goto, shared
<1>4. UndisturbedFileIsPrefix'
  <2>1. \A q \in Proc : offset[q] >= 0 => printed'[q] = printed[q]
    BY DEF TypeOK, StageOK, PrintReport
  <2> QED
    BY <2>1, FileFrame DEF PrintReport
<1>5. OldUntilPrinted'
  <2>1. \A q \in Proc : printed'[q] = Nothing => printed[q] = Nothing
    BY NothingAssumption DEF TypeOK, StageOK, PrintReport, ReportOf
  <2> QED
    BY <2>1, OldFrame DEF PrintReport, onDisk
<1>6. PartsInPlace'
  <2>1. \A q \in Proc : offset[q] >= 0 => printed'[q] = printed[q]
    BY DEF TypeOK, StageOK, PrintReport
  <2> QED
    BY <2>1, PlaceFrame DEF PrintReport
<1> QED
  BY <1>1, <1>2, <1>3, <1>4, <1>5, <1>6

LEMMA PrintGraphInv == ASSUME IInv, NEW p \in Proc, PrintGraph(p) PROVE IInv'
<1> USE DEF IInv
<1>1. TypeOK'
  BY DEF TypeOK, PrintGraph, Goto, Pc, Ended, shared, onDisk, local
<1>2. ASSUME NEW q \in Proc PROVE StageOK(q)'
  <2>1. CASE q = p
    BY <2>1 DEF TypeOK, StageOK, PrintGraph, Goto, onDisk, local
  <2>2. CASE q # p
    BY <2>2, StageFrame DEF TypeOK, PrintGraph, Goto, onDisk, local
  <2> QED
    BY <2>1, <2>2
<1>3. ASSUME NEW q \in Proc PROVE SearchOK(q)'
  BY DEF TypeOK, StageOK, SearchOK, PrintGraph, Goto, shared, local
<1>4. UndisturbedFileIsPrefix'
  BY FileFrame DEF PrintGraph, local
<1>5. OldUntilPrinted'
  BY OldFrame DEF PrintGraph, onDisk, local
<1>6. PartsInPlace'
  BY PlaceFrame DEF PrintGraph, local
<1> QED
  BY <1>1, <1>2, <1>3, <1>4, <1>5, <1>6

LEMMA ConfirmInv == ASSUME IInv, NEW p \in Proc, Confirm(p) PROVE IInv'
<1> USE DEF IInv
<1>1. TypeOK'
  BY DEF TypeOK, Confirm, Goto, Pc, Ended, shared, onDisk, local
<1>2. ASSUME NEW q \in Proc PROVE StageOK(q)'
  <2>1. CASE q = p
    BY <2>1 DEF TypeOK, StageOK, Confirm, Goto, onDisk, local
  <2>2. CASE q # p
    BY <2>2, StageFrame DEF TypeOK, Confirm, Goto, onDisk, local
  <2> QED
    BY <2>1, <2>2
<1>3. ASSUME NEW q \in Proc PROVE SearchOK(q)'
  BY DEF TypeOK, StageOK, SearchOK, Confirm, Goto, shared, local
<1>4. UndisturbedFileIsPrefix'
  BY FileFrame DEF Confirm, local
<1>5. OldUntilPrinted'
  BY OldFrame DEF Confirm, onDisk, local
<1>6. PartsInPlace'
  BY PlaceFrame DEF Confirm, local
<1> QED
  BY <1>1, <1>2, <1>3, <1>4, <1>5, <1>6

LEMMA KillInv == ASSUME IInv, NEW p \in Proc, Kill(p) PROVE IInv'
<1> USE DEF IInv
<1>1. TypeOK'
  BY DEF TypeOK, Kill, Goto, Pc, Ended, shared, onDisk, local
<1>2. ASSUME NEW q \in Proc PROVE StageOK(q)'
  <2>1. CASE q = p
    BY <2>1 DEF TypeOK, StageOK, Kill, Goto, Ended, onDisk, local
  <2>2. CASE q # p
    BY <2>2, StageFrame DEF TypeOK, Kill, Goto, Ended, onDisk, local
  <2> QED
    BY <2>1, <2>2
<1>3. ASSUME NEW q \in Proc PROVE SearchOK(q)'
  BY DEF TypeOK, StageOK, SearchOK, Kill, Goto, Ended, shared, local
<1>4. UndisturbedFileIsPrefix'
  BY FileFrame DEF Kill, local
<1>5. OldUntilPrinted'
  BY OldFrame DEF Kill, onDisk, local
<1>6. PartsInPlace'
  BY PlaceFrame DEF Kill, local
<1> QED
  BY <1>1, <1>2, <1>3, <1>4, <1>5, <1>6

(* Opening empties the file and disturbs whoever had it open.              *)
LEMMA OpenInv == ASSUME IInv, NEW p \in Proc, Open(p) PROVE IInv'
<1> USE DEF IInv
<1>1. TypeOK'
  <2>1. pc' \in [Proc -> Pc]
    BY DEF TypeOK, Open, Goto, Pc, Ended
  <2>2. DOMAIN file' \subseteq Nat \ {0}
    BY DEF TypeOK, Open, onDisk
  <2>3. offset' \in [Proc -> Nat \cup {-1}]
    BY DEF TypeOK, Open, onDisk
  <2>4. disturbed' \subseteq Proc
    BY DEF TypeOK, Open, Opened, onDisk
  <2> QED
    BY <2>1, <2>2, <2>3, <2>4 DEF TypeOK, Open, shared, local
<1>2. ASSUME NEW q \in Proc PROVE StageOK(q)'
  <2>1. CASE q = p
    <3>1. pc[p] = "open" /\ command[p] = "scan" /\ printed[p] \in Reports
      BY DEF Open, StageOK
    <3>2. Size(printed[p]) \in Nat \ {0}
      BY <3>1, SizeAssumption DEF Reports
    <3> QED
      BY <2>1, <3>1, <3>2 DEF TypeOK, StageOK, Open, Goto, onDisk, local
  <2>2. CASE q # p
    BY <2>2, StageFrame DEF TypeOK, Open, Goto, onDisk, local
  <2> QED
    BY <2>1, <2>2
<1>3. ASSUME NEW q \in Proc PROVE SearchOK(q)'
  BY DEF TypeOK, StageOK, SearchOK, Open, Goto, shared, local
<1>4. UndisturbedFileIsPrefix'
  <2>1. CASE UNCHANGED onDisk
    BY <2>1, FileFrame DEF Open, local
  <2>2. CASE ~UNCHANGED onDisk
    <3>1. file' = [i \in {} |-> Hole] /\ offset' = [offset EXCEPT ![p] = 0]
          /\ disturbed' = disturbed \cup Opened
      BY <2>2 DEF Open
    <3> SUFFICES ASSUME NEW q \in Proc, offset'[q] >= 0, q \notin disturbed'
                 PROVE  file' = Parts(printed'[q], offset'[q])
      BY DEF UndisturbedFileIsPrefix
    <3>2. q = p
      BY <3>1 DEF TypeOK, Opened
    <3>3. offset'[q] = 0
      BY <3>1, <3>2 DEF TypeOK
    <3>4. 1..0 = {}
      OBVIOUS
    <3> QED
      BY <3>1, <3>3, <3>4 DEF Parts
  <2> QED
    BY <2>1, <2>2
<1>5. OldUntilPrinted'
  BY NothingAssumption DEF OldUntilPrinted, StageOK, Reports, Open, local
<1>6. PartsInPlace'
  <2>1. CASE UNCHANGED onDisk
    BY <2>1, PlaceFrame DEF Open, local
  <2>2. CASE ~UNCHANGED onDisk
    <3>1. DOMAIN file' = {}
      BY <2>2 DEF Open
    <3> QED
      BY <3>1 DEF PartsInPlace
  <2> QED
    BY <2>1, <2>2
<1> QED
  BY <1>1, <1>2, <1>3, <1>4, <1>5, <1>6

(* A write at the end of the prefix makes the prefix longer by one.        *)
LEMMA PrefixGrows ==
    ASSUME NEW report, NEW n \in Nat
    PROVE  WithPart(Parts(report, n), n + 1, Part(report, n + 1)) = Parts(report, n + 1)
<1>1. (1..n) \cup (1..n + 1) = 1..n + 1
  OBVIOUS
<1>2. ASSUME NEW j \in 1..n + 1, j # n + 1 PROVE j \in 1..n
  BY <1>2
<1> QED
  BY <1>1, <1>2 DEF WithPart, Parts

LEMMA WriteInv == ASSUME IInv, NEW p \in Proc, Write(p) PROVE IInv'
<1> USE DEF IInv
<1>1. TypeOK'
  <2>1. pc' \in [Proc -> Pc]
    BY DEF TypeOK, Write, Goto, Pc, Ended
  <2>2. offset[p] \in Nat
    BY DEF TypeOK, StageOK, Write
  <2>3. DOMAIN file' \subseteq Nat \ {0}
    BY <2>2 DEF TypeOK, Write, WithPart, onDisk
  <2>4. offset' \in [Proc -> Nat \cup {-1}]
    <3>1. offset[p] + 1 \in Nat
      BY <2>2
    <3>2. offset' = offset \/ offset' = [offset EXCEPT ![p] = offset[p] + 1]
      BY DEF Write, onDisk
    <3> QED
      BY <3>1, <3>2 DEF TypeOK
  <2>5. disturbed' \subseteq Proc
    BY DEF TypeOK, Write, Opened, onDisk
  <2> QED
    BY <2>1, <2>3, <2>4, <2>5 DEF TypeOK, Write, shared, local
<1>2. ASSUME NEW q \in Proc PROVE StageOK(q)'
  <2>1. CASE q = p
    <3>1. pc[p] = "write" /\ command[p] = "scan" /\ printed[p] \in Reports
      BY DEF Write, StageOK
    <3>2. Size(printed[p]) \in Nat \ {0}
      BY <3>1, SizeAssumption DEF Reports
    <3>3. offset[p] \in Nat /\ offset[p] < Size(printed[p])
      BY <3>1 DEF TypeOK, StageOK
    <3> QED
      BY <2>1, <3>1, <3>2, <3>3 DEF TypeOK, StageOK, Write, LastWrite, Goto, onDisk, local
  <2>2. CASE q # p
    BY <2>2, StageFrame DEF TypeOK, Write, Goto, onDisk, local
  <2> QED
    BY <2>1, <2>2
<1>3. ASSUME NEW q \in Proc PROVE SearchOK(q)'
  BY DEF TypeOK, StageOK, SearchOK, Write, Goto, shared, local
<1>4. UndisturbedFileIsPrefix'
  <2>1. CASE UNCHANGED onDisk
    BY <2>1, FileFrame DEF Write, local
  <2>2. CASE ~UNCHANGED onDisk
    <3>1. file' = WithPart(file, offset[p] + 1, Part(printed[p], offset[p] + 1))
          /\ offset' = [offset EXCEPT ![p] = offset[p] + 1]
          /\ disturbed' = disturbed \cup (Opened \ {p})
      BY <2>2 DEF Write
    <3>2. offset[p] \in Nat /\ printed' = printed
      BY DEF TypeOK, StageOK, Write, local
    <3> SUFFICES ASSUME NEW q \in Proc, offset'[q] >= 0, q \notin disturbed'
                 PROVE  file' = Parts(printed'[q], offset'[q])
      BY DEF UndisturbedFileIsPrefix
    <3>3. q = p
      BY <3>1 DEF TypeOK, Opened
    <3>4. file = Parts(printed[p], offset[p])
      BY <3>1, <3>2, <3>3 DEF UndisturbedFileIsPrefix
    <3>5. offset'[q] = offset[p] + 1
      BY <3>1, <3>3 DEF TypeOK
    <3> QED
      BY <3>1, <3>2, <3>3, <3>4, <3>5, PrefixGrows
  <2> QED
    BY <2>1, <2>2
<1>5. OldUntilPrinted'
  BY NothingAssumption DEF OldUntilPrinted, StageOK, Reports, Write, local
<1>6. PartsInPlace'
  <2>1. CASE UNCHANGED onDisk
    BY <2>1, PlaceFrame DEF Write, local
  <2>2. CASE ~UNCHANGED onDisk
    <3> DEFINE n == offset[p] + 1
    <3>1. file' = WithPart(file, n, Part(printed[p], n))
          /\ offset' = [offset EXCEPT ![p] = n]
      BY <2>2 DEF Write
    <3>2. offset[p] \in Nat /\ n \in Nat /\ printed' = printed
      BY DEF TypeOK, StageOK, Write, local
    <3>3. offset \in [Proc -> Nat \cup {-1}] /\ p \in Opened
      BY <3>2 DEF TypeOK, Opened
    <3>4. \A q \in Opened : q \in Opened' /\ offset'[q] >= offset[q]
      BY <3>1, <3>2, <3>3 DEF Opened
    <3>5. offset'[p] = n
      BY <3>1, <3>3
    <3> SUFFICES ASSUME NEW i \in DOMAIN file'
                 PROVE  \/ file'[i] = Hole
                        \/ \E q \in Opened' : offset'[q] >= i /\ file'[i] = Part(printed'[q], i)
      BY DEF PartsInPlace
    <3>6. CASE i = n
      <4>1. file'[i] = Part(printed'[p], i)
        BY <3>1, <3>2, <3>6 DEF WithPart
      <4> QED
        BY <3>2, <3>3, <3>4, <3>5, <3>6, <4>1
    <3>7. CASE i # n /\ i \in DOMAIN file
      <4>1. file'[i] = file[i]
        BY <3>1, <3>7 DEF WithPart
      <4>2. CASE file[i] = Hole
        BY <4>1, <4>2
      <4>3. CASE \E q \in Opened : offset[q] >= i /\ file[i] = Part(printed[q], i)
        <5>1. PICK q \in Opened : offset[q] >= i /\ file[i] = Part(printed[q], i)
          BY <4>3
        <5>2. q \in Opened' /\ offset'[q] >= offset[q]
          BY <3>4
        <5>3. i \in Nat /\ offset[q] \in Int /\ offset'[q] \in Int
          BY <1>1, <3>7 DEF TypeOK, Opened
        <5>4. offset'[q] >= i
          BY <5>1, <5>2, <5>3
        <5> QED
          BY <3>2, <4>1, <5>1, <5>2, <5>4
      <4> QED
        BY <3>3, <3>7, <4>2, <4>3 DEF PartsInPlace
    <3>8. CASE i # n /\ i \notin DOMAIN file
      BY <3>1, <3>8 DEF WithPart
    <3> QED
      BY <3>6, <3>7, <3>8
  <2> QED
    BY <2>1, <2>2
<1> QED
  BY <1>1, <1>2, <1>3, <1>4, <1>5, <1>6

(* An edit ends what SearchOK says, and touches nothing else.              *)
LEMMA EditInv == ASSUME IInv, Edit PROVE IInv'
<1> USE DEF IInv
<1>1. TypeOK'
  <2>1. account' \in Account
    BY DEF TypeOK, Edit
  <2>2. rulebooks' \in [0..Depth -> Rulebook \cup {NoDir}]
    BY DEF TypeOK, Edit
  <2>3. edits' \in Nat
    BY DEF TypeOK, Edit
  <2> QED
    BY <2>1, <2>2, <2>3 DEF TypeOK, Edit, local, onDisk
<1>2. ASSUME NEW q \in Proc PROVE StageOK(q)'
  BY StageFrame DEF Edit, local, onDisk
<1>3. ASSUME NEW q \in Proc PROVE SearchOK(q)'
  BY DEF TypeOK, SearchOK, Edit
<1>4. UndisturbedFileIsPrefix'
  BY FileFrame DEF Edit, local
<1>5. OldUntilPrinted'
  BY OldFrame DEF Edit, local, onDisk
<1>6. PartsInPlace'
  BY PlaceFrame DEF Edit, local
<1> QED
  BY <1>1, <1>2, <1>3, <1>4, <1>5, <1>6

LEMMA StutterInv == ASSUME IInv, UNCHANGED vars PROVE IInv'
BY DEF IInv, TypeOK, StageOK, SearchOK, UndisturbedFileIsPrefix, PartsInPlace, Opened, OldUntilPrinted,
       vars, shared, local

LEMMA NextInv == ASSUME IInv, [Next]_vars PROVE IInv'
<1>1. CASE Edit
  BY <1>1, EditInv
<1>2. ASSUME NEW p \in Proc, Start(p) \/ Kill(p) PROVE IInv'
  BY <1>2, StartInv, KillInv
<1>3. ASSUME NEW p \in Proc, Step(p) PROVE IInv'
  BY <1>3, BuildToScanInv, BuildToShowInv, CurrentDirInv, SearchInv, LoadInv, MatchInv,
     PrintReportInv, PrintGraphInv, OpenInv, WriteInv, ConfirmInv DEF Step
<1>4. CASE UNCHANGED vars
  BY <1>4, StutterInv
<1> QED
  BY <1>1, <1>2, <1>3, <1>4 DEF Next

THEOREM Invariance == Spec => []IInv
<1>1. Init => IInv
  BY InitInv
<1>2. IInv /\ [Next]_vars => IInv'
  BY NextInv
<1> QED
  BY <1>1, <1>2, PTL DEF Spec

-----------------------------------------------------------------------------
(* Every variable of the processes and of the disk keeps to its values, in *)
(* whatever order main's steps interleave.                                 *)
THEOREM TypeCorrect == Spec => []TypeOK
<1>1. IInv => TypeOK
  BY DEF IInv
<1> QED
  BY <1>1, Invariance, PTL

(* Whatever fails or is killed, the file holds a prefix of the report of   *)
(* the scan that opened it last, as long as nobody else writes to it.      *)
THEOREM FilePrefix == Spec => []UndisturbedFileIsPrefix
<1>1. IInv => UndisturbedFileIsPrefix
  BY DEF IInv
<1> QED
  BY <1>1, Invariance, PTL

(* Any number of interleaved scans leave pieces of their reports in their  *)
(* own places, and holes.                                                  *)
THEOREM PiecesInPlace == Spec => []PartsInPlace
<1>1. IInv => PartsInPlace
  BY DEF IInv
<1> QED
  BY <1>1, Invariance, PTL

(* run_scan returns Ok only with its report printed, and written whole     *)
(* unless another process disturbed the file.                              *)
THEOREM SuccessWritten == Spec => []SuccessMeansWritten
<1>1. ASSUME IInv PROVE SuccessMeansWritten
  <2> SUFFICES ASSUME NEW p \in Proc, pc[p] = "success", command[p] = "scan"
               PROVE  /\ printed[p] # Nothing
                      /\ p \notin disturbed => file = Parts(printed[p], Size(printed[p]))
    BY DEF SuccessMeansWritten
  <2>1. printed[p] \in Reports /\ offset[p] = Size(printed[p])
    BY <1>1 DEF IInv, StageOK
  <2>2. printed[p] # Nothing
    BY <2>1, NothingAssumption DEF Reports
  <2>3. offset[p] >= 0
    BY <2>1, SizeAssumption DEF Reports
  <2> QED
    BY <1>1, <2>1, <2>2, <2>3 DEF IInv, UndisturbedFileIsPrefix
<1> QED
  BY <1>1, Invariance, PTL

(* The report of an earlier run stays as it is until some scan has printed *)
(* one of its own.                                                         *)
THEOREM StaleUntilPrinted == Spec => []OldUntilPrinted
<1>1. IInv => OldUntilPrinted
  BY DEF IInv
<1> QED
  BY <1>1, Invariance, PTL

(* find_rules_dir finds the nearest `rules` directory at any depth, when   *)
(* nobody edits the directories.                                           *)
THEOREM NearestFound == Spec => []NearestRules
<1>1. IInv => NearestRules
  BY DEF IInv, SearchOK, NearestRules
<1> QED
  BY <1>1, Invariance, PTL

=============================================================================
