------------------------------ MODULE ScanCli ------------------------------
(***************************************************************************)
(* The policylens processes that run from one working directory,           *)
(* policylens-cli/src/main.rs.                                             *)
(*                                                                         *)
(* What the stages compute is the business of the other modules; here a    *)
(* stage succeeds, fails or panics, and what matters is what the processes *)
(* share: the Terraform directory and the `rules` directories, which their *)
(* owners edit meanwhile, and policylens-report.json, which every scan     *)
(* truncates and rewrites without a lock.  A process can be killed at any  *)
(* step, and a reader of its stdout that goes away makes println! panic.   *)
(*                                                                         *)
(* A stage reads its directory in one step: files edited while one         *)
(* directory is being read are left out.                                   *)
(***************************************************************************)
EXTENDS Integers

CONSTANTS
    Proc,       \* the processes; each runs one command
    Account,    \* what the scanned directory can hold
    Unreadable, \* of these, what build_graph_from_dir refuses
    Untaggable, \* of these, what classify panics on
    Rulebook,   \* what a `rules` directory can hold
    Refused,    \* of these, what load_dir refuses
    Panics,     \* pairs of an account and a rulebook on which matching panics
    Depth,      \* how far the working directory lies below the root
    Size(_),    \* how many writes the JSON of a report takes
    MaxEdits,   \* a bound: how often the directories are edited
    NoDir,      \* there is no `rules` directory
    Nothing     \* not there yet

ASSUME NothingAssumption == Nothing \notin Account \X Rulebook
ASSUME DepthAssumption == Depth \in Nat
ASSUME SizeAssumption == \A report \in Account \X Rulebook : Size(report) \in Nat \ {0}

VARIABLES
    account,    \* the scanned directory
    rulebooks,  \* the `rules` directory at each level above the working one
    edits,      \* how often either was edited
    file,       \* policylens-report.json, as a function from 1..n to its parts
    pc,         \* where each process is
    command,    \* what it runs
    seen,       \* the account it built its graph from
    level,      \* the level find_rules_dir is at
    rules,      \* the rulebook it loaded
    printed,    \* the report it printed
    offset,     \* how many parts it wrote; -1 before it opens the file
    disturbed   \* history: the processes after whose opening of the file
                \*   another one opened it or wrote to it

shared == <<account, rulebooks, edits>>
local == <<command, seen, level, rules, printed>>
onDisk == <<file, offset, disturbed>>
vars == <<shared, file, pc, local, offset, disturbed>>

Ended == {"success", "error", "panic", "usage", "killed"}
Pc == {"idle", "build", "cwd", "search", "load", "match", "print", "open", "write", "confirm"} \cup Ended

Part(report, i) == [of |-> report, nr |-> i]
Parts(report, n) == [i \in 1..n |-> Part(report, i)]

(* The report of an earlier run.                                           *)
Old == Parts(Nothing, 1)

(* What the file holds at i when nobody wrote there.                       *)
Hole == Part(Nothing, 0)

Init ==
    /\ account \in Account
    /\ rulebooks \in [0..Depth -> Rulebook \cup {NoDir}]
    /\ edits = 0
    /\ file = Old
    /\ pc = [p \in Proc |-> "idle"]
    /\ command = [p \in Proc |-> Nothing]
    /\ seen = [p \in Proc |-> Nothing]
    /\ level = [p \in Proc |-> Depth]
    /\ rules = [p \in Proc |-> Nothing]
    /\ printed = [p \in Proc |-> Nothing]
    /\ offset = [p \in Proc |-> -1]
    /\ disturbed = {}

-----------------------------------------------------------------------------
Goto(p, place) == pc' = [pc EXCEPT ![p] = place]

(* main: without a path a command panics; any other word is an error.      *)
Start(p) ==
    /\ pc[p] = "idle"
    /\ \/ /\ \E c \in {"scan", "debug-graph"} : command' = [command EXCEPT ![p] = c]
          /\ Goto(p, "build") \/ Goto(p, "panic")
       \/ Goto(p, "usage") /\ UNCHANGED command
    /\ UNCHANGED <<shared, onDisk, seen, level, rules, printed>>

(* run_scan: build_graph_from_dir and classify.                            *)
BuildToScan(p) ==
    /\ pc[p] = "build" /\ command[p] = "scan"
    /\ \/ account \in Unreadable /\ Goto(p, "error") /\ UNCHANGED seen
       \/ account \in Untaggable \ Unreadable /\ Goto(p, "panic") /\ UNCHANGED seen
       \/ /\ account \notin Unreadable \cup Untaggable
          /\ seen' = [seen EXCEPT ![p] = account] /\ Goto(p, "cwd")
    /\ UNCHANGED <<shared, onDisk, command, level, rules, printed>>

(* debug_graph: classify only with --classified.                           *)
BuildToShow(p) ==
    /\ pc[p] = "build" /\ command[p] = "debug-graph"
    /\ \/ account \in Unreadable /\ Goto(p, "error") /\ UNCHANGED seen
       \/ account \in Untaggable \ Unreadable /\ Goto(p, "panic") /\ UNCHANGED seen
       \/ account \notin Unreadable /\ seen' = [seen EXCEPT ![p] = account] /\ Goto(p, "print")
    /\ UNCHANGED <<shared, onDisk, command, level, rules, printed>>

(* current_dir, which fails when the directory is gone.                    *)
CurrentDirPopped(p) ==
    /\ pc[p] = "cwd"
    /\ \/ level' = [level EXCEPT ![p] = IF Depth = 0 THEN 0 ELSE Depth - 1] /\ Goto(p, "search")
       \/ Goto(p, "error") /\ UNCHANGED level
    /\ UNCHANGED <<shared, onDisk, command, seen, rules, printed>>
CurrentDir(p) ==
    /\ pc[p] = "cwd"
    /\ \/ level' = [level EXCEPT ![p] = Depth] /\ Goto(p, "search")
       \/ Goto(p, "error") /\ UNCHANGED level
    /\ UNCHANGED <<shared, onDisk, command, seen, rules, printed>>

(* One turn of find_rules_dir's loop.                                      *)
SearchPastRoot(p) ==
    /\ pc[p] = "search"
    /\ \/ /\ rulebooks[level[p]] # NoDir
          /\ Goto(p, "load") /\ UNCHANGED level
       \/ /\ rulebooks[level[p]] = NoDir
          /\ level' = [level EXCEPT ![p] = @ - 1] /\ UNCHANGED pc
    /\ UNCHANGED <<shared, onDisk, command, seen, rules, printed>>
SearchOnAtRoot(p) ==
    /\ pc[p] = "search"
    /\ \/ /\ rulebooks[level[p]] # NoDir
          /\ Goto(p, "load") /\ UNCHANGED level
       \/ /\ rulebooks[level[p]] = NoDir
          /\ level' = [level EXCEPT ![p] = IF @ = 0 THEN 0 ELSE @ - 1] /\ UNCHANGED pc
    /\ UNCHANGED <<shared, onDisk, command, seen, rules, printed>>
Search(p) ==
    /\ pc[p] = "search"
    /\ \/ /\ rulebooks[level[p]] # NoDir
          /\ Goto(p, "load") /\ UNCHANGED level
       \/ /\ rulebooks[level[p]] = NoDir /\ level[p] = 0
          /\ Goto(p, "error") /\ UNCHANGED level
       \/ /\ rulebooks[level[p]] = NoDir /\ level[p] # 0
          /\ level' = [level EXCEPT ![p] = @ - 1] /\ UNCHANGED pc
    /\ UNCHANGED <<shared, onDisk, command, seen, rules, printed>>

(* load_dir, which panics when the directory it was told of is gone or     *)
(* cannot be listed, and when a file of it is gone or cannot be read.      *)
Load(p) ==
    LET there == rulebooks[level[p]]
    IN  /\ pc[p] = "load"
        /\ \/ Goto(p, "panic") /\ UNCHANGED rules
           \/ there \in Refused /\ Goto(p, "error") /\ UNCHANGED rules
           \/ /\ there \notin Refused \cup {NoDir}
              /\ rules' = [rules EXCEPT ![p] = there] /\ Goto(p, "match")
        /\ UNCHANGED <<shared, onDisk, command, seen, level, printed>>

ReportOf(p) == <<seen[p], rules[p]>>

(* run_rules and build_report.                                             *)
MatchWritingFirst(p) ==
    /\ pc[p] = "match"
    /\ Goto(p, IF ReportOf(p) \in Panics THEN "panic" ELSE "open")
    /\ UNCHANGED <<shared, onDisk, local>>
Match(p) ==
    /\ pc[p] = "match"
    /\ Goto(p, IF ReportOf(p) \in Panics THEN "panic" ELSE "print")
    /\ UNCHANGED <<shared, onDisk, local>>

(* println!, which panics when nobody reads stdout any more: of run_scan   *)
(* and of debug_graph.                                                     *)
PrintReport(p) ==
    /\ pc[p] = "print" /\ command[p] = "scan"
    /\ \/ Goto(p, "panic") /\ UNCHANGED printed
       \/ printed' = [printed EXCEPT ![p] = ReportOf(p)] /\ Goto(p, "open")
    /\ UNCHANGED <<shared, onDisk, command, seen, level, rules>>
PrintGraph(p) ==
    /\ pc[p] = "print" /\ command[p] = "debug-graph"
    /\ Goto(p, "panic") \/ Goto(p, "success")
    /\ UNCHANGED <<shared, onDisk, local>>

Opened == {p \in Proc : offset[p] >= 0}

(* fs::write creates or truncates the file before it writes to it; both    *)
(* can fail.                                                               *)
OpenKeepingContents(p) ==
    /\ pc[p] = "open"
    /\ \/ Goto(p, "error") /\ UNCHANGED onDisk
       \/ /\ Goto(p, "write")
          /\ UNCHANGED file
          /\ offset' = [offset EXCEPT ![p] = 0]
          /\ disturbed' = disturbed \cup Opened
    /\ UNCHANGED <<shared, local>>
Open(p) ==
    /\ pc[p] = "open"
    /\ \/ Goto(p, "error") /\ UNCHANGED onDisk
       \/ /\ Goto(p, "write")
          /\ file' = [i \in {} |-> Hole]
          /\ offset' = [offset EXCEPT ![p] = 0]
          /\ disturbed' = disturbed \cup Opened
    /\ UNCHANGED <<shared, local>>

(* One write of write_all, at the place this process has reached, whatever *)
(* others have done to the file since.                                     *)
WithPartAppended(f, i, part) ==
    LET n == CHOOSE n \in 0..i : n + 1 \notin DOMAIN f /\ \A j \in 1..n : j \in DOMAIN f
    IN  [j \in 1..n + 1 |-> IF j = n + 1 THEN part ELSE f[j]]
WithPart(f, i, part) ==
    [j \in DOMAIN f \cup 1..i |-> IF j = i THEN part ELSE IF j \in DOMAIN f THEN f[j] ELSE Hole]

LastWriteEarly(report, i) == i >= Size(report) - 1
LastWrite(report, i) == i >= Size(report)

Write(p) ==
    LET i == offset[p] + 1
    IN  /\ pc[p] = "write"
        /\ \/ Goto(p, "error") /\ UNCHANGED onDisk
           \/ /\ file' = WithPart(file, i, Part(printed[p], i))
              /\ offset' = [offset EXCEPT ![p] = i]
              /\ Goto(p, IF LastWrite(printed[p], i) THEN "confirm" ELSE "write")
              /\ disturbed' = disturbed \cup (Opened \ {p})
        /\ UNCHANGED <<shared, local>>

(* The last println!, after the file is written.                           *)
Confirm(p) ==
    /\ pc[p] = "confirm"
    /\ Goto(p, "success") \/ Goto(p, "panic")
    /\ UNCHANGED <<shared, onDisk, local>>

Kill(p) ==
    /\ pc[p] \notin Ended \cup {"idle"}
    /\ Goto(p, "killed")
    /\ UNCHANGED <<shared, onDisk, local>>

(* The owners of the directories.                                          *)
Edit ==
    /\ edits < MaxEdits /\ edits' = edits + 1
    /\ \/ account' \in Account \ {account} /\ UNCHANGED rulebooks
       \/ /\ \E l \in 0..Depth, there \in Rulebook \cup {NoDir} :
                there # rulebooks[l] /\ rulebooks' = [rulebooks EXCEPT ![l] = there]
          /\ UNCHANGED account
    /\ UNCHANGED <<pc, local, onDisk>>

-----------------------------------------------------------------------------
(* What a process does of itself once it is started.                       *)
Step(p) ==
    \/ BuildToScan(p) \/ BuildToShow(p) \/ CurrentDir(p) \/ Search(p) \/ Load(p) \/ Match(p)
    \/ PrintReport(p) \/ PrintGraph(p) \/ Open(p) \/ Write(p) \/ Confirm(p)

Next == Edit \/ \E p \in Proc : Start(p) \/ Step(p) \/ Kill(p)

Fairness == \A p \in Proc : WF_vars(Step(p))

Spec == Init /\ [][Next]_vars /\ Fairness

-----------------------------------------------------------------------------
(* Properties.                                                             *)

TypeOK ==
    /\ account \in Account
    /\ rulebooks \in [0..Depth -> Rulebook \cup {NoDir}]
    /\ edits \in Nat
    /\ DOMAIN file \subseteq Nat \ {0}
    /\ pc \in [Proc -> Pc]
    /\ command \in [Proc -> {"scan", "debug-graph", Nothing}]
    /\ seen \in [Proc -> Account \cup {Nothing}]
    /\ level \in [Proc -> 0..Depth]
    /\ rules \in [Proc -> Rulebook \cup {Nothing}]
    /\ printed \in [Proc -> (Account \X Rulebook) \cup {Nothing}]
    /\ offset \in [Proc -> Nat \cup {-1}]
    /\ disturbed \subseteq Proc

(* Until another process opens or writes policylens-report.json, it holds  *)
(* the first parts of the report its last opener printed, as many as were  *)
(* written, also when that process failed or was killed meanwhile: never   *)
(* anything of an earlier report behind them.                              *)
UndisturbedFileIsPrefix ==
    \A p \in Proc :
        offset[p] >= 0 /\ p \notin disturbed => file = Parts(printed[p], offset[p])

(* However several scans interleave, the file is made of pieces of the     *)
(* reports they printed, each in its own place and written by a scan that  *)
(* has come so far, and of holes: nothing of an earlier report, and no     *)
(* piece moved or of a report nobody printed.                              *)
PartsInPlace ==
    Opened # {} =>
        \A i \in DOMAIN file :
            file[i] = Hole \/ \E p \in Opened : offset[p] >= i /\ file[i] = Part(printed[p], i)

(* A scan that exits with 0 has printed a report, and the file holds that  *)
(* same report whole, unless another process came in between.              *)
SuccessMeansWritten ==
    \A p \in Proc :
        pc[p] = "success" /\ command[p] = "scan" =>
            /\ printed[p] # Nothing
            /\ p \notin disturbed => file = Parts(printed[p], Size(printed[p]))

(* As long as no scan has come as far as printing a report, the report of  *)
(* the earlier run is untouched: usage errors, debug-graph, refused        *)
(* accounts and rules, panics and kills before that leave a stale file.    *)
OldUntilPrinted == (\A p \in Proc : printed[p] = Nothing) => file = Old

(* While nobody edits the directories, every scan uses the `rules`         *)
(* directory nearest above the working directory.                          *)
NearestRules ==
    edits = 0 =>
        \A p \in Proc :
            rules[p] # Nothing =>
                /\ rules[p] = rulebooks[level[p]]
                /\ \A l \in level[p] + 1..Depth : rulebooks[l] = NoDir

(* Every command that is started ends, whatever happens to the directories *)
(* under it: the search for rules goes up a finite path, and nothing is    *)
(* tried twice.                                                            *)
EveryRunEnds == \A p \in Proc : pc[p] # "idle" ~> pc[p] \in Ended

=============================================================================
