----------------------------- MODULE DocumentStore ----------------------------
(***************************************************************************)
(* The files of one document directory (persistDocument, pruneSnapshots    *)
(* and atomicTextWrite in web_supervisor-manager/app/app.go): baseline,    *)
(* current, its Markdown rendering and the snapshots.  Nothing is locked.  *)
(*                                                                         *)
(* A Writer is a task whose documents go to this directory; its runs come  *)
(* one after the other (TaskManager), each with several attempts.  Every   *)
(* file operation is an action of its own and may fail, and the process    *)
(* may die between any two of them.                                        *)
(***************************************************************************)
EXTENDS DocumentDiff

CONSTANTS
  Writer,       \* tasks with this document directory
  Doc,          \* documents a workflow can produce
  Config,       \* document.identity and document.compare of the tasks
  Keep,         \* document.keep_snapshots (100 if not positive)
  MaxAttempts,  \* retry.max_attempts
  Torn,         \* a file that is not wholly written
  Missing,      \* no such file
  MaxWrites,    \* bound on the snapshots started
  MaxFaults     \* bound on the number of failed attempts and crashes

ASSUME StoreAssumption ==
  /\ Config \in DocumentConfig
  /\ Keep \in Nat \ {0}
  /\ MaxAttempts \in Nat \ {0}
  /\ MaxWrites \in Nat
  /\ MaxFaults \in Nat
  /\ Torn # Missing
  /\ {Torn, Missing} \cap Doc = {}
  /\ \A d \in Doc : d = Null \/ d \in Seq(Item)

\* The files in the order persistDocument writes them; a snapshot has the
\* time of its writing for a name, which here is a number.
BaselineJSON == <<"baseline", 0>>
CurrentJSON  == <<"current", 0>>
CurrentMD    == <<"markdown", 0>>
Snapshot(n)  == <<"snapshot", n>>
Snap == {Snapshot(n) : n \in 1..MaxWrites}
File == {BaselineJSON, CurrentJSON, CurrentMD} \cup Snap

VARIABLES
  file,     \* the content of each file
  tmp,      \* the content of the .tmp file next to it
  w,        \* the goroutine of each writer
  clock,    \* the time that named the last snapshot
  faults,   \* failed attempts and crashes so far (history)
  last,     \* the document of the last successful run (history)
  partial,  \* since then, some attempt replaced current and failed (history)
  shared    \* two runs wrote at the same time at some point (history)

vars == <<file, tmp, w, clock, faults, last, partial, shared>>

Content == Doc \cup {Torn, Missing}

Idle == [pc |-> "idle", attempt |-> 0, doc |-> Missing, previous |-> Missing,
         diff |-> NoDiff, at |-> CurrentJSON, open |-> "no", list |-> {},
         before |-> <<>>, error |-> FALSE]

\* The directory as a reader of the API sees it.
Files == <<file, {s \in Snap : tmp[s] # Missing}>>

Active(x) == w[x].pc # "idle"
Baseline(x) == w[x].previous = Missing

\* The attempt has replaced current.json and is not finished.
ReplacedCurrent(x) ==
  \/ w[x].pc \in {"list", "prune"}
  \/ w[x].pc = "write" /\ w[x].at \in Snap \cup {CurrentMD}

Init ==
  /\ file = [f \in File |-> Missing]
  /\ tmp = [f \in File |-> Missing]
  /\ w = [x \in Writer |-> Idle]
  /\ clock = 0
  /\ faults = 0
  /\ last = Missing
  /\ partial = FALSE
  /\ shared = FALSE

-----------------------------------------------------------------------------
(* runTask: the attempts of a run *)

\* The run starts and its workflow has produced a document.
Begin(x, d) ==
  /\ w[x].pc = "idle"
  /\ w' = [w EXCEPT ![x] = [Idle EXCEPT !.pc = "read", !.attempt = 1, !.doc = d]]
  /\ shared' = (shared \/ \E y \in Writer : Active(y))
  /\ UNCHANGED <<file, tmp, clock, faults, last, partial>>

\* The next attempt runs the workflow again, which may produce another document.
Retry(x, d) ==
  /\ w[x].pc = "failed"
  /\ w[x].attempt < MaxAttempts
  /\ w' = [w EXCEPT ![x] = [Idle EXCEPT !.pc = "read",
                                        !.attempt = w[x].attempt + 1, !.doc = d]]
  /\ UNCHANGED <<file, tmp, clock, faults, last, partial, shared>>

\* The last attempt failed, or the run was cancelled between two attempts.
GiveUp(x) ==
  /\ w[x].pc = "failed"
  /\ w' = [w EXCEPT ![x] = Idle]
  /\ UNCHANGED <<file, tmp, clock, faults, last, partial, shared>>

\* Leaving persistDocument with an error in the state that `r' describes.
Fail(x, r) ==
  /\ faults < MaxFaults
  /\ faults' = faults + 1
  /\ w' = [w EXCEPT ![x] = [r EXCEPT !.pc = "failed"]]
  /\ partial' = (partial \/ ReplacedCurrent(x))
  /\ UNCHANGED <<clock, last, shared>>

-----------------------------------------------------------------------------
(* persistDocument *)

\* Bug: the document is compared with the baseline.
BugReadCurrent(x) ==
  /\ w[x].pc = "read"
  /\ file[CurrentJSON] # Torn
  /\ w' = [w EXCEPT ![x] =
       [@ EXCEPT !.pc = "render",
                 !.previous = file[CurrentJSON],
                 !.diff = CompareValues(IF file[BaselineJSON] \in {Missing, Torn} THEN Null
                                        ELSE file[BaselineJSON], w[x].doc, Config),
                 !.before = Files]]
  /\ UNCHANGED <<file, tmp, clock, faults, last, partial, shared>>

\* The directory is made, current.json is read and the documents compared.
ReadCurrent(x) ==
  /\ w[x].pc = "read"
  /\ file[CurrentJSON] # Torn
  /\ w' = [w EXCEPT ![x] =
       [@ EXCEPT !.pc = "render",
                 !.previous = file[CurrentJSON],
                 !.diff = CompareValues(IF file[CurrentJSON] = Missing THEN Null
                                        ELSE file[CurrentJSON], w[x].doc, Config),
                 !.before = Files]]
  /\ UNCHANGED <<file, tmp, clock, faults, last, partial, shared>>

\* Some call fails, or current.json is not valid JSON.
ReadFails(x) ==
  /\ w[x].pc = "read"
  /\ Fail(x, w[x])
  /\ UNCHANGED <<file, tmp>>

\* Bug: no baseline is written.
BugFirstFile(x) == CurrentJSON

\* Bug: every run writes the baseline.
BugEveryFile(x) == BaselineJSON

FirstFile(x) == IF Baseline(x) THEN BaselineJSON ELSE CurrentJSON

Render(x) ==
  /\ w[x].pc = "render"
  /\ w' = [w EXCEPT ![x] = [@ EXCEPT !.pc = "write", !.at = FirstFile(x),
                                     !.before = <<>>]]
  /\ UNCHANGED <<file, tmp, clock, faults, last, partial, shared>>

\* Bug: the template is rendered when current.md is written.
BugRenderFails(x) ==
  /\ w[x].pc = "write" /\ w[x].at = CurrentMD /\ w[x].open = "no"
  /\ Fail(x, [w[x] EXCEPT !.error = TRUE])
  /\ UNCHANGED <<file, tmp>>

\* The template does not parse or does not fit the document.
RenderFails(x) ==
  /\ w[x].pc = "render"
  /\ Fail(x, [w[x] EXCEPT !.error = TRUE])
  /\ UNCHANGED <<file, tmp>>

-----------------------------------------------------------------------------
(* atomicTextWrite: open (and empty) the .tmp file, fill it, rename it *)

\* Bug: the file is written in place.
BugOpenTmp(x) ==
  /\ w[x].pc = "write" /\ w[x].open = "no"
  /\ file' = [file EXCEPT ![w[x].at] = Torn]
  /\ w' = [w EXCEPT ![x].open = "target"]
  /\ UNCHANGED <<tmp, clock, faults, last, partial, shared>>

OpenTmp(x) ==
  /\ w[x].pc = "write" /\ w[x].open = "no"
  /\ tmp' = [tmp EXCEPT ![w[x].at] = Torn]
  /\ w' = [w EXCEPT ![x].open = "tmp"]
  /\ UNCHANGED <<file, clock, faults, last, partial, shared>>

\* What writing doc at the start of a file that holds c can leave: when
\* another writer filled the file meanwhile, perhaps a mixture.
Written(c, doc) == IF c \in {Torn, doc} THEN {doc} ELSE {doc, Torn}

\* Another writer may have renamed the open file, or replaced or removed it.
FillTmp(x) ==
  LET f == w[x].at IN
  /\ w[x].pc = "write"
  /\ \/ /\ w[x].open = "tmp"
        /\ \E c \in Written(tmp[f], w[x].doc) : tmp' = [tmp EXCEPT ![f] = c]
        /\ UNCHANGED file
     \/ /\ w[x].open = "target"
        /\ \E c \in Written(file[f], w[x].doc) : file' = [file EXCEPT ![f] = c]
        /\ UNCHANGED tmp
     \/ w[x].open = "gone" /\ UNCHANGED <<file, tmp>>
  /\ w' = [w EXCEPT ![x].open = "filled"]
  /\ UNCHANGED <<clock, faults, last, partial, shared>>

\* The others who have file f open after it was renamed.
Renamed(f) ==
  [y \in Writer |->
     IF w[y].pc = "write" /\ w[y].at = f
     THEN [w[y] EXCEPT !.open = CASE @ = "tmp" -> "target" [] @ = "target" -> "gone"
                                  [] OTHER -> @]
     ELSE w[y]]

\* Where the goroutine goes after it has replaced its file.
NextFile(r) ==
  CASE r.at = BaselineJSON -> [r EXCEPT !.at = CurrentJSON, !.open = "no"]
    [] r.at = CurrentJSON  -> [r EXCEPT !.at = CurrentMD, !.open = "no"]
    [] r.at = CurrentMD    -> [r EXCEPT !.at = Snapshot(clock + 1), !.open = "no"]
    [] OTHER               -> [r EXCEPT !.pc = "list", !.open = "no"]

\* Bug: two snapshots get the same name.
BugRename(x) ==
  LET f == w[x].at IN
  /\ w[x].pc = "write" /\ w[x].open = "filled"
  /\ tmp[f] # Missing
  /\ f = CurrentMD => clock < MaxWrites
  /\ file' = [file EXCEPT ![f] = tmp[f]]
  /\ tmp' = [tmp EXCEPT ![f] = Missing]
  /\ w' = [Renamed(f) EXCEPT ![x] = NextFile(w[x])]
  /\ UNCHANGED <<clock, faults, last, partial, shared>>

Rename(x) ==
  LET f == w[x].at IN
  /\ w[x].pc = "write" /\ w[x].open = "filled"
  /\ tmp[f] # Missing
  /\ f = CurrentMD => clock < MaxWrites
  /\ file' = [file EXCEPT ![f] = tmp[f]]
  /\ tmp' = [tmp EXCEPT ![f] = Missing]
  /\ w' = [Renamed(f) EXCEPT ![x] = NextFile(w[x])]
  /\ clock' = IF f = CurrentMD THEN clock + 1 ELSE clock
  /\ UNCHANGED <<faults, last, partial, shared>>

\* Opening, writing or renaming fails; the .tmp file stays as it is.
WriteFails(x) ==
  /\ w[x].pc = "write"
  /\ Fail(x, w[x])
  /\ UNCHANGED <<file, tmp>>

-----------------------------------------------------------------------------
(* pruneSnapshots *)

\* The entries of the snapshots directory: finished snapshots and .tmp files.
Entries == {<<s, "json">> : s \in {t \in Snap : file[t] # Missing}}
             \cup {<<s, "tmp">> : s \in {t \in Snap : tmp[t] # Missing}}

\* Bug: one too many is kept.
BugOutdated(es) == {e \in es : Cardinality({g \in es : g[1][2] > e[1][2]}) > Keep}

\* The entries to remove: all but the Keep newest by name.
Outdated(es) == {e \in es : Cardinality({g \in es : g[1][2] > e[1][2]}) >= Keep}

ListSnapshots(x) ==
  /\ w[x].pc = "list"
  /\ w' = [w EXCEPT ![x] = [@ EXCEPT !.pc = "prune", !.list = Outdated(Entries)]]
  /\ UNCHANGED <<file, tmp, clock, faults, last, partial, shared>>

\* The oldest of them goes first; someone may have its .tmp file open.
RemoveSnapshot(x) ==
  /\ w[x].pc = "prune"
  /\ \E e \in w[x].list \cap Entries :
       /\ \A g \in w[x].list : e[1][2] <= g[1][2]
       /\ IF e[2] = "json"
          THEN file' = [file EXCEPT ![e[1]] = Missing] /\ UNCHANGED tmp
          ELSE tmp' = [tmp EXCEPT ![e[1]] = Missing] /\ UNCHANGED file
       /\ w' = [y \in Writer |->
                  IF y = x THEN [w[y] EXCEPT !.list = @ \ {e}]
                  ELSE IF e[2] = "tmp" /\ w[y].at = e[1] /\ w[y].open = "tmp"
                  THEN [w[y] EXCEPT !.open = "gone"] ELSE w[y]]
  /\ UNCHANGED <<clock, faults, last, partial, shared>>

\* The directory cannot be read, or an entry cannot be removed, because
\* another run has removed or renamed it for example.
PruneFails(x) ==
  /\ w[x].pc = "list" \/ (w[x].pc = "prune" /\ w[x].list # {})
  /\ Fail(x, w[x])
  /\ UNCHANGED <<file, tmp>>

Succeed(x) ==
  /\ w[x].pc = "prune" /\ w[x].list = {}
  /\ w' = [w EXCEPT ![x] = Idle]
  /\ last' = w[x].doc
  /\ partial' = FALSE
  /\ UNCHANGED <<file, tmp, clock, faults, shared>>

-----------------------------------------------------------------------------
Crash ==
  /\ faults < MaxFaults
  /\ faults' = faults + 1
  /\ w' = [x \in Writer |-> Idle]
  /\ partial' = (partial \/ \E x \in Writer : ReplacedCurrent(x))
  /\ UNCHANGED <<file, tmp, clock, last, shared>>

Step(x) ==
  \/ \E d \in Doc : Begin(x, d) \/ Retry(x, d)
  \/ GiveUp(x)
  \/ ReadCurrent(x) \/ ReadFails(x)
  \/ Render(x) \/ RenderFails(x)
  \/ OpenTmp(x) \/ FillTmp(x) \/ Rename(x) \/ WriteFails(x)
  \/ ListSnapshots(x) \/ RemoveSnapshot(x) \/ PruneFails(x)
  \/ Succeed(x)

Next == Crash \/ \E x \in Writer : Step(x)

Spec == Init /\ [][Next]_vars

-----------------------------------------------------------------------------
(* Properties *)

DirState == {<<>>} \cup ([File -> Content] \X SUBSET Snap)

WriterState ==
  [pc : {"idle", "read", "render", "write", "list", "prune", "failed"},
   attempt : 0..MaxAttempts, doc : Doc \cup {Missing}, previous : Content,
   diff : [added : Nat, updated : Nat, deleted : Nat, unchanged : Nat],
   at : File, open : {"no", "tmp", "target", "gone", "filled"},
   list : SUBSET (Snap \X {"json", "tmp"}),
   before : DirState, error : BOOLEAN]

\* Every variable has its type, and no more snapshots exist than were named.
TypeOK ==
  /\ file \in [File -> Content]
  /\ tmp \in [File -> Content]
  /\ w \in [Writer -> WriterState]
  /\ clock \in 0..MaxWrites
  /\ faults \in 0..MaxFaults
  /\ last \in Doc \cup {Missing}
  /\ partial \in BOOLEAN
  /\ shared \in BOOLEAN
  /\ \A s \in Snap : s[2] > clock => file[s] = Missing /\ tmp[s] = Missing

\* What a reader finds under a document's name is a whole document, after
\* failed writes and crashes too, unless two runs wrote at the same time
\* (atomicTextWrite); a snapshot always is.
FilesWhole ==
  /\ \A f \in Snap : file[f] # Torn
  /\ ~shared => \A f \in File : file[f] # Torn

\* A current document always has a baseline next to it: a crash or an error
\* between the two writes leaves the baseline alone (persistDocument writes
\* the baseline first), whoever else writes.
BaselineFirst == file[CurrentJSON] # Missing => file[BaselineJSON] # Missing

\* Once there is a current document no run replaces the baseline, unless two
\* runs established it together.
BaselineKept ==
  [][file[CurrentJSON] # Missing /\ ~shared' => file'[BaselineJSON] = file[BaselineJSON]]_vars

\* "A malformed template must not advance current/baseline or create a
\* snapshot" (persistDocument): an attempt that fails there leaves the
\* directory as it found it.
TemplateFailureHarmless ==
  ~shared => \A x \in Writer :
    w[x].pc = "failed" /\ w[x].error => Files = w[x].before

\* When a run is about to succeed, current, Markdown and the newest snapshot are its
\* document, and at most Keep snapshots are left, whatever earlier attempts
\* and crashes left behind.
SuccessIsComplete ==
  ~shared => \A x \in Writer : w[x].pc = "prune" /\ w[x].list = {} =>
    /\ file[CurrentJSON] = w[x].doc
    /\ file[CurrentMD] = w[x].doc
    /\ file[Snapshot(clock)] = w[x].doc
    /\ Cardinality(Entries) <= Keep

\* If every attempt since the last successful run failed before it replaced
\* current, the next successful run is the baseline exactly when it is the
\* first, and reports the difference to the last successful one.
ReportsChange ==
  ~shared /\ ~partial => \A x \in Writer :
    w[x].pc = "prune" =>
      /\ Baseline(x) = (last = Missing)
      /\ ~Baseline(x) => w[x].diff = CompareValues(last, w[x].doc, Config)
=============================================================================
