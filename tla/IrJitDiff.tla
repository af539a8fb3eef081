----------------------------- MODULE IrJitDiff -----------------------------
(***************************************************************************)
(* The fuzz target ir_jit_diff (written out by setup.sh): a list of IRs    *)
(* kept in memory, read again from disk every RELOAD_INTERVAL_SECS, from   *)
(* which each input picks a few to mutate and run.  libFuzzer calls the    *)
(* target from one thread and aborts on a panic, so the lock is never      *)
(* contended and never poisoned; it is left out.                           *)
(***************************************************************************)
EXTENDS SeedFiles

CONSTANTS
  ReloadInterval,   \* RELOAD_INTERVAL_SECS
  MaxTime           \* bound of the model: the clock stops there

ASSUME ReloadAssumption == ReloadInterval \in Nat \ {0} /\ MaxTime \in Nat

VARIABLES
  now,          \* seconds since UNIX_EPOCH, from when the model begins
  corpus,       \* IR_CORPUS: the files it was read from, with their contents
  last_reload,  \* LAST_RELOAD
  target        \* pc; time the input began at; of a directory scan: what
                \* there was when it began, names seen, files read so far

targetVars == <<corpus, last_reload, target>>

NoFiles == [name \in {} |-> 0]

Off == [pc |-> "off", now |-> 0, listing |-> NoFiles, seen |-> {}, irs |-> {}]

(* A listing is whatever the directory was.                                *)
TargetTypeOK ==
  /\ now \in 0 .. MaxTime
  /\ corpus \subseteq Files \X (Nat \ {Torn})
  /\ last_reload \in Int
  /\ target \in [pc      : {"off", "idle", "scan", "select", "execute", "print", "exited"},
                 now     : 0 .. now,
                 listing : {target.listing},
                 seen    : SUBSET Files,
                 irs     : SUBSET (Files \X (Nat \ {Torn}))]

(* The epoch is long past: LAST_RELOAD = 0 is out of every interval.       *)
TargetInit ==
  /\ corpus = {}
  /\ last_reload = - ReloadInterval
  /\ target = Off

Launch ==
  /\ corpus' = {}
  /\ last_reload' = - ReloadInterval
  /\ target' = [Off EXCEPT !.pc = "idle"]

(* Mutant: a reload only when the interval is exceeded.                    *)
StaleLate == corpus = {} \/ now - last_reload > ReloadInterval

(* saturating_sub: before last_reload counts as at last_reload.            *)
Stale == corpus = {} \/ now - last_reload >= ReloadInterval

BeginInput ==
  /\ target.pc = "idle"
  /\ target' = IF Stale
                 THEN [Off EXCEPT !.pc = "scan", !.now = now, !.listing = disk]
                 ELSE [Off EXCEPT !.pc = "select", !.now = now]
  /\ UNCHANGED <<corpus, last_reload>>

(* A torn file does not deserialize and is skipped.                        *)
Decoded(name) == IF disk[name] = Torn THEN {} ELSE {<<name, disk[name]>>}

(* The directory is read entry by entry while a generator changes it.  A   *)
(* file that comes in meanwhile may be found or not; one that goes away is *)
(* not found, or cannot be read any more.                                  *)
ScanFile ==
  /\ target.pc = "scan"
  /\ \E name \in DOMAIN disk \ target.seen :
       target' = [target EXCEPT !.seen = @ \cup {name}, !.irs = @ \cup Decoded(name)]
  /\ UNCHANGED <<corpus, last_reload>>

(* What has been there, unchanged, all the time has been seen.             *)
ScanComplete ==
  \A name \in (DOMAIN target.listing \cap DOMAIN disk) \ target.seen :
    disk[name] # target.listing[name]

EndScan ==
  /\ target.pc = "scan"
  /\ ScanComplete
  /\ corpus' = target.irs
  /\ last_reload' = target.now
  /\ target' = [Off EXCEPT !.pc = "select", !.now = target.now]

(* Nothing to fuzz with.                                                   *)
SkipInput ==
  /\ target.pc = "select"
  /\ corpus = {}
  /\ target' = [target EXCEPT !.pc = "idle"]
  /\ UNCHANGED <<corpus, last_reload>>

(* Some of the IRs are picked, mutated and run through the executor.       *)
SelectIrs ==
  /\ target.pc = "select"
  /\ corpus # {}
  /\ target' = [target EXCEPT !.pc = "execute"]
  /\ UNCHANGED <<corpus, last_reload>>

(* The executor returned; libFuzzer may have something to print.           *)
EndInput ==
  /\ target.pc = "execute"
  /\ \E pc \in {"idle", "print"} : target' = [target EXCEPT !.pc = pc]
  /\ UNCHANGED <<corpus, last_reload>>

(* The executor panicked: a crash is found and libFuzzer exits.            *)
FindCrash ==
  /\ target.pc = "execute"
  /\ target' = [target EXCEPT !.pc = "exited"]
  /\ UNCHANGED <<corpus, last_reload>>

TargetStep ==
  \/ BeginInput \/ ScanFile \/ EndScan
  \/ SkipInput \/ SelectIrs \/ EndInput
=============================================================================
