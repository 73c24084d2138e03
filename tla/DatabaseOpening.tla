---------------------------- MODULE DatabaseOpening ----------------------------
(***************************************************************************)
(* How the SQLite stores come up: initialize and _migrate of the memory,   *)
(* task, planning, scheduler and workspace repositories and of the agent's *)
(* run history, with storage/recovery.py.                                  *)
(*                                                                         *)
(* A migration is a list of CREATE and ALTER statements followed by the    *)
(* new version in schema_meta.  Python's sqlite3 opens a transaction       *)
(* before an INSERT and not before a CREATE: outside a transaction every   *)
(* CREATE is durable by itself, whether or not the loop stands in "with    *)
(* conn".  Several processes open the same file, and each may be killed at *)
(* any statement.                                                          *)
(***************************************************************************)
EXTENDS Integers, FiniteSets, Sequences, SequencesExt

CONSTANTS Openers,      \* processes that open the store
          Stores,       \* the migration lists of the stores, see Store
          MaxOpens      \* bound: attempts to open

(* A statement makes a table, an index or a column, and either tolerates   *)
(* that it exists (IF NOT EXISTS) or fails; "version" sets schema_version, *)
(* as the last statement of every migration.                               *)
Statement == [op : {"ddl", "version"}, makes : STRING, tolerant : BOOLEAN]
IsStore(s) ==
    /\ s.commits \in {"each", "last"}
    /\ s.script \in Seq(Statement)
    /\ s.script # <<>> /\ s.script[Len(s.script)].op = "version"

NoWriter == "nobody"

DatabaseOpeningAssumption ==
    /\ MaxOpens \in Nat
    /\ NoWriter \notin Openers
    /\ \A s \in Stores : IsStore(s)

VARIABLES
    store,      \* which store it is
    made,       \* the tables, indexes and columns in the file
    version,    \* schema_version in the file
    sound,      \* PRAGMA integrity_check and the file header are fine
    opener,     \* each process: where it is in the script
    writer,     \* who holds the write lock over several statements
    opens,      \* attempts so far
    copies,     \* what the quarantined copies hold
    refused     \* history: a sound file of this version or older was refused

openingVars == <<store, made, version, sound, opener, writer, opens, copies, refused>>

Script == store.script
Versions == {k \in DOMAIN Script : Script[k].op = "version"}
Current == Cardinality(Versions)
(* Where the script starts for a file of version v.                        *)
StartOf(v) == IF v = 0 THEN 1
              ELSE 1 + CHOOSE k \in Versions : Cardinality(Versions \cap 1..k) = v

Fresh == [at |-> "closed", pc |-> 0, made |-> {}]

OpeningInit ==
    /\ store \in Stores
    /\ made = {}
    /\ \/ version = 0 /\ sound \in BOOLEAN
       \/ version = Current + 1 /\ sound = TRUE
    /\ opener = [p \in Openers |-> Fresh]
    /\ writer = NoWriter
    /\ opens = 0 /\ copies = {} /\ refused = FALSE

Goes(p, at) == opener' = [opener EXCEPT ![p].at = at]

(* quarantine_corrupt_file: a copy beside the file, or none if it fails.   *)
Quarantine == copies' \in {copies, copies \cup {made}}

-----------------------------------------------------------------------------
Reads(p) ==
    /\ opener[p].at \in {"closed", "unavailable"} /\ opens < MaxOpens
    /\ opens' = opens + 1
    /\ \/ /\ ~sound                           \* integrity_check, or no database
          /\ Goes(p, "unavailable")
          /\ Quarantine
       \/ /\ sound /\ version > Current        \* newer: refused, no copy
          /\ Goes(p, "unavailable")
          /\ UNCHANGED copies
       \/ /\ sound /\ version <= Current
          /\ opener' = [opener EXCEPT ![p] =
               [at |-> "migrating", pc |-> StartOf(version), made |-> {}]]
          /\ UNCHANGED copies
    /\ UNCHANGED <<store, made, version, sound, writer, refused>>

Runs(p) == /\ opener[p].at = "migrating" /\ opener[p].pc <= Len(Script)
           /\ writer \in {NoWriter, p}
Now(p) == Script[opener[p].pc]
Exists(p, x) == x \in made \cup opener[p].made

(* A CREATE: durable at once, or with the transaction that is open.        *)
Creates(p) ==
    /\ Runs(p) /\ Now(p).op = "ddl"
    /\ ~Exists(p, Now(p).makes) \/ Now(p).tolerant
    /\ IF writer = p
       THEN /\ opener' = [opener EXCEPT ![p].pc = @ + 1, ![p].made = @ \cup {Now(p).makes}]
            /\ UNCHANGED made
       ELSE /\ opener' = [opener EXCEPT ![p].pc = @ + 1]
            /\ made' = made \cup {Now(p).makes}
    /\ UNCHANGED <<store, version, sound, writer, opens, copies, refused>>

(* "table ... already exists" is an sqlite3.DatabaseError like any other:  *)
(* the file passes for corrupted.                                          *)
AlreadyExists(p) ==
    /\ Runs(p) /\ Now(p).op = "ddl"
    /\ Exists(p, Now(p).makes) /\ ~Now(p).tolerant
    /\ opener' = [opener EXCEPT ![p] = [Fresh EXCEPT !.at = "unavailable"]]
    /\ writer' = IF writer = p THEN NoWriter ELSE writer
    /\ Quarantine
    /\ refused' = TRUE
    /\ UNCHANGED <<store, made, version, sound, opens>>

(* busy_timeout passed: "database is locked" is a DatabaseError too.       *)
Locked(p) ==
    /\ opener[p].at = "migrating" /\ writer \notin {NoWriter, p}
    /\ opener' = [opener EXCEPT ![p] = [Fresh EXCEPT !.at = "unavailable"]]
    /\ Quarantine
    /\ refused' = TRUE
    /\ UNCHANGED <<store, made, version, sound, writer, opens>>

Reached(p) == Cardinality(Versions \cap 1..opener[p].pc)

(* A mutant: the version goes in before the statements it stands for.      *)
SetsVersionFirst(p) ==
    /\ Runs(p)
    /\ version' = Reached(p) + (IF Now(p).op = "ddl" THEN 1 ELSE 0)
    /\ IF Now(p).op = "ddl"
       THEN UNCHANGED opener
       ELSE opener' = [opener EXCEPT ![p] = [at |-> "migrating", pc |-> @.pc + 1, made |-> {}]]
    /\ UNCHANGED <<store, made, sound, writer, opens, copies, refused>>

(* INSERT OR REPLACE of the version opens the transaction; the commit      *)
(* follows it at once, or after the last statement in the memory store.    *)
SetsVersion(p) ==
    /\ Runs(p) /\ Now(p).op = "version"
    /\ IF store.commits = "each" \/ opener[p].pc = Len(Script)
       THEN /\ version' = Reached(p)
            /\ made' = made \cup opener[p].made
            /\ writer' = NoWriter
            /\ opener' = [opener EXCEPT ![p] = [at |-> "migrating", pc |-> @.pc + 1, made |-> {}]]
       ELSE /\ writer' = p
            /\ opener' = [opener EXCEPT ![p].pc = @ + 1]
            /\ UNCHANGED <<version, made>>
    /\ UNCHANGED <<store, sound, opens, copies, refused>>

Ready(p) ==
    /\ opener[p].at = "migrating" /\ opener[p].pc > Len(Script)
    /\ Goes(p, "healthy")
    /\ UNCHANGED <<store, made, version, sound, writer, opens, copies, refused>>

(* close, or a kill: an open transaction is rolled back.                   *)
Leaves(p) ==
    /\ opener[p].at \in {"migrating", "healthy"}
    /\ opener' = [opener EXCEPT ![p] = Fresh]
    /\ writer' = IF writer = p THEN NoWriter ELSE writer
    /\ UNCHANGED <<store, made, version, sound, opens, copies, refused>>

OpeningNext == \E p \in Openers :
    \/ Reads(p) \/ Creates(p) \/ AlreadyExists(p) \/ Locked(p) \/ SetsVersion(p)
    \/ Ready(p) \/ Leaves(p)

OpeningSpec == OpeningInit /\ [][OpeningNext]_openingVars

-----------------------------------------------------------------------------
Tolerant == \A k \in DOMAIN Script : Script[k].op = "ddl" => Script[k].tolerant
MadeBy(v) == {Script[k].makes : k \in {j \in DOMAIN Script :
                Script[j].op = "ddl" /\ Cardinality(Versions \cap 1..j) < v}}

(* The version in the file tells the truth, and a store that says it is    *)
(* ready has everything its statements use: whoever else was opening the   *)
(* file, and wherever an earlier opening was cut off.                      *)
VersionTellsTheSchema ==
    version <= Current =>
        /\ MadeBy(version) \subseteq made
        /\ \A p \in Openers : opener[p].at = "healthy" => MadeBy(Current) \subseteq made

(* A sound file of this version or an older one opens again after an       *)
(* opening that was cut off or overlapped with another: "migrations are    *)
(* ordered stdlib SQL statements executed in a transaction".               *)
SoundFileOpens == ~refused
(* So it is for the stores that say IF NOT EXISTS throughout and commit    *)
(* each migration with its version.                                        *)
TolerantFileOpens == Tolerant /\ store.commits = "each" => ~refused

(* What is damaged or newer than the program is left as it was.            *)
OthersFilesKept ==
    ~sound \/ version > Current => made = {} /\ \A p \in Openers : opener[p].at # "migrating"

(* What an opening owes whoever opens the file next: a version and tables  *)
(* that agree, a file that opens again, and no change to another's.        *)
OpeningIsSafe == VersionTellsTheSchema /\ TolerantFileOpens /\ OthersFilesKept
=============================================================================
