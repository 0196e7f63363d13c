--------------------------- MODULE RunDirectories ---------------------------
(***************************************************************************)
(* The per-run directories of the disk prompt cache (the constructor and   *)
(* the destructor of server_prompt_cache in tools/server/server-task.cpp,  *)
(* on systems with flock): several servers start, work and end over one    *)
(* cache root.  A server that is killed leaves its directory behind; a     *)
(* later one tells it from the directory of a running server by the marker *)
(* (.owner) and by the lock that nobody holds, and removes it.             *)
(*                                                                         *)
(* A directory is the set of its files; a removal takes one after the      *)
(* other, in any order, and the directory last.  Removals do not fail.     *)
(***************************************************************************)
EXTENDS Naturals

CONSTANTS
    Servers,     \* server processes (one starts again after its end)
    MaxRuns,     \* bound: how often a server starts
    MaxKills,    \* bound: how often a server is killed
    Nobody       \* holds no lock

ASSUME NobodyAssumption == Nobody \notin Servers
ASSUME BoundsAssumption == MaxRuns \in Nat /\ MaxKills \in Nat

VARIABLES
    dirs,        \* the directories below the cache root, by number
    server,      \* what each server is doing
    runs,        \* how often a server started
    kills,       \* how often a server was killed
    unmarked     \* directories that lost a server before or after their marks

dirVars == <<dirs, server, runs, kills, unmarked>>

Marks == {".lock", ".owner"}

(* own: its run directory; dir, path: the directory it looks at or removes *)
(* and the name it knows it by; present, visited: what its iterator finds  *)
(* at the start, and what it has passed; saved: its state files.           *)
Down == [at |-> "down", own |-> 0, saved |-> {}, dir |-> 0, path |-> "run",
         present |-> {}, visited |-> {}]

(* An earlier server was killed while it ran, or while it ended.           *)
DirInit ==
    /\ \E name \in {"run", "deleting"} :
          dirs = [d \in {1} |-> [name |-> name, files |-> Marks, lock |-> Nobody]]
    /\ server = [p \in Servers |-> Down]
    /\ runs = 1 /\ kills = 0 /\ unmarked = {}

Collects(p) == server' = [server EXCEPT ![p].at = "collect", ![p].dir = 0, ![p].path = "run"]
Removed(p) == IF server[p].at = "remove" THEN Collects(p) ELSE server' = [server EXCEPT ![p] = Down]
Goes(p, where) == server' = [server EXCEPT ![p].at = where]
Marked(d) == Marks \subseteq dirs[d].files
Found(p) == server[p].dir \in DOMAIN dirs /\ dirs[server[p].dir].name = server[p].path
Unlocked(p) == [d \in DOMAIN dirs |-> [dirs[d] EXCEPT !.lock = IF @ = p THEN Nobody ELSE @]]

Start(p) ==
    /\ server[p].at = "down" /\ runs < MaxRuns
    /\ runs' = runs + 1
    /\ server' = [server EXCEPT ![p] = [Down EXCEPT !.at = "collect", !.own = runs', !.present = DOMAIN dirs]]
    /\ UNCHANGED <<dirs, kills, unmarked>>

(* directory_iterator, over run-* and .deleting-run-*: what was there from *)
(* the start is visited, what came later may be.                           *)
MutLooks(d) == dirs[d].name = "run" /\ ".owner" \in dirs[d].files
Looks(d) == ".owner" \in dirs[d].files

Visit(p) ==
    /\ server[p].at = "collect"
    /\ \E d \in DOMAIN dirs \ server[p].visited :
          LET passed == [server EXCEPT ![p].visited = @ \union {d}]
          IN server' = IF Looks(d) THEN [passed EXCEPT ![p].at = "test", ![p].dir = d, ![p].path = dirs[d].name]
                       ELSE passed
    /\ UNCHANGED <<dirs, runs, kills, unmarked>>

(* Its .lock is opened and locked without waiting, if the path still leads *)
(* there (its owner may have renamed it) and nobody holds the lock ...     *)
Test(p) ==
    LET d == server[p].dir
    IN /\ server[p].at = "test"
       /\ IF Found(p) /\ ".lock" \in dirs[d].files /\ dirs[d].lock = Nobody
          THEN Goes(p, "tested") /\ dirs' = [dirs EXCEPT ![d].lock = p]
          ELSE Collects(p) /\ UNCHANGED dirs
       /\ UNCHANGED <<runs, kills, unmarked>>

(* ... and unlocked again before it is removed.                            *)
Untest(p) ==
    /\ server[p].at = "tested"
    /\ Goes(p, "remove") /\ dirs' = Unlocked(p)
    /\ UNCHANGED <<runs, kills, unmarked>>

(* fs::remove_all, by a collector ("remove") or by the destructor ("trash")*)
RemoveOne(p) ==
    LET d == server[p].dir
    IN /\ server[p].at \in {"remove", "trash"}
       /\ IF ~Found(p) THEN Removed(p) /\ UNCHANGED dirs
          ELSE IF dirs[d].files = {}
               THEN Removed(p) /\ dirs' = [x \in DOMAIN dirs \ {d} |-> dirs[x]]
               ELSE /\ \E file \in dirs[d].files : dirs' = [dirs EXCEPT ![d].files = @ \ {file}]
                    /\ UNCHANGED server
       /\ UNCHANGED <<runs, kills, unmarked>>

(* The iterator is at its end; a directory of a new name is created, ...   *)
Create(p) ==
    /\ server[p].at = "collect" /\ server[p].present \intersect DOMAIN dirs \subseteq server[p].visited
    /\ dirs' = [d \in DOMAIN dirs \union {server[p].own} |->
                   IF d = server[p].own THEN [name |-> "run", files |-> {}, lock |-> Nobody] ELSE dirs[d]]
    /\ server' = [server EXCEPT ![p] = [Down EXCEPT !.at = "created", !.own = server[p].own]]
    /\ UNCHANGED <<runs, kills, unmarked>>

(* ... its .lock created, and locked, ...                                  *)
OpenLock(p) ==
    /\ server[p].at = "created"
    /\ dirs' = [dirs EXCEPT ![server[p].own].files = @ \union {".lock"}]
    /\ Goes(p, "opened")
    /\ UNCHANGED <<runs, kills, unmarked>>

MutLock(p) ==
    /\ server[p].at = "opened"
    /\ Goes(p, "locked")
    /\ UNCHANGED <<dirs, runs, kills, unmarked>>
Lock(p) ==
    /\ server[p].at = "opened"
    /\ dirs' = [dirs EXCEPT ![server[p].own].lock = p]
    /\ Goes(p, "locked")
    /\ UNCHANGED <<runs, kills, unmarked>>

(* ... and only then is it marked.                                         *)
Publish(p) ==
    /\ server[p].at = "locked"
    /\ dirs' = [dirs EXCEPT ![server[p].own].files = @ \union {".owner"}]
    /\ Goes(p, "runs")
    /\ UNCHANGED <<runs, kills, unmarked>>

SaveState(p) ==
    /\ server[p].at = "runs" /\ server[p].saved = {}
    /\ dirs' = [dirs EXCEPT ![server[p].own].files = @ \union {"state"}]
    /\ server' = [server EXCEPT ![p].saved = {"state"}]
    /\ UNCHANGED <<runs, kills, unmarked>>

(* The destructor renames its directory, unlocks it and removes it; if the *)
(* rename fails it removes it under its name.                              *)
Rename(p) ==
    /\ server[p].at = "runs"
    /\ \E name \in {"run", "deleting"} :
          /\ dirs' = [dirs EXCEPT ![server[p].own].name = name]
          /\ server' = [server EXCEPT ![p].at = "renamed", ![p].dir = server[p].own, ![p].path = name]
    /\ UNCHANGED <<runs, kills, unmarked>>

Unlock(p) ==
    /\ server[p].at = "renamed"
    /\ Goes(p, "trash") /\ dirs' = Unlocked(p)
    /\ UNCHANGED <<runs, kills, unmarked>>

(* SIGKILL: the locks go with the process.  What it was making or removing *)
(* may lack its marks, and then nobody will remove it.                     *)
Kill(p) ==
    /\ server[p].at # "down" /\ kills < MaxKills
    /\ kills' = kills + 1
    /\ server' = [server EXCEPT ![p] = Down]
    /\ dirs' = Unlocked(p)
    /\ unmarked' = unmarked \union {d \in {server[p].own, server[p].dir} \intersect DOMAIN dirs : ~Marked(d)}
    /\ UNCHANGED runs

Cleans(p) == Visit(p) \/ Test(p) \/ Untest(p) \/ RemoveOne(p)

DirNext ==
    \E p \in Servers :
        \/ Start(p) \/ Cleans(p) \/ Create(p) \/ OpenLock(p) \/ Lock(p) \/ Publish(p)
        \/ SaveState(p) \/ Rename(p) \/ Unlock(p) \/ Kill(p)

DirSpec == DirInit /\ [][DirNext]_dirVars

(* No server that starts, and no iterator that visited a directory long    *)
(* ago, ever removes anything from the directory of one that runs: what it *)
(* saved is there when it looks for it.                                    *)
LiveDirectoryKept ==
    \A p \in Servers : server[p].at = "runs" =>
        /\ server[p].own \in DOMAIN dirs
        /\ dirs[server[p].own] = [name |-> "run", lock |-> p,
                                  files |-> Marks \union server[p].saved]

(* What dead servers left is gone after the next start, whoever removes it,*)
(* unless a kill falls between a directory's creation and its marks or     *)
(* between their removal and its own.                                      *)
StaleCollected ==
    \A p \in Servers, d \in 1 .. MaxRuns :
        (/\ kills = MaxKills
         /\ server[p].at = "collect" /\ server[p].visited = {}
         /\ d \in server[p].present \intersect DOMAIN dirs /\ Marked(d) /\ dirs[d].lock = Nobody)
        ~> (d \notin DOMAIN dirs \/ d \in unmarked)
=============================================================================
