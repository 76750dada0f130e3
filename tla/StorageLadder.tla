---------------------------- MODULE StorageLadder ----------------------------
(***************************************************************************)
(* Where a run's directory goes (locate_storage in storage/locate.py): the *)
(* explicit base or nothing; else the first of pytest's temporary base,    *)
(* shared memory and the system's temporary directory that is local and    *)
(* takes a directory; else, with a warning, a base on network storage.     *)
(*                                                                         *)
(* Between two steps nothing here changes, but creating a directory may    *)
(* fail where access was granted.  Windows and macOS are left out: what    *)
(* differs there is how a file system is told to be remote.                *)
(***************************************************************************)
EXTENDS Naturals, Sequences

CONSTANTS
  Dirs, Shm, Temp,   \* directories; two of them have a part of their own
  None,
  Systems,           \* what each directory is like: [Dirs -> Directory]
  Requests           \* [explicit, candidate : Dirs \cup {None}, allow : BOOLEAN]

VARIABLES
  system, request,   \* never change
  rung,              \* "explicit", "candidate", "shm", "system", "fallback", "done"
  seen,              \* seen_bases
  fallbacks,         \* fallback_bases
  location,          \* [dir, reason, network] or None
  warned             \* StorageFallbackWarning was issued

ladderVars == <<system, request, rung, seen, fallbacks, location, warned>>

\* mount: what the mount table says, magic: what statfs says.
FileSystems == {"network", "local", "tmpfs", "unknown"}
Directory ==
  [access : {"absent", "readonly", "full", "free"},
   mount : FileSystems, magic : FileSystems, roomy : BOOLEAN]

Reasons == {"explicit", "caller temp", "shared memory", "system temp", "writable fallback"}

LadderAssumption ==
  /\ {Shm, Temp} \subseteq Dirs /\ None \notin Dirs
  /\ Systems \subseteq [Dirs -> Directory]
  /\ Requests \subseteq [explicit : Dirs \cup {None}, candidate : Dirs \cup {None}, allow : BOOLEAN]
  /\ \A d \in Dirs, n \in BOOLEAN, reason \in Reasons :
       None # [dir |-> d, reason |-> reason, network |-> n]

-----------------------------------------------------------------------------
\* Mutant: what neither table knows is taken for local.
NetworkIfKnown(d) ==
  IF system[d].mount # "unknown" THEN system[d].mount = "network"
  ELSE system[d].magic = "network"

\* _inspect_filesystem: the deepest mount decides, then statfs; unknown is network.
Network(d) ==
  IF system[d].mount # "unknown" THEN system[d].mount = "network"
  ELSE system[d].magic \notin {"local", "tmpfs"}

InMemory(d) ==
  system[d].mount = "tmpfs" \/ (system[d].mount = "unknown" /\ system[d].magic = "tmpfs")

Writable(d) == system[d].access \in {"full", "free"}
Creatable(d) == system[d].access = "free"

LadderInit ==
  /\ system \in Systems /\ request \in Requests
  /\ rung = "explicit" /\ seen = {} /\ fallbacks = <<>>
  /\ location = None /\ warned = FALSE

Locate(d, reason) ==
  /\ location' = [dir |-> d, reason |-> reason, network |-> Network(d)]
  /\ rung' = "done"
  /\ UNCHANGED <<system, request, seen, fallbacks>>

Descend(next) ==
  /\ rung' = next
  /\ UNCHANGED <<system, request, location, warned>>

\* An explicit base is used or refused, never replaced.
Explicit ==
  /\ rung = "explicit" /\ request.explicit # None
  /\ LET d == request.explicit IN
     /\ Creatable(d) /\ (~Network(d) \/ request.allow)
     /\ Locate(d, "explicit")
  /\ UNCHANGED warned

RefuseExplicit ==
  /\ rung = "explicit" /\ request.explicit # None
  /\ LET d == request.explicit IN ~Creatable(d) \/ (Network(d) /\ ~request.allow)
  /\ UNCHANGED <<seen, fallbacks>>
  /\ Descend("done")

NoExplicit ==
  /\ rung = "explicit" /\ request.explicit = None
  /\ UNCHANGED <<seen, fallbacks>>
  /\ Descend(IF request.candidate = None THEN "shm" ELSE "candidate")

\* try_local: a base is tried once; on network storage it is remembered.
TryLocal(d, reason, next) ==
  IF d \in seen \/ ~Writable(d)
  THEN UNCHANGED <<seen, fallbacks>> /\ Descend(next)
  ELSE IF Network(d) THEN
    /\ seen' = seen \cup {d} /\ fallbacks' = Append(fallbacks, d)
    /\ Descend(next)
  ELSE IF Creatable(d) THEN Locate(d, reason) /\ UNCHANGED warned
  ELSE seen' = seen \cup {d} /\ UNCHANGED fallbacks /\ Descend(next)

TryCandidate ==
  /\ rung = "candidate"
  /\ TryLocal(request.candidate, "caller temp", "shm")

\* Shared memory counts if it is memory and has room; it is never a fallback.
TrySharedMemory ==
  /\ rung = "shm"
  /\ IF Creatable(Shm) /\ ~Network(Shm) /\ InMemory(Shm) /\ system[Shm].roomy
     THEN Locate(Shm, "shared memory") /\ UNCHANGED warned
     ELSE UNCHANGED <<seen, fallbacks>> /\ Descend("system")

TrySystemTemp ==
  /\ rung = "system"
  /\ TryLocal(Temp, "system temp", "fallback")

TryFallback ==
  /\ rung = "fallback" /\ fallbacks # <<>>
  /\ warned' = TRUE
  /\ IF Creatable(Head(fallbacks)) THEN Locate(Head(fallbacks), "writable fallback")
     ELSE fallbacks' = Tail(fallbacks) /\ UNCHANGED <<system, request, rung, seen, location>>

NoStorage ==
  /\ rung = "fallback" /\ fallbacks = <<>>
  /\ UNCHANGED <<seen, fallbacks>>
  /\ Descend("done")

LadderNext ==
  \/ Explicit \/ RefuseExplicit \/ NoExplicit
  \/ TryCandidate \/ TrySharedMemory \/ TrySystemTemp
  \/ TryFallback \/ NoStorage

LadderSpec == LadderInit /\ [][LadderNext]_ladderVars

-----------------------------------------------------------------------------
LadderTypeOK ==
  /\ system \in [Dirs -> Directory]
  /\ request \in Requests
  /\ rung \in {"explicit", "candidate", "shm", "system", "fallback", "done"}
  /\ seen \subseteq Dirs /\ fallbacks \in Seq(Dirs)
  /\ location \in [dir : Dirs, reason : Reasons, network : BOOLEAN] \cup {None}
  /\ warned \in BOOLEAN

\* The bases a run without an explicit one may use.
Usable(d) ==
  /\ Creatable(d)
  /\ d \in {request.candidate, Temp} \/ (d = Shm /\ InMemory(d) /\ system[d].roomy)

Verified(d) ==
  IF system[d].mount = "unknown" THEN system[d].magic \in {"local", "tmpfs"}
  ELSE system[d].mount # "network"

\* SQLite ends up on storage that is not known to be local only with the user's consent
\* or, announced, where no local base would take it; and a run is refused only when no
\* base would (locate_storage, StorageFallbackWarning).
NetworkIsLastResort ==
  rung = "done" =>
    IF location = None
    THEN request.explicit = None => \A d \in Dirs \ {Shm} : ~Usable(d)
    ELSE IF request.explicit # None
    THEN location.dir = request.explicit /\ (Verified(location.dir) \/ request.allow)
    ELSE Verified(location.dir) \/ (warned /\ \A d \in Dirs : Usable(d) => ~Verified(d))
=============================================================================
