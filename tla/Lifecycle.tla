------------------------------ MODULE Lifecycle -------------------------------
(***************************************************************************)
(* Loading and unloading of IME98TSR.COM: dos/pc98/tsr_main.c with the     *)
(* vector and unload routines of tsr_hook.S.  The program may be started   *)
(* again while a copy is resident, and other programs hook the same        *)
(* vectors.  DOS runs one of them at a time; interrupts may arrive between *)
(* any two steps, so every step must leave usable vector chains behind.    *)
(***************************************************************************)
EXTENDS Integers

CONSTANTS
  Copies,   \* loaded images of IME98TSR.COM
  Others    \* other resident programs

ASSUME LifecycleAssumption ==
  /\ Copies \cap Others = {}
  /\ "bios" \notin Copies \cup Others

VARIABLES
  vector,       \* the interrupt vectors
  saved,        \* the vectors each program found when it hooked them
  memory,       \* "free", "loaded" (running), "resident", or "orphan": DOS did
                \* not take it back
  environment,  \* the DOS environment block of a copy is "held" or "free"
  link,         \* the copy has a session open and captures COM1
  step,         \* what the running IME98TSR.COM does next, or "idle"
  who,          \* the copy it installs or unloads
  result,       \* pc98_uninstall_result of the last /U
  misrestored,  \* history: a refused install has put the vector back
  struck        \* history: a session was opened in the middle of an unload

lifecycleVars == <<vector, saved, memory, environment, link, step, who, result,
                   misrestored, struck>>

Vectors == {"int0c", "int18"}
Programs == Copies \cup Others

(* Where a vector points: a program's handler, or (see UndoSerial) the
   variable in which a copy keeps the old vector. *)
Code(p, v) == [owner |-> p, at |-> v]
Bios(v) == Code("bios", v)
Unset == Code("bios", "nothing")
Data(p) == Code(p, "data")

(* Installing compares the offset alone, the same in every copy. *)
OffsetOfHook(h, v) == h.owner \in Copies /\ h.at = v

Hook(p, v) ==
  /\ saved' = [saved EXCEPT ![p][v] = vector[v]]
  /\ vector' = [vector EXCEPT ![v] = Code(p, v)]

(* What an interrupt may find when it follows a vector or chains on. *)
Pointers(v) == {vector[v]} \cup {saved[p][v] : p \in Programs}

(* A set the interrupt does not leave: the vector points into it, and each
   handler in it chains to the vector its program found. *)
Closed(S, v) ==
  /\ vector[v] \in S
  /\ \A p \in Programs : Code(p, v) \in S => saved[p][v] \in S

(* The handlers an interrupt passes through: the smallest such set. *)
Chain(v) ==
  {h \in Pointers(v) : \A S \in SUBSET Pointers(v) : Closed(S, v) => h \in S}

-----------------------------------------------------------------------------
(* Installing *)

Start(c) ==
  /\ step = "idle"
  /\ memory[c] = "free" /\ environment[c] = "free"
  /\ memory' = [memory EXCEPT ![c] = "loaded"]
  /\ \E e \in {"held", "free"} : environment' = [environment EXCEPT ![c] = e]
  /\ step' = "serial"
  /\ who' = c
  /\ UNCHANGED <<vector, saved, link, result, misrestored, struck>>

(* pc98_install_serial_irq *)
InstallSerial ==
  /\ step = "serial"
  /\ IF OffsetOfHook(vector["int0c"], "int0c")
       THEN step' = "refuse" /\ UNCHANGED <<vector, saved>>
       ELSE step' = "input" /\ Hook(who, "int0c")
  /\ UNCHANGED <<memory, environment, link, who, result, misrestored, struck>>

(* pc98_install_input *)
InstallInput ==
  /\ step = "input"
  /\ IF OffsetOfHook(vector["int18"], "int18")
       THEN step' = "undo" /\ UNCHANGED <<vector, saved>>
       ELSE step' = "stay" /\ Hook(who, "int18")
  /\ UNCHANGED <<memory, environment, link, who, result, misrestored, struck>>

(* pc98_restore_serial_irq sets the vector to the address of the variable
   that holds the old vector. *)
UndoSerial ==
  /\ step = "undo"
  /\ IF vector["int0c"] = Code(who, "int0c")
       THEN vector' = [vector EXCEPT !["int0c"] = Data(who)] /\ misrestored' = TRUE
       ELSE UNCHANGED <<vector, misrestored>>
  /\ step' = "refuse"
  /\ UNCHANGED <<saved, memory, environment, link, who, result, struck>>

(* dos_exit(1): DOS takes the memory back. *)
Refuse ==
  /\ step = "refuse"
  /\ memory' = [memory EXCEPT ![who] = "free"]
  /\ environment' = [environment EXCEPT ![who] = "free"]
  /\ step' = "idle"
  /\ UNCHANGED <<vector, saved, link, who, result, misrestored, struck>>

StayResident ==
  /\ step = "stay"
  /\ memory' = [memory EXCEPT ![who] = "resident"]
  /\ step' = "idle"
  /\ UNCHANGED <<vector, saved, environment, link, who, result, misrestored, struck>>

-----------------------------------------------------------------------------
(* Unloading, /U *)

(* Faults for the checks: INT 18h is taken for the copy's without a look;
   the second vector is not looked at. *)
FindResidentUnsigned ==
  /\ step = "idle"
  /\ vector["int0c"] = Code(vector["int18"].owner, "int0c")
  /\ who' = vector["int18"].owner
  /\ step' = "prepare"
  /\ UNCHANGED <<vector, saved, memory, environment, link, result, misrestored, struck>>

FindResidentInputOnly ==
  /\ step = "idle"
  /\ OffsetOfHook(vector["int18"], "int18")
  /\ who' = vector["int18"].owner
  /\ step' = "prepare"
  /\ UNCHANGED <<vector, saved, memory, environment, link, result, misrestored, struck>>

(* The copy that owns INT 18h directly must own INT 0Ch as well; otherwise
   nothing is done. *)
FindResident ==
  /\ step = "idle"
  /\ OffsetOfHook(vector["int18"], "int18")
  /\ vector["int0c"] = Code(vector["int18"].owner, "int0c")
  /\ who' = vector["int18"].owner
  /\ step' = "prepare"
  /\ UNCHANGED <<vector, saved, memory, environment, link, result, misrestored, struck>>

(* Fault for the checks: the session is not closed first. *)
PrepareOpen ==
  /\ step = "prepare"
  /\ step' = "unhook0c"
  /\ UNCHANGED <<vector, saved, memory, environment, link, who, result, misrestored,
                 struck>>

(* pc98_uninstall_prepare_entry: close_ime in the resident copy. *)
Prepare ==
  /\ step = "prepare"
  /\ link' = [link EXCEPT ![who] = FALSE]
  /\ step' = "unhook0c"
  /\ UNCHANGED <<vector, saved, memory, environment, who, result, misrestored, struck>>

UnhookSerial ==
  /\ step = "unhook0c"
  /\ vector' = [vector EXCEPT !["int0c"] = saved[who]["int0c"]]
  /\ step' = "unhook18"
  /\ UNCHANGED <<saved, memory, environment, link, who, result, misrestored, struck>>

(* Fault for the checks: the first vector is written back twice. *)
UnhookInputTwice ==
  /\ step = "unhook18"
  /\ vector' = [vector EXCEPT !["int0c"] = saved[who]["int0c"]]
  /\ step' = "freeenv"
  /\ UNCHANGED <<saved, memory, environment, link, who, result, misrestored, struck>>

UnhookInput ==
  /\ step = "unhook18"
  /\ vector' = [vector EXCEPT !["int18"] = saved[who]["int18"]]
  /\ step' = "freeenv"
  /\ UNCHANGED <<saved, memory, environment, link, who, result, misrestored, struck>>

(* DOS may refuse either release; a copy may have no environment left. *)
FreeEnvironment ==
  /\ step = "freeenv"
  /\ \/ environment' = [environment EXCEPT ![who] = "free"] /\ result' = 0
     \/ environment[who] = "held" /\ result' = 2 /\ UNCHANGED environment
  /\ step' = "freeblock"
  /\ UNCHANGED <<vector, saved, memory, link, who, misrestored, struck>>

(* Fault for the checks: a release that fails is not noted. *)
FreeBlockUnchecked ==
  /\ step = "freeblock"
  /\ \E m \in {"free", "orphan"} : memory' = [memory EXCEPT ![who] = m]
  /\ step' = "idle"
  /\ UNCHANGED <<vector, saved, environment, link, who, result, misrestored, struck>>

FreeBlock ==
  /\ step = "freeblock"
  /\ \/ memory' = [memory EXCEPT ![who] = "free"] /\ UNCHANGED result
     \/ memory' = [memory EXCEPT ![who] = "orphan"] /\ result' = 3
  /\ step' = "idle"
  /\ UNCHANGED <<vector, saved, environment, link, who, misrestored, struck>>

Unload ==
  FindResident \/ Prepare \/ UnhookSerial \/ UnhookInput \/ FreeEnvironment \/ FreeBlock

-----------------------------------------------------------------------------
(* What else happens on the machine *)

(* A worker call opens or closes the session of a copy INT 18h reaches.  DOS
   itself may call INT 18h in any of its calls (Ctrl-C check). *)
WorkerCall(c) ==
  /\ Code(c, "int18") \in Chain("int18")
  /\ memory[c] = "resident"
  /\ link' = [link EXCEPT ![c] = ~@]
  /\ struck' = (struck \/ (~link[c] /\ who = c /\ step \in {"unhook0c", "unhook18"}))
  /\ UNCHANGED <<vector, saved, memory, environment, step, who, result, misrestored>>

OtherHooks(o, hooked) ==
  /\ step = "idle"
  /\ memory[o] = "free"
  /\ saved' = [saved EXCEPT ![o] = [v \in Vectors |->
                 IF v \in hooked THEN vector[v] ELSE Unset]]
  /\ vector' = [v \in Vectors |-> IF v \in hooked THEN Code(o, v) ELSE vector[v]]
  /\ memory' = [memory EXCEPT ![o] = "resident"]
  /\ UNCHANGED <<environment, link, step, who, result, misrestored, struck>>

HooksOf(o) == {v \in Vectors : saved[o][v] # Unset}

(* Another program leaves as it should: while nobody is on top of it. *)
OtherLeaves(o) ==
  /\ step = "idle"
  /\ memory[o] = "resident"
  /\ \A v \in HooksOf(o) : vector[v] = Code(o, v)
  /\ vector' = [v \in Vectors |-> IF v \in HooksOf(o) THEN saved[o][v] ELSE vector[v]]
  /\ memory' = [memory EXCEPT ![o] = "free"]
  /\ UNCHANGED <<saved, environment, link, step, who, result, misrestored, struck>>

-----------------------------------------------------------------------------

LifecycleInit ==
  /\ vector = [v \in Vectors |-> Bios(v)]
  /\ saved = [p \in Programs |-> [v \in Vectors |-> Unset]]
  /\ memory = [p \in Programs |-> "free"]
  /\ environment = [c \in Copies |-> "free"]
  /\ link = [c \in Copies |-> FALSE]
  /\ step = "idle" /\ who \in Copies /\ result = 0
  /\ misrestored = FALSE /\ struck = FALSE

Install ==
  \/ \E c \in Copies : Start(c)
  \/ InstallSerial \/ InstallInput \/ UndoSerial \/ Refuse \/ StayResident

LifecycleNext ==
  \/ Install
  \/ Unload
  \/ \E c \in Copies : WorkerCall(c)
  \/ \E o \in Others : OtherLeaves(o)
  \/ \E o \in Others, hooked \in SUBSET Vectors \ {{}} : OtherHooks(o, hooked)

LifecycleSpec == LifecycleInit /\ [][LifecycleNext]_lifecycleVars

-----------------------------------------------------------------------------
(* Properties *)

Steps == {"idle", "serial", "input", "undo", "refuse", "stay", "prepare",
          "unhook0c", "unhook18", "freeenv", "freeblock"}

Handlers == [owner : Programs \cup {"bios"}, at : Vectors \cup {"data", "nothing"}]

LifecycleTypeOK ==
  /\ vector \in [Vectors -> Handlers]
  /\ saved \in [Programs -> [Vectors -> Handlers]]
  /\ memory \in [Programs -> {"free", "loaded", "resident", "orphan"}]
  /\ environment \in [Copies -> {"held", "free"}]
  /\ link \in [Copies -> BOOLEAN]
  /\ step \in Steps /\ who \in Copies /\ result \in {0, 2, 3}
  /\ misrestored \in BOOLEAN /\ struck \in BOOLEAN

Usable(h, v) == h.owner = "bios" \/ (h.at = v /\ memory[h.owner] # "free")

(* At no moment of any order of installs, refusals and unloads does an
   interrupt reach memory that was given back: "/U must not free resident
   memory until no installed vector points into it" (SPECIFICATION.md:157),
   a refused install that puts the vector back left aside
   (tsr_hook.S:474-552, 560-635). *)
ChainsLive == ~misrestored => \A v \in Vectors : \A h \in Chain(v) : Usable(h, v)

(* The same for every install: "It refuses duplicate owned hooks"
   (SPECIFICATION.md:70).  Refuted: the refused copy leaves INT 0Ch pointing
   at its own data and exits (tsr_hook.S:544-546, tsr_main.c:118-122). *)
RefusalLeavesVectors == \A v \in Vectors : \A h \in Chain(v) : Usable(h, v)

(* Unloading and refusing never cut anybody off: the hooks of every resident
   program stay on the path of the interrupt, in both vectors for a copy of
   the TSR, because a copy that is not on top of both refuses to go
   (SPECIFICATION.md:158, tsr_hook.S:567-588). *)
NobodyCutOff ==
  ~misrestored =>
    \A p \in Programs, v \in Vectors :
      /\ memory[p] = "resident"
      /\ saved[p][v] # Unset
      /\ ~(who = p /\ step \in {"unhook18", "freeenv", "freeblock"})
      => Code(p, v) \in Chain(v)

(* A copy that is gone from the vectors captures no receive interrupts: /U
   "stops COM/PIC state" before it takes the hooks out (SPECIFICATION.md:71,
   tsr_hook.S:590-617), unless the hotkey is struck between the two. *)
NoCaptureLeft ==
  \A c \in Copies : link[c] /\ ~struck =>
    memory[c] = "resident" /\ Code(c, "int18") \in Chain("int18")

(* /U reports "memory released" exactly when DOS took back both blocks, and
   names the one it did not (tsr_hook.S:619-639, tsr_main.c:93-106). *)
ReportHonest ==
  [][step = "freeblock" /\ step' = "idle" =>
       /\ result' = 0 <=> memory'[who] = "free" /\ environment'[who] = "free"
       /\ result' = 3 <=> memory'[who] # "free"]_lifecycleVars

=============================================================================
