--------------------------- MODULE LifecycleProofs ----------------------------
(***************************************************************************)
(* What holds for any number of copies and of other resident programs: the *)
(* type invariant, that /U reports truthfully which memory it gave back,   *)
(* and that the chains of the interrupt vectors pass through live programs *)
(* only and through all of them.                                           *)
(***************************************************************************)
EXTENDS Lifecycle, TLAPS

(* The state has its types: in particular /U only ever takes a copy of the
   TSR for the resident one (tsr_hook.S:567-588). *)
THEOREM TypeCorrect == LifecycleSpec => []LifecycleTypeOK
<1>1. LifecycleInit => LifecycleTypeOK
  <2>1. Unset \in Handlers /\ \A v \in Vectors : Bios(v) \in Handlers
    BY DEF Unset, Bios, Code, Handlers
  <2>2. LifecycleInit => vector \in [Vectors -> Handlers]
                         /\ saved \in [Programs -> [Vectors -> Handlers]]
    BY <2>1 DEF LifecycleInit
  <2> QED BY <2>2 DEF LifecycleInit, LifecycleTypeOK, Steps
<1>2. LifecycleTypeOK /\ [LifecycleNext]_lifecycleVars => LifecycleTypeOK'
  <2> SUFFICES ASSUME LifecycleTypeOK, [LifecycleNext]_lifecycleVars
               PROVE  LifecycleTypeOK'
    OBVIOUS
  <2> USE DEF LifecycleTypeOK, Steps
  <2>1. ASSUME NEW c \in Copies, Start(c) PROVE LifecycleTypeOK'
    BY <2>1 DEF Start, Programs
  <2>2. CASE InstallSerial
    <3>1. Hook(who, "int0c") => vector' \in [Vectors -> Handlers]
                                /\ saved' \in [Programs -> [Vectors -> Handlers]]
      BY DEF Hook, Code, Handlers, Vectors, Programs
    <3> QED BY <2>2, <3>1 DEF InstallSerial
  <2>3. CASE InstallInput
    <3>1. Hook(who, "int18") => vector' \in [Vectors -> Handlers]
                                /\ saved' \in [Programs -> [Vectors -> Handlers]]
      BY DEF Hook, Code, Handlers, Vectors, Programs
    <3> QED BY <2>3, <3>1 DEF InstallInput
  <2>4. CASE UndoSerial
    <3>1. Data(who) \in Handlers
      BY DEF Data, Code, Handlers, Programs
    <3> QED BY <2>4, <3>1 DEF UndoSerial
  <2>5. CASE Refuse
    BY <2>5 DEF Refuse, Programs
  <2>6. CASE StayResident
    BY <2>6 DEF StayResident, Programs
  <2>7. CASE FindResident
    BY <2>7 DEF FindResident, OffsetOfHook
  <2>8. CASE Prepare
    BY <2>8 DEF Prepare
  <2>9. CASE UnhookSerial
    BY <2>9 DEF UnhookSerial, Programs, Vectors
  <2>10. CASE UnhookInput
    BY <2>10 DEF UnhookInput, Programs, Vectors
  <2>11. CASE FreeEnvironment
    BY <2>11 DEF FreeEnvironment
  <2>12. CASE FreeBlock
    BY <2>12 DEF FreeBlock, Programs
  <2>13. ASSUME NEW c \in Copies, WorkerCall(c) PROVE LifecycleTypeOK'
    BY <2>13 DEF WorkerCall
  <2>14. ASSUME NEW o \in Others, NEW hooked \in SUBSET Vectors, OtherHooks(o, hooked)
         PROVE  LifecycleTypeOK'
    <3>1. Unset \in Handlers /\ \A v \in Vectors : Code(o, v) \in Handlers
      BY DEF Unset, Code, Handlers, Programs
    <3> QED BY <2>14, <3>1 DEF OtherHooks, Programs
  <2>15. ASSUME NEW o \in Others, OtherLeaves(o) PROVE LifecycleTypeOK'
    BY <2>15 DEF OtherLeaves, Programs
  <2>16. CASE UNCHANGED lifecycleVars
    BY <2>16 DEF lifecycleVars
  <2> QED
    BY <2>1, <2>2, <2>3, <2>4, <2>5, <2>6, <2>7, <2>8, <2>9, <2>10, <2>11, <2>12,
       <2>13, <2>14, <2>15, <2>16
    DEF LifecycleNext, Install, Unload
<1> QED BY <1>1, <1>2, PTL DEF LifecycleSpec

-----------------------------------------------------------------------------
(* Between the two releases the result tells whether the first succeeded. *)
ResultSoFar ==
  step = "freeblock" => result = (IF environment[who] = "free" THEN 0 ELSE 2)

LEMMA ResultKept ==
  LifecycleTypeOK /\ ResultSoFar /\ [LifecycleNext]_lifecycleVars => ResultSoFar'
<1> SUFFICES ASSUME LifecycleTypeOK, ResultSoFar, [LifecycleNext]_lifecycleVars
             PROVE  ResultSoFar'
  OBVIOUS
<1>1. CASE Install
  BY <1>1 DEF Install, Start, InstallSerial, InstallInput, UndoSerial, Refuse,
              StayResident, ResultSoFar
<1>2. CASE FreeEnvironment
  BY <1>2 DEF FreeEnvironment, ResultSoFar, LifecycleTypeOK
<1>3. CASE Unload /\ ~FreeEnvironment
  BY <1>3 DEF Unload, FindResident, Prepare, UnhookSerial, UnhookInput, FreeBlock,
              ResultSoFar
<1>4. ASSUME NEW c \in Copies, WorkerCall(c) PROVE ResultSoFar'
  BY <1>4 DEF WorkerCall, ResultSoFar
<1>5. ASSUME NEW o \in Others, NEW hooked \in SUBSET Vectors,
             OtherHooks(o, hooked) \/ OtherLeaves(o)
      PROVE  ResultSoFar'
  BY <1>5 DEF OtherHooks, OtherLeaves, ResultSoFar
<1>6. CASE UNCHANGED lifecycleVars
  BY <1>6 DEF lifecycleVars, ResultSoFar
<1> QED BY <1>1, <1>2, <1>3, <1>4, <1>5, <1>6 DEF LifecycleNext

(* /U says "memory released" exactly when DOS took both blocks back
   (tsr_hook.S:619-639, tsr_main.c:93-106). *)
THEOREM UnloadReportsHonestly == LifecycleSpec => ReportHonest
<1>1. LifecycleInit => ResultSoFar
  BY DEF LifecycleInit, ResultSoFar
<1>2. LifecycleTypeOK /\ ResultSoFar /\ [LifecycleNext]_lifecycleVars =>
        [step = "freeblock" /\ step' = "idle" =>
           /\ result' = 0 <=> memory'[who] = "free" /\ environment'[who] = "free"
           /\ result' = 3 <=> memory'[who] # "free"]_lifecycleVars
  <2> SUFFICES ASSUME LifecycleTypeOK, ResultSoFar, LifecycleNext,
                      step = "freeblock", step' = "idle"
               PROVE  /\ result' = 0 <=> memory'[who] = "free" /\ environment'[who] = "free"
                      /\ result' = 3 <=> memory'[who] # "free"
    OBVIOUS
  <2>1. FreeBlock
    BY DEF LifecycleNext, Install, Unload, Start, InstallSerial, InstallInput, UndoSerial,
           Refuse, StayResident, FindResident, Prepare, UnhookSerial, UnhookInput,
           FreeEnvironment, WorkerCall, OtherHooks, OtherLeaves
  <2>2. who \in DOMAIN memory
    BY DEF LifecycleTypeOK, Programs
  <2> QED BY <2>1, <2>2 DEF FreeBlock, ResultSoFar
<1> QED BY <1>1, <1>2, TypeCorrect, ResultKept, PTL DEF LifecycleSpec, ReportHonest

-----------------------------------------------------------------------------
(* The vector chains *)

(* The steps of an unload behind which a vector is back in other hands, and
   those of an installation behind which it is the copy's. *)
Given(v) ==
  IF v = "int0c" THEN {"unhook18", "freeenv", "freeblock"} ELSE {"freeenv", "freeblock"}

Taken(v) == IF v = "int0c" THEN {"input", "undo", "stay"} ELSE {"stay"}

(* The handler of a program is in place. *)
Hooked(p, v) ==
  \/ /\ memory[p] = "resident"
     /\ saved[p][v] # Unset
     /\ ~(who = p /\ step \in Given(v))
  \/ memory[p] = "loaded" /\ who = p /\ step \in Taken(v)

(* Whoever is pointed at, by the vector or by a program in place, is the BIOS
   or a program in place ... *)
InPlace(h, v) == h.owner = "bios" \/ \E p \in Programs : Hooked(p, v) /\ h = Code(p, v)

PointsHome(v) ==
  /\ InPlace(vector[v], v)
  /\ \A q \in Programs : Hooked(q, v) => InPlace(saved[q][v], v)

(* ... nobody is pointed at twice ... *)
PointedOnce(v) ==
  \A p, q \in Programs :
    Hooked(q, v) /\ saved[q][v] = Code(p, v) =>
      /\ vector[v] # Code(p, v)
      /\ \A r \in Programs : Hooked(r, v) /\ saved[r][v] = Code(p, v) => r = q

(* ... and the way from the vector leads to everybody: a set of programs that
   it does not leave contains all that are in place. *)
ClosedPrograms(S, v) ==
  \A p \in Programs :
    \/ vector[v] = Code(p, v)
    \/ \E q \in S : Hooked(q, v) /\ saved[q][v] = Code(p, v)
    => p \in S

LeadsToAll(v) ==
  \A S \in SUBSET Programs :
    ClosedPrograms(S, v) => \A p \in Programs : Hooked(p, v) => p \in S

Sound(v) == PointsHome(v) /\ PointedOnce(v) /\ LeadsToAll(v)

(* What the steps of the running IME98TSR.COM know. *)
Installing == {"serial", "input", "undo", "refuse", "stay"}

StepKnows ==
  /\ step \in Installing => memory[who] = "loaded"
  /\ \A p \in Programs : memory[p] = "loaded" => p = who /\ step \in Installing
  /\ step \in {"input", "undo"} => vector["int0c"] = Code(who, "int0c")
  /\ step \in Steps \ (Installing \cup {"idle"}) => memory[who] = "resident"
  /\ step \in {"prepare", "unhook0c"} => vector["int0c"] = Code(who, "int0c")
  /\ step \in {"prepare", "unhook0c", "unhook18"} => vector["int18"] = Code(who, "int18")
  /\ \A v \in Vectors : vector[v] # Unset
  /\ \A v \in Vectors, p \in Programs : Hooked(p, v) => saved[p][v] # Unset
  /\ \A c \in Copies, v \in Vectors : memory[c] = "resident" => saved[c][v] # Unset

(* A refused installation spoils INT 0Ch, never INT 18h. *)
Spoilt(v) == v = "int0c" /\ misrestored

ChainInv ==
  /\ StepKnows
  /\ \A v \in Vectors : Spoilt(v) \/ Sound(v)

(* A session is open only in a copy that INT 18h reaches; one that is opened
   behind the first half of an unload counts as struck. *)
LinkInv ==
  /\ \A c \in Copies : link[c] /\ ~struck => memory[c] = "resident" /\ Hooked(c, "int18")
  /\ step \in {"unhook0c", "unhook18"} /\ link[who] => struck

(* Handlers of different programs differ, and none is the BIOS's. *)
LEMMA CodeApart ==
  ASSUME NEW v, NEW p \in Programs, NEW q \in Programs
  PROVE  /\ Code(p, v) = Code(q, v) => p = q
         /\ Code(p, v).owner = p /\ Code(p, v).owner # "bios"
BY LifecycleAssumption DEF Code, Programs

(* A step that moves nothing in the chain of v keeps it sound. *)
LEMMA SoundKept ==
  ASSUME NEW v, Sound(v),
         vector'[v] = vector[v],
         \A p \in Programs : Hooked(p, v)' <=> Hooked(p, v),
         \A p \in Programs : Hooked(p, v) => saved'[p][v] = saved[p][v]
  PROVE  Sound(v)'
<1>1. PointsHome(v)'
  BY DEF Sound, PointsHome, InPlace, Code
<1>2. PointedOnce(v)'
  BY DEF Sound, PointedOnce, Code
<1>3. ASSUME NEW S \in SUBSET Programs, ClosedPrograms(S, v)'
      PROVE  ClosedPrograms(S, v)
  BY <1>3 DEF ClosedPrograms, Code
<1>4. LeadsToAll(v)'
  BY <1>3 DEF Sound, LeadsToAll
<1>. QED  BY <1>1, <1>2, <1>4 DEF Sound

(* A program that was not in place hooks itself in front. *)
LEMMA SoundHooked ==
  ASSUME NEW v, NEW q \in Programs, Sound(v), ~Hooked(q, v),
         vector'[v] = Code(q, v),
         saved'[q][v] = vector[v],
         \A p \in Programs : Hooked(p, v)' <=> Hooked(p, v) \/ p = q,
         \A p \in Programs : Hooked(p, v) => saved'[p][v] = saved[p][v]
  PROVE  Sound(v)'
<1>1. ASSUME NEW p \in Programs
      PROVE  vector[v] = Code(p, v) => p # q
  BY CodeApart DEF Sound, PointsHome, InPlace
<1>2. ASSUME NEW p \in Programs, NEW r \in Programs,
             Hooked(r, v), saved[r][v] = Code(p, v)
      PROVE  p # q
  BY <1>2, CodeApart DEF Sound, PointsHome, InPlace
<1>3. ASSUME NEW h, InPlace(h, v)
      PROVE  InPlace(h, v)'
  BY <1>3 DEF InPlace, Code
<1>4. PointsHome(v)'
  <2>1. InPlace(vector[v], v)'
    BY DEF InPlace, Code
  <2>2. ASSUME NEW r \in Programs, Hooked(r, v)'
        PROVE  InPlace(saved[r][v], v)'
    BY <1>3, <2>2 DEF Sound, PointsHome
  <2>. QED  BY <2>1, <2>2 DEF PointsHome
<1>5. PointedOnce(v)'
  <2> SUFFICES ASSUME NEW p \in Programs, NEW r \in Programs,
                      Hooked(r, v)', saved'[r][v] = Code(p, v)
               PROVE  /\ vector'[v] # Code(p, v)
                      /\ \A t \in Programs :
                           Hooked(t, v)' /\ saved'[t][v] = Code(p, v) => t = r
    BY DEF PointedOnce, Code
  <2>1. vector'[v] # Code(p, v)
    BY <1>1, <1>2, CodeApart
  <2>2. ASSUME NEW t \in Programs, Hooked(t, v)', saved'[t][v] = Code(p, v)
        PROVE  t = r
    BY <2>2 DEF Sound, PointedOnce
  <2>. QED  BY <2>1, <2>2
<1>6. ASSUME NEW S \in SUBSET Programs, ClosedPrograms(S, v)'
      PROVE  ClosedPrograms(S \ {q}, v) /\ q \in S
  <2>1. q \in S
    BY <1>6 DEF ClosedPrograms, Code
  <2>2. ASSUME NEW p \in Programs,
               \/ vector[v] = Code(p, v)
               \/ \E r \in S \ {q} : Hooked(r, v) /\ saved[r][v] = Code(p, v)
        PROVE  p \in S \ {q}
    <3>1. p # q
      BY <1>1, <1>2, <2>2
    <3>2. \E r \in S : Hooked(r, v)' /\ saved'[r][v] = Code(p, v)
      BY <2>1, <2>2
    <3>. QED  BY <1>6, <3>1, <3>2 DEF ClosedPrograms, Code
  <2>. QED  BY <2>1, <2>2 DEF ClosedPrograms
<1>7. LeadsToAll(v)'
  BY <1>6 DEF Sound, LeadsToAll
<1>. QED  BY <1>4, <1>5, <1>7 DEF Sound

(* The program in front takes itself out. *)
LEMMA SoundUnhooked ==
  ASSUME NEW v, NEW q \in Programs, Sound(v), Hooked(q, v),
         vector[v] = Code(q, v),
         vector'[v] = saved[q][v],
         \A p \in Programs : Hooked(p, v)' <=> Hooked(p, v) /\ p # q,
         \A p \in Programs : Hooked(p, v)' => saved'[p][v] = saved[p][v]
  PROVE  Sound(v)'
<1>1. ASSUME NEW r \in Programs, Hooked(r, v)
      PROVE  saved[r][v] # Code(q, v)
  BY <1>1 DEF Sound, PointedOnce
<1>2. ASSUME NEW h, InPlace(h, v), h # Code(q, v)
      PROVE  InPlace(h, v)'
  BY <1>2 DEF InPlace, Code
<1>3. PointsHome(v)'
  <2>1. InPlace(vector[v], v)'
    BY <1>1, <1>2 DEF Sound, PointsHome
  <2>2. ASSUME NEW r \in Programs, Hooked(r, v)'
        PROVE  InPlace(saved[r][v], v)'
    BY <1>1, <1>2, <2>2 DEF Sound, PointsHome
  <2>. QED  BY <2>1, <2>2 DEF PointsHome
<1>4. PointedOnce(v)'
  BY DEF Sound, PointedOnce, Code
<1>5. ASSUME NEW S \in SUBSET Programs, ClosedPrograms(S, v)'
      PROVE  ClosedPrograms(S \cup {q}, v)
  <2>1. ASSUME NEW p \in Programs,
               \/ vector[v] = Code(p, v)
               \/ \E r \in S \cup {q} : Hooked(r, v) /\ saved[r][v] = Code(p, v)
        PROVE  p \in S \cup {q}
    <3>1. CASE vector[v] = Code(p, v)
      <4>1. Code(p, v) = Code(q, v)
        BY <3>1
      <4>. QED  BY <4>1, CodeApart
    <3>2. CASE saved[q][v] = Code(p, v)
      BY <1>5, <3>2 DEF ClosedPrograms, Code
    <3>3. ASSUME NEW r \in S, r # q, Hooked(r, v), saved[r][v] = Code(p, v)
          PROVE  p \in S
      BY <1>5, <3>3 DEF ClosedPrograms, Code
    <3>. QED  BY <2>1, <3>1, <3>2, <3>3
  <2>. QED  BY <2>1 DEF ClosedPrograms
<1>6. LeadsToAll(v)'
  <2> SUFFICES ASSUME NEW S \in SUBSET Programs, ClosedPrograms(S, v)',
                      NEW p \in Programs, Hooked(p, v)'
               PROVE  p \in S
    BY DEF LeadsToAll
  <2>1. S \cup {q} \in SUBSET Programs /\ ClosedPrograms(S \cup {q}, v)
    BY <1>5
  <2>. QED  BY <2>1 DEF Sound, LeadsToAll
<1>. QED  BY <1>3, <1>4, <1>6 DEF Sound

(* One step, one fact: who is in place before and after it. *)
LEMMA ChainInvStep ==
  ASSUME LifecycleTypeOK, ChainInv, [LifecycleNext]_lifecycleVars
  PROVE  ChainInv'
<1> DEFINE AllSound == \A v \in Vectors : Spoilt(v) \/ Sound(v)
<1> USE DEF Programs
<1>0. /\ AllSound /\ StepKnows
      /\ vector \in [Vectors -> Handlers] /\ saved \in [Programs -> [Vectors -> Handlers]]
      /\ memory \in [Programs -> {"free", "loaded", "resident", "orphan"}]
      /\ step \in Steps /\ who \in Copies
  BY DEF ChainInv, LifecycleTypeOK
<1>a. ASSUME UNCHANGED <<vector, saved, misrestored>>,
             \A v \in Vectors, p \in Programs : Hooked(p, v)' <=> Hooked(p, v)
      PROVE  AllSound'
  <2> SUFFICES ASSUME NEW v \in Vectors, ~Spoilt(v)'
               PROVE  Sound(v)'
    BY DEF Spoilt
  <2>1. Sound(v)
    BY <1>0, <1>a DEF Spoilt
  <2>. QED  BY <1>a, <2>1, SoundKept
<1>1. ASSUME NEW c \in Copies, Start(c)
      PROVE  ChainInv'
  <2>1. \A v \in Vectors, p \in Programs : Hooked(p, v)' <=> Hooked(p, v)
    BY <1>0, <1>1 DEF Start, Hooked, Given, Taken, StepKnows, Vectors, Installing
  <2>2. AllSound'
    BY <1>1, <1>a, <2>1 DEF Start
  <2>3. StepKnows'
    BY <1>0, <1>1, <2>1 DEF Start, StepKnows, Vectors, Installing, Steps
  <2>. QED  BY <2>2, <2>3 DEF ChainInv
<1>2. ASSUME InstallSerial \/ InstallInput, UNCHANGED <<vector, saved>>
      PROVE  ChainInv'
  <2>1. \A v \in Vectors, p \in Programs : Hooked(p, v)' <=> Hooked(p, v)
    BY <1>0, <1>2
       DEF InstallSerial, InstallInput, Hook, Hooked, Given, Taken, StepKnows, Vectors,
           Installing, Code, OffsetOfHook
  <2>2. AllSound'
    BY <1>2, <1>a, <2>1 DEF InstallSerial, InstallInput
  <2>3. StepKnows'
    BY <1>0, <1>2, <2>1
       DEF InstallSerial, InstallInput, Hook, StepKnows, Vectors, Installing, Steps
  <2>. QED  BY <2>2, <2>3 DEF ChainInv
<1>3. CASE InstallSerial /\ step' = "input"
  <2>1. /\ vector'["int0c"] = Code(who, "int0c") /\ vector'["int18"] = vector["int18"]
        /\ saved'[who]["int0c"] = vector["int0c"]
        /\ \A p \in Programs : p # who => saved'[p] = saved[p]
        /\ saved'[who]["int18"] = saved[who]["int18"]
    BY <1>0, <1>3 DEF InstallSerial, Hook, Vectors
  <2>2. /\ ~Hooked(who, "int0c")
        /\ \A p \in Programs : Hooked(p, "int0c")' <=> Hooked(p, "int0c") \/ p = who
        /\ \A p \in Programs : Hooked(p, "int18")' <=> Hooked(p, "int18")
    BY <1>0, <1>3, <2>1
       DEF InstallSerial, Hooked, Given, Taken, StepKnows, Vectors, Installing
  <2>3. misrestored' = misrestored
    BY <1>3 DEF InstallSerial
  <2>4. Spoilt("int0c")' \/ Sound("int0c")'
    BY <1>0, <2>1, <2>2, <2>3, SoundHooked DEF Spoilt, Vectors
  <2>5. Spoilt("int18")' \/ Sound("int18")'
    BY <1>0, <2>1, <2>2, <2>3, SoundKept DEF Spoilt, Vectors
  <2>6. StepKnows'
    BY <1>0, <1>3, <2>1, <2>2
       DEF InstallSerial, StepKnows, Vectors, Installing, Steps, Code, Unset
  <2>. QED  BY <2>4, <2>5, <2>6 DEF ChainInv, Vectors
<1>4. CASE InstallInput /\ step' = "stay"
  <2>1. /\ vector'["int18"] = Code(who, "int18") /\ vector'["int0c"] = vector["int0c"]
        /\ saved'[who]["int18"] = vector["int18"]
        /\ \A p \in Programs : p # who => saved'[p] = saved[p]
        /\ saved'[who]["int0c"] = saved[who]["int0c"]
    BY <1>0, <1>4 DEF InstallInput, Hook, Vectors
  <2>2. /\ ~Hooked(who, "int18")
        /\ \A p \in Programs : Hooked(p, "int18")' <=> Hooked(p, "int18") \/ p = who
        /\ \A p \in Programs : Hooked(p, "int0c")' <=> Hooked(p, "int0c")
    BY <1>0, <1>4, <2>1
       DEF InstallInput, Hooked, Given, Taken, StepKnows, Vectors, Installing
  <2>3. misrestored' = misrestored
    BY <1>4 DEF InstallInput
  <2>4. Spoilt("int18")' \/ Sound("int18")'
    BY <1>0, <2>1, <2>2, <2>3, SoundHooked DEF Spoilt, Vectors
  <2>5. Spoilt("int0c")' \/ Sound("int0c")'
    BY <1>0, <2>1, <2>2, <2>3, SoundKept DEF Spoilt, Vectors
  <2>6. StepKnows'
    BY <1>0, <1>4, <2>1, <2>2
       DEF InstallInput, StepKnows, Vectors, Installing, Steps, Code, Unset
  <2>. QED  BY <2>4, <2>5, <2>6 DEF ChainInv, Vectors
<1>5. CASE UndoSerial
  <2>1. \A p \in Programs : Hooked(p, "int18")' <=> Hooked(p, "int18")
    BY <1>0, <1>5 DEF UndoSerial, Hooked, Given, Taken, StepKnows, Installing
  <2>2. vector'["int18"] = vector["int18"] /\ misrestored' /\ UNCHANGED saved
    BY <1>0, <1>5 DEF UndoSerial, StepKnows, Vectors
  <2>3. Sound("int18")'
    BY <1>0, <2>1, <2>2, SoundKept DEF Spoilt, Vectors
  <2>4. AllSound'
    BY <2>2, <2>3 DEF Spoilt, Vectors
  <2>5. StepKnows'
    <3>1. \A v \in Vectors : vector'[v] # Unset
      BY <1>0, <1>5 DEF UndoSerial, StepKnows, Vectors, Data, Code, Unset
    <3>2. \A v \in Vectors, p \in Programs : Hooked(p, v)' => Hooked(p, v)
      BY <1>0, <1>5
         DEF UndoSerial, Hooked, Given, Taken, StepKnows, Vectors, Installing
    <3>. QED
      BY <1>0, <1>5, <3>1, <3>2
         DEF UndoSerial, StepKnows, Vectors, Installing, Steps
  <2>. QED  BY <2>4, <2>5 DEF ChainInv
<1>6. CASE Refuse
  <2>1. \A v \in Vectors, p \in Programs : Hooked(p, v)' <=> Hooked(p, v)
    BY <1>0, <1>6 DEF Refuse, Hooked, Given, Taken, StepKnows, Vectors, Installing
  <2>2. AllSound'
    BY <1>6, <1>a, <2>1 DEF Refuse
  <2>3. StepKnows'
    BY <1>0, <1>6, <2>1 DEF Refuse, StepKnows, Vectors, Installing, Steps
  <2>. QED  BY <2>2, <2>3 DEF ChainInv
<1>7. CASE StayResident
  <2>1. \A v \in Vectors, p \in Programs : Hooked(p, v)' <=> Hooked(p, v)
    BY <1>0, <1>7 DEF StayResident, Hooked, Given, Taken, StepKnows, Vectors, Installing
  <2>2. AllSound'
    BY <1>7, <1>a, <2>1 DEF StayResident
  <2>3. StepKnows'
    BY <1>0, <1>7, <2>1
       DEF StayResident, StepKnows, Vectors, Installing, Steps, Hooked, Taken
  <2>. QED  BY <2>2, <2>3 DEF ChainInv
<1>8. CASE FindResident
  <2>1. \A v \in Vectors, p \in Programs : Hooked(p, v)' <=> Hooked(p, v)
    BY <1>0, <1>8
       DEF FindResident, Hooked, Given, Taken, StepKnows, Vectors, Installing
  <2>2. AllSound'
    BY <1>8, <1>a, <2>1 DEF FindResident
  <2>3. /\ who' \in Copies
        /\ vector["int18"] = Code(who', "int18")
        /\ vector["int0c"] = Code(who', "int0c")
    BY <1>0, <1>8 DEF FindResident, OffsetOfHook, Code, Handlers, Vectors
  <2>4. Sound("int18")
    BY <1>0 DEF Spoilt, Vectors
  <2>5. Hooked(who', "int18")
    BY <2>3, <2>4, CodeApart DEF Sound, PointsHome, InPlace
  <2>6. memory[who'] = "resident"
    BY <1>0, <1>8, <2>3, <2>5 DEF FindResident, Hooked, StepKnows, Installing
  <2>7. StepKnows'
    BY <1>0, <1>8, <2>1, <2>3, <2>6
       DEF FindResident, StepKnows, Vectors, Installing, Steps
  <2>. QED  BY <2>2, <2>7 DEF ChainInv
<1>9. CASE Prepare \/ FreeEnvironment
  <2>1. \A v \in Vectors, p \in Programs : Hooked(p, v)' <=> Hooked(p, v)
    BY <1>0, <1>9
       DEF Prepare, FreeEnvironment, Hooked, Given, Taken, StepKnows, Vectors, Installing
  <2>2. AllSound'
    BY <1>9, <1>a, <2>1 DEF Prepare, FreeEnvironment
  <2>3. StepKnows'
    BY <1>0, <1>9, <2>1
       DEF Prepare, FreeEnvironment, StepKnows, Vectors, Installing, Steps
  <2>. QED  BY <2>2, <2>3 DEF ChainInv
<1>10. CASE UnhookSerial
  <2>1. /\ vector'["int0c"] = saved[who]["int0c"] /\ vector'["int18"] = vector["int18"]
        /\ UNCHANGED <<saved, misrestored>>
    BY <1>0, <1>10 DEF UnhookSerial, Vectors
  <2>2. /\ Hooked(who, "int0c") /\ vector["int0c"] = Code(who, "int0c")
        /\ \A p \in Programs : Hooked(p, "int0c")' <=> Hooked(p, "int0c") /\ p # who
        /\ \A p \in Programs : Hooked(p, "int18")' <=> Hooked(p, "int18")
    BY <1>0, <1>10, <2>1
       DEF UnhookSerial, Hooked, Given, Taken, StepKnows, Vectors, Installing, Steps
  <2>3. Spoilt("int0c")' \/ Sound("int0c")'
    BY <1>0, <2>1, <2>2, SoundUnhooked DEF Spoilt, Vectors
  <2>4. Spoilt("int18")' \/ Sound("int18")'
    BY <1>0, <2>1, <2>2, SoundKept DEF Spoilt, Vectors
  <2>5. StepKnows'
    BY <1>0, <1>10, <2>1, <2>2
       DEF UnhookSerial, StepKnows, Vectors, Installing, Steps
  <2>. QED  BY <2>3, <2>4, <2>5 DEF ChainInv, Vectors
<1>11. CASE UnhookInput
  <2>1. /\ vector'["int18"] = saved[who]["int18"] /\ vector'["int0c"] = vector["int0c"]
        /\ UNCHANGED <<saved, misrestored>>
    BY <1>0, <1>11 DEF UnhookInput, Vectors
  <2>2. /\ Hooked(who, "int18") /\ vector["int18"] = Code(who, "int18")
        /\ \A p \in Programs : Hooked(p, "int18")' <=> Hooked(p, "int18") /\ p # who
        /\ \A p \in Programs : Hooked(p, "int0c")' <=> Hooked(p, "int0c")
    BY <1>0, <1>11, <2>1
       DEF UnhookInput, Hooked, Given, Taken, StepKnows, Vectors, Installing, Steps
  <2>3. Spoilt("int18")' \/ Sound("int18")'
    BY <1>0, <2>1, <2>2, SoundUnhooked DEF Spoilt, Vectors
  <2>4. Spoilt("int0c")' \/ Sound("int0c")'
    BY <1>0, <2>1, <2>2, SoundKept DEF Spoilt, Vectors
  <2>5. StepKnows'
    BY <1>0, <1>11, <2>1, <2>2
       DEF UnhookInput, StepKnows, Vectors, Installing, Steps
  <2>. QED  BY <2>3, <2>4, <2>5 DEF ChainInv, Vectors
<1>12. CASE FreeBlock
  <2>1. \A v \in Vectors, p \in Programs : Hooked(p, v)' <=> Hooked(p, v)
    BY <1>0, <1>12 DEF FreeBlock, Hooked, Given, Taken, StepKnows, Vectors, Installing
  <2>2. AllSound'
    BY <1>12, <1>a, <2>1 DEF FreeBlock
  <2>3. StepKnows'
    BY <1>0, <1>12, <2>1 DEF FreeBlock, StepKnows, Vectors, Installing, Steps
  <2>. QED  BY <2>2, <2>3 DEF ChainInv
<1>13. ASSUME NEW o \in Others, NEW hooked \in SUBSET Vectors, OtherHooks(o, hooked)
       PROVE  ChainInv'
  <2>0. o \notin Copies /\ step = "idle" /\ memory[o] = "free"
    BY <1>13, LifecycleAssumption DEF OtherHooks
  <2>1. /\ \A v \in hooked : vector'[v] = Code(o, v) /\ saved'[o][v] = vector[v]
        /\ \A v \in Vectors \ hooked : vector'[v] = vector[v] /\ saved'[o][v] = Unset
        /\ \A p \in Programs : p # o => saved'[p] = saved[p]
        /\ misrestored' = misrestored
    BY <1>0, <1>13 DEF OtherHooks
  <2>2. /\ \A v \in Vectors : ~Hooked(o, v)
        /\ \A v \in hooked, p \in Programs : Hooked(p, v)' <=> Hooked(p, v) \/ p = o
        /\ \A v \in Vectors \ hooked, p \in Programs : Hooked(p, v)' <=> Hooked(p, v)
    BY <1>0, <1>13, <2>0, <2>1
       DEF OtherHooks, Hooked, Given, Taken, StepKnows, Vectors, Installing
  <2>3. ASSUME NEW v \in hooked, ~Spoilt(v)'
        PROVE  Sound(v)'
    <3>1. Sound(v)
      BY <1>0, <2>1, <2>3 DEF Spoilt
    <3>. QED  BY <2>1, <2>2, <3>1, SoundHooked
  <2>4. ASSUME NEW v \in Vectors \ hooked, ~Spoilt(v)'
        PROVE  Sound(v)'
    <3>1. Sound(v)
      BY <1>0, <2>1, <2>4 DEF Spoilt
    <3>. QED  BY <2>1, <2>2, <3>1, SoundKept
  <2>5. AllSound'
    BY <2>3, <2>4 DEF Spoilt
  <2>6. StepKnows'
    BY <1>0, <1>13, <2>0, <2>1, <2>2
       DEF OtherHooks, StepKnows, Installing, Steps, Vectors, Code, Unset
  <2>. QED  BY <2>5, <2>6 DEF ChainInv
<1>14. ASSUME NEW o \in Others, OtherLeaves(o)
       PROVE  ChainInv'
  <2>0. o \notin Copies /\ step = "idle" /\ memory[o] = "resident"
    BY <1>14, LifecycleAssumption DEF OtherLeaves
  <2>1. /\ \A v \in HooksOf(o) : vector'[v] = saved[o][v] /\ vector[v] = Code(o, v)
        /\ \A v \in Vectors \ HooksOf(o) : vector'[v] = vector[v]
        /\ UNCHANGED <<saved, misrestored>>
    BY <1>0, <1>14 DEF OtherLeaves, HooksOf
  <2>2. /\ \A v \in HooksOf(o) : Hooked(o, v)
        /\ \A v \in HooksOf(o), p \in Programs : Hooked(p, v)' <=> Hooked(p, v) /\ p # o
        /\ \A v \in Vectors \ HooksOf(o), p \in Programs : Hooked(p, v)' <=> Hooked(p, v)
    BY <1>0, <1>14, <2>0, <2>1
       DEF OtherLeaves, HooksOf, Hooked, Given, Taken, StepKnows, Vectors, Installing
  <2>3. ASSUME NEW v \in HooksOf(o), ~Spoilt(v)'
        PROVE  Sound(v)'
    <3>1. Sound(v)
      BY <1>0, <2>1, <2>3 DEF Spoilt, HooksOf
    <3>. QED  BY <2>1, <2>2, <3>1, SoundUnhooked
  <2>4. ASSUME NEW v \in Vectors \ HooksOf(o), ~Spoilt(v)'
        PROVE  Sound(v)'
    <3>1. Sound(v)
      BY <1>0, <2>1, <2>4 DEF Spoilt
    <3>. QED  BY <2>1, <2>2, <3>1, SoundKept
  <2>5. AllSound'
    BY <2>3, <2>4 DEF Spoilt
  <2>6. StepKnows'
    BY <1>0, <1>14, <2>0, <2>1, <2>2
       DEF OtherLeaves, HooksOf, StepKnows, Installing, Steps, Vectors
  <2>. QED  BY <2>5, <2>6 DEF ChainInv
<1>15. CASE UNCHANGED lifecycleVars \/ \E c \in Copies : WorkerCall(c)
  <2>0. UNCHANGED <<vector, saved, memory, step, who, misrestored>>
    BY <1>15 DEF lifecycleVars, WorkerCall
  <2>1. \A v \in Vectors, p \in Programs : Hooked(p, v)' <=> Hooked(p, v)
    BY <2>0 DEF Hooked
  <2>2. AllSound'
    BY <1>a, <2>0, <2>1
  <2>3. StepKnows'
    BY <1>0, <2>0, <2>1 DEF StepKnows
  <2>. QED  BY <2>2, <2>3 DEF ChainInv
<1>. QED
  BY <1>1, <1>2, <1>3, <1>4, <1>5, <1>6, <1>7, <1>8, <1>9, <1>10, <1>11, <1>12,
     <1>13, <1>14, <1>15
     DEF LifecycleNext, Install, Unload, InstallSerial, InstallInput

LEMMA ChainInvariant == LifecycleSpec => []ChainInv
<1>1. LifecycleInit => ChainInv
  <2> SUFFICES ASSUME LifecycleInit PROVE ChainInv
    OBVIOUS
  <2>1. \A v \in Vectors, p \in Programs : ~Hooked(p, v)
    BY DEF LifecycleInit, Hooked, Programs
  <2>2. \A v \in Vectors : vector[v].owner = "bios" /\ vector[v] # Unset
    BY DEF LifecycleInit, Bios, Unset, Code, Vectors
  <2>3. \A v \in Vectors : Sound(v)
    BY <2>1, <2>2 DEF Sound, PointsHome, InPlace, PointedOnce, LeadsToAll
  <2>4. StepKnows
    BY <2>1, <2>2 DEF LifecycleInit, StepKnows, Installing, Steps, Programs
  <2>. QED  BY <2>3, <2>4 DEF ChainInv
<1>2. LifecycleTypeOK /\ ChainInv /\ [LifecycleNext]_lifecycleVars => ChainInv'
  BY ChainInvStep
<1>. QED  BY <1>1, <1>2, TypeCorrect, PTL DEF LifecycleSpec

(* The chain of a sound vector holds the BIOS and programs in place, nothing
   else ... *)
LEMMA ChainInPlace ==
  ASSUME NEW v, Sound(v)
  PROVE  \A h \in Chain(v) : InPlace(h, v)
<1> DEFINE S == {h \in Pointers(v) : InPlace(h, v)}
<1>1. vector[v] \in S
  BY DEF Sound, PointsHome, Pointers
<1>2. ASSUME NEW p \in Programs, Code(p, v) \in S
      PROVE  saved[p][v] \in S
  <2>1. Hooked(p, v)
    BY <1>2, CodeApart DEF InPlace
  <2>. QED  BY <2>1 DEF Sound, PointsHome, Pointers
<1>3. Closed(S, v)
  BY <1>1, <1>2 DEF Closed
<1>4. S \in SUBSET Pointers(v)
  OBVIOUS
<1>. QED  BY <1>3, <1>4 DEF Chain

(* ... and every program in place. *)
LEMMA InPlaceOnChain ==
  ASSUME NEW v, Sound(v), NEW p \in Programs, Hooked(p, v)
  PROVE  Code(p, v) \in Chain(v)
<1>1. ASSUME NEW S \in SUBSET Pointers(v), Closed(S, v)
      PROVE  Code(p, v) \in S
  <2> DEFINE PS == {q \in Programs : Code(q, v) \in S}
  <2>1. ClosedPrograms(PS, v)
    BY <1>1 DEF Closed, ClosedPrograms
  <2>2. PS \in SUBSET Programs
    OBVIOUS
  <2>. QED  BY <2>1, <2>2 DEF Sound, LeadsToAll
<1>2. Closed(Pointers(v), v)
  BY DEF Closed, Pointers
<1>3. Code(p, v) \in Pointers(v)
  BY <1>1, <1>2
<1>. QED  BY <1>1, <1>3 DEF Chain

(* However many copies and other programs come and go, in whatever order, no
   interrupt reaches memory that was given back, unless a refused install put
   the vector back (SPECIFICATION.md:157; tsr_hook.S:474-552, 560-635). *)
THEOREM ChainsStayLive == LifecycleSpec => []ChainsLive
<1>1. ChainInv => ChainsLive
  <2> SUFFICES ASSUME ChainInv, ~misrestored, NEW v \in Vectors, NEW h \in Chain(v)
               PROVE  Usable(h, v)
    BY DEF ChainsLive
  <2>1. InPlace(h, v)
    BY ChainInPlace DEF ChainInv, Spoilt
  <2>2. CASE h.owner = "bios"
    BY <2>2 DEF Usable
  <2>3. ASSUME NEW p \in Programs, Hooked(p, v), h = Code(p, v)
        PROVE  Usable(h, v)
    BY <2>3 DEF Usable, Hooked, Code
  <2>. QED  BY <2>1, <2>2, <2>3 DEF InPlace
<1>. QED  BY <1>1, ChainInvariant, PTL

(* No unload and no refusal takes a resident program off the path of its
   interrupts (SPECIFICATION.md:158, tsr_hook.S:567-588). *)
THEOREM NobodyIsCutOff == LifecycleSpec => []NobodyCutOff
<1>1. ChainInv => NobodyCutOff
  <2> SUFFICES ASSUME ChainInv, ~misrestored, NEW p \in Programs, NEW v \in Vectors,
                      memory[p] = "resident", saved[p][v] # Unset,
                      ~(who = p /\ step \in {"unhook18", "freeenv", "freeblock"})
               PROVE  Code(p, v) \in Chain(v)
    BY DEF NobodyCutOff
  <2>1. Hooked(p, v)
    BY DEF Hooked, Given
  <2>. QED  BY <2>1, InPlaceOnChain DEF ChainInv, Spoilt
<1>. QED  BY <1>1, ChainInvariant, PTL

LEMMA LinkInvStep ==
  ASSUME LifecycleTypeOK, ChainInv, LinkInv, [LifecycleNext]_lifecycleVars
  PROVE  LinkInv'
<1> USE DEF LinkInv
<1>0. /\ StepKnows /\ Sound("int18")
      /\ link \in [Copies -> BOOLEAN] /\ struck \in BOOLEAN /\ who \in Copies
      /\ memory \in [Programs -> {"free", "loaded", "resident", "orphan"}]
      /\ saved \in [Programs -> [Vectors -> Handlers]]
      /\ Copies \subseteq Programs /\ step \in Steps
  BY DEF ChainInv, LifecycleTypeOK, Spoilt, Vectors, Programs
<1>1. ASSUME NEW c \in Copies, WorkerCall(c)
      PROVE  LinkInv'
  <2>1. Hooked(c, "int18") /\ memory[c] = "resident"
    BY <1>0, <1>1, ChainInPlace, CodeApart DEF WorkerCall, InPlace
  <2>2. UNCHANGED <<memory, saved, who, step>>
    BY <1>1 DEF WorkerCall
  <2>3. \A d \in Copies : Hooked(d, "int18")' <=> Hooked(d, "int18")
    BY <2>2 DEF Hooked
  <2>4. \A d \in Copies : d # c => link'[d] = link[d]
    BY <1>0, <1>1 DEF WorkerCall
  <2>5. struck' = (struck \/ (~link[c] /\ who = c /\ step \in {"unhook0c", "unhook18"}))
    BY <1>1 DEF WorkerCall
  <2>. QED  BY <1>0, <2>1, <2>2, <2>3, <2>4, <2>5
<1>2. CASE Prepare
  BY <1>0, <1>2 DEF Prepare, Hooked, Given, Taken
<1>3. CASE Install
  BY <1>0, <1>3, LifecycleAssumption
     DEF Install, Start, InstallSerial, InstallInput, UndoSerial, Refuse, StayResident,
         Hook, Hooked, Given, Taken, StepKnows, Installing, Programs
<1>4. CASE Unload /\ ~Prepare
  BY <1>0, <1>4
     DEF Unload, FindResident, UnhookSerial, UnhookInput, FreeEnvironment, FreeBlock,
         Hooked, Given, Taken, StepKnows, Installing
<1>5. ASSUME NEW o \in Others, NEW hooked \in SUBSET Vectors,
             OtherHooks(o, hooked) \/ OtherLeaves(o)
      PROVE  LinkInv'
  BY <1>0, <1>5, LifecycleAssumption
     DEF OtherHooks, OtherLeaves, Hooked, Given, Taken, StepKnows, Installing, Programs
<1>6. CASE UNCHANGED lifecycleVars
  BY <1>6 DEF lifecycleVars, Hooked
<1>. QED  BY <1>1, <1>2, <1>3, <1>4, <1>5, <1>6 DEF LifecycleNext

(* A copy that is gone from INT 18h captures no receive interrupts, unless the
   hotkey was struck in the middle of its unload (SPECIFICATION.md:71,
   tsr_hook.S:590-617). *)
THEOREM NothingCapturedBehind == LifecycleSpec => []NoCaptureLeft
<1>1. LifecycleInit => LinkInv
  BY DEF LifecycleInit, LinkInv
<1>2. LifecycleTypeOK /\ ChainInv /\ LinkInv /\ [LifecycleNext]_lifecycleVars => LinkInv'
  BY LinkInvStep
<1>3. ChainInv /\ LinkInv => NoCaptureLeft
  <2> SUFFICES ASSUME ChainInv, LinkInv, NEW c \in Copies, link[c], ~struck
               PROVE  memory[c] = "resident" /\ Code(c, "int18") \in Chain("int18")
    BY DEF NoCaptureLeft
  <2>1. Sound("int18") /\ c \in Programs
    BY DEF ChainInv, Spoilt, Vectors, Programs
  <2>. QED  BY <2>1, InPlaceOnChain DEF LinkInv
<1>. QED  BY <1>1, <1>2, <1>3, TypeCorrect, ChainInvariant, PTL DEF LifecycleSpec

=============================================================================
