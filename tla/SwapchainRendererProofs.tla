----------------------- MODULE SwapchainRendererProofs ------------------------
(***************************************************************************)
(* For any number of calls and resizes, any sizes, and whichever calls may  *)
(* fail: what the frame in flight uses is alive and of one size, what the   *)
(* renderer names is what exists, and the fence it waits on is signalled,   *)
(* each until one of the calls that its statement names has failed.         *)
(*                                                                         *)
(* The last part is about the rest of renderer-core, the module             *)
(* DeviceObjects: for any programs that follow its rules of ownership.  The *)
(* two share this module, and nothing else.                                 *)
(***************************************************************************)
EXTENDS SwapchainRenderer, DeviceObjects, SequenceTheorems, FiniteSetTheorems, TLAPS

USE FailuresAssumption, BoundsAssumption

-----------------------------------------------------------------------------
(* What set_compute_shader creates                                          *)

ElementsOf(s) == {s[i] : i \in 1 .. Len(s)}

LEMMA ElementsOfConcat ==
  ASSUME NEW S, NEW s \in Seq(S), NEW t \in Seq(S)
  PROVE  s \o t \in Seq(S) /\ ElementsOf(s \o t) = ElementsOf(s) \cup ElementsOf(t)
<1>1. /\ s \o t \in Seq(S)
      /\ Len(s \o t) = Len(s) + Len(t) /\ Len(s) \in Nat /\ Len(t) \in Nat
      /\ \A i \in 1 .. Len(s) + Len(t) :
           (s \o t)[i] = IF i <= Len(s) THEN s[i] ELSE t[i - Len(s)]
  BY ConcatProperties
<1>2. ASSUME NEW i \in 1 .. Len(s) PROVE s[i] \in ElementsOf(s \o t)
  BY <1>1 DEF ElementsOf
<1>3. ASSUME NEW i \in 1 .. Len(t) PROVE t[i] \in ElementsOf(s \o t)
  <2>1. /\ Len(s) + i \in 1 .. Len(s \o t)
        /\ ~(Len(s) + i <= Len(s)) /\ (Len(s) + i) - Len(s) = i
    BY <1>1
  <2>2. (s \o t)[Len(s) + i] = t[i]
    BY <1>1, <2>1
  <2> QED BY <2>1, <2>2 DEF ElementsOf
<1>4. ASSUME NEW i \in 1 .. Len(s \o t)
      PROVE  (s \o t)[i] \in ElementsOf(s) \cup ElementsOf(t)
  <2>1. CASE i <= Len(s)
    BY <1>1, <2>1 DEF ElementsOf
  <2>2. CASE ~(i <= Len(s))
    <3>1. i - Len(s) \in 1 .. Len(t)
      BY <1>1, <2>2
    <3> QED BY <1>1, <2>2, <3>1 DEF ElementsOf
  <2> QED BY <2>1, <2>2
<1> QED BY <1>1, <1>2, <1>3, <1>4 DEF ElementsOf

\* The kinds of the parts that an update creates.
NewKinds(withUniforms) ==
  (IF compute = {} THEN BlitKinds ELSE {})
    \cup (IF withUniforms THEN {"uniform"} ELSE {}) \cup {"compPipe", "compSets"}

LEMMA PartsAreNewKinds ==
  ASSUME NEW withUniforms \in BOOLEAN
  PROVE  LET parts == PartsToCreate(withUniforms) IN
         parts \in Seq(Kinds \ {"chain", "direct"}) /\ ElementsOf(parts) = NewKinds(withUniforms)
<1> DEFINE S == Kinds \ {"chain", "direct"}
           blit == IF compute = {} THEN <<"image", "sampler", "blitSets", "blitPipe">> ELSE <<>>
           uniform == IF withUniforms THEN <<"uniform">> ELSE <<>>
           shader == <<"compPipe", "compSets">>
           first == blit \o uniform
<1>1. blit \in Seq(S) /\ ElementsOf(blit) = IF compute = {} THEN BlitKinds ELSE {}
  <2>1. CASE compute = {}
    BY <2>1 DEF Kinds, BlitKinds, ElementsOf
  <2>2. CASE compute # {}
    BY <2>2, EmptySeq DEF ElementsOf
  <2> QED BY <2>1, <2>2
<1>2. uniform \in Seq(S) /\ ElementsOf(uniform) = IF withUniforms THEN {"uniform"} ELSE {}
  <2>1. CASE withUniforms
    BY <2>1 DEF Kinds, ElementsOf
  <2>2. CASE ~withUniforms
    BY <2>2, EmptySeq DEF ElementsOf
  <2> QED BY <2>1, <2>2
<1>3. shader \in Seq(S) /\ ElementsOf(shader) = {"compPipe", "compSets"}
  BY DEF Kinds, ElementsOf
<1>4. PartsToCreate(withUniforms) = blit \o uniform \o shader
  BY DEF PartsToCreate
<1> HIDE DEF S, blit, uniform, shader
<1>5. first \in Seq(S) /\ ElementsOf(first) = ElementsOf(blit) \cup ElementsOf(uniform)
  BY <1>1, <1>2, ElementsOfConcat
<1>6. PartsToCreate(withUniforms) = first \o shader
  BY <1>4
<1> HIDE DEF first
<1>7. /\ first \o shader \in Seq(S)
      /\ ElementsOf(first \o shader) = ElementsOf(first) \cup ElementsOf(shader)
  BY <1>3, <1>5, ElementsOfConcat
<1>8. ElementsOf(PartsToCreate(withUniforms)) = NewKinds(withUniforms)
  BY <1>1, <1>2, <1>3, <1>5, <1>6, <1>7 DEF NewKinds
<1> QED BY <1>6, <1>7, <1>8 DEF S

LEMMA FreshObject ==
  ASSUME TypeOK, NewCall, NEW kind \in Kinds, NEW extent \in Extents
  PROVE  /\ Fresh(kind, extent) \in Objects
         /\ Fresh(kind, extent).kind = kind /\ Fresh(kind, extent).extent = extent
         /\ Fresh(kind, extent).call = calls + 1 /\ calls' = calls + 1
BY DEF TypeOK, NewCall, Fresh, Objects

LEMMA CreatedObjects ==
  ASSUME TypeOK, NewCall, NEW withUniforms \in BOOLEAN
  PROVE  LET parts == PartsToCreate(withUniforms) IN
         /\ Created(parts, Len(parts)) = {Fresh(k, chain.extent) : k \in NewKinds(withUniforms)}
         /\ \A n \in 0 .. Len(parts) : Created(parts, n) \subseteq Objects
         /\ \A n \in 1 .. Len(parts) : parts[n] \in Kinds \ {"chain", "direct"}
<1> DEFINE parts == PartsToCreate(withUniforms)
<1>1. parts \in Seq(Kinds \ {"chain", "direct"}) /\ ElementsOf(parts) = NewKinds(withUniforms)
  BY PartsAreNewKinds
<1> HIDE DEF parts
<1>2. \A n \in 1 .. Len(parts) : parts[n] \in Kinds \ {"chain", "direct"}
  BY <1>1
<1>3. Created(parts, Len(parts)) = {Fresh(k, chain.extent) : k \in NewKinds(withUniforms)}
  BY <1>1 DEF ElementsOf, Created
<1>4. ASSUME NEW n \in 0 .. Len(parts) PROVE Created(parts, n) \subseteq Objects
  <2>1. \A i \in 1 .. n : parts[i] \in Kinds
    BY <1>1, <1>2
  <2>2. chain.extent \in Extents
    BY DEF TypeOK, Objects
  <2> QED BY <2>1, <2>2, FreshObject DEF Created
<1> QED BY <1>2, <1>3, <1>4 DEF parts

-----------------------------------------------------------------------------
(* Type correctness                                                         *)

StageKinds == Kinds \ {"chain", "direct"}

\* The stage that set_compute_shader puts together.
UpdatedStage(withUniforms) ==
  OfKinds(compute, BlitKinds) \cup {Fresh(k, chain.extent) : k \in NewKinds(withUniforms)}

LEMMA UpdatedStageComplete ==
  ASSUME TypeOK, NewCall, NEW withUniforms \in BOOLEAN
  PROVE  CompleteStage(UpdatedStage(withUniforms))
<1> DEFINE kept == OfKinds(compute, BlitKinds)
           new == {Fresh(k, chain.extent) : k \in NewKinds(withUniforms)}
<1>1. chain.extent \in Extents /\ NewKinds(withUniforms) \subseteq Kinds
  BY DEF TypeOK, Objects, NewKinds, Kinds, BlitKinds
<1>2. new \subseteq Objects /\ {o.kind : o \in new} = NewKinds(withUniforms)
      /\ \A o1, o2 \in new : o1.kind = o2.kind => o1 = o2
  BY <1>1, FreshObject
<1>3. kept \subseteq Objects /\ \A o1, o2 \in kept : o1.kind = o2.kind => o1 = o2
  BY DEF TypeOK, CompleteStage, OfKinds
<1>4. {o.kind : o \in kept} = IF compute = {} THEN {} ELSE BlitKinds
  <2>1. CASE compute = {}
    BY <2>1 DEF OfKinds
  <2>2. CASE compute # {}
    <3>1. \A k \in BlitKinds : k \in {o.kind : o \in compute}
      BY <2>2 DEF TypeOK, CompleteStage, BlitKinds, Kinds
    <3> QED BY <2>2, <3>1 DEF OfKinds
  <2> QED BY <2>1, <2>2
<1>5. {o.kind : o \in kept \cup new} \cup {"uniform"} = Kinds \ {"chain", "direct"}
  <2>1. {o.kind : o \in kept \cup new} = {o.kind : o \in kept} \cup {o.kind : o \in new}
    OBVIOUS
  <2> QED BY <1>2, <1>4, <2>1 DEF NewKinds, Kinds, BlitKinds
<1>6. ASSUME NEW o1 \in kept, NEW o2 \in new PROVE o1.kind # o2.kind
  <2>1. compute # {} /\ o1.kind \in BlitKinds
    BY DEF OfKinds
  <2>2. o2.kind \in {"uniform", "compPipe", "compSets"}
    BY <1>2, <2>1 DEF NewKinds
  <2> QED BY <2>1, <2>2 DEF BlitKinds
<1> QED BY <1>2, <1>3, <1>5, <1>6 DEF CompleteStage, UpdatedStage

\* The stage that recreate puts together.
ResizedStage == (compute \ ResizedParts) \cup {Fresh(o.kind, window) : o \in ResizedParts}

LEMMA ResizedStageComplete ==
  ASSUME TypeOK, NewCall
  PROVE  ResizedStage = {} \/ CompleteStage(ResizedStage)
<1> DEFINE new == {Fresh(o.kind, window) : o \in ResizedParts}
<1>1. CASE compute = {}
  BY <1>1 DEF ResizedStage, ResizedParts, OfKinds
<1>2. CASE CompleteStage(compute)
  <2> USE <1>2 DEF CompleteStage, ResizedParts, OfKinds
  <2>1. ASSUME NEW o \in ResizedParts
        PROVE  Fresh(o.kind, window) \in Objects /\ Fresh(o.kind, window).kind = o.kind
    BY FreshObject DEF TypeOK, Objects
  <2>2. new \subseteq Objects /\ {o.kind : o \in new} = {o.kind : o \in ResizedParts}
    BY <2>1
  <2>3. \A o1, o2 \in new : o1.kind = o2.kind => o1 = o2
    BY <2>1
  <2>4. \A o1 \in compute \ ResizedParts, o2 \in new : o1.kind # o2.kind
    BY <2>1
  <2>5. {o.kind : o \in ResizedStage} = {o.kind : o \in compute}
    BY <2>2 DEF ResizedStage
  <2> QED BY <2>2, <2>3, <2>4, <2>5 DEF ResizedStage
<1> QED BY <1>1, <1>2 DEF TypeOK

LEMMA InitType == Init => TypeOK
<1> SUFFICES ASSUME Init PROVE TypeOK
  OBVIOUS
<1>1. fence \in BOOLEAN /\ pending \in BOOLEAN
  BY DEF Init
<1>2. chain \in Objects /\ chain.kind = "chain" /\ direct \in Objects /\ direct.kind = "direct"
  BY DEF Init, Objects, Kinds
<1> QED BY <1>1, <1>2 DEF Init, TypeOK

LEMMA WaitIdleType ==
  ASSUME TypeOK, WaitIdle
  PROVE  fence' \in BOOLEAN /\ pending' \in BOOLEAN /\ uses' \subseteq Objects
<1>1. fence' \in BOOLEAN /\ pending' \in BOOLEAN
  BY DEF WaitIdle
<1> QED BY <1>1 DEF WaitIdle

LEMMA FreshFields ==
  ASSUME TypeOK, NewCall, NEW extent \in Extents
  PROVE  /\ Fresh("chain", extent) \in Objects /\ Fresh("chain", extent).kind = "chain"
         /\ Fresh("direct", extent) \in Objects /\ Fresh("direct", extent).kind = "direct"
         /\ Fresh("image", extent) \in Objects
         /\ calls' \in 0 .. MaxCalls
<1>1. {"chain", "direct", "image"} \subseteq Kinds
  BY DEF Kinds
<1> QED BY <1>1, FreshObject DEF NewCall, TypeOK

LEMMA UpdateType ==
  ASSUME TypeOK,
         \/ \E withUniforms \in BOOLEAN : \/ SetComputeShader(withUniforms)
                                          \/ SetComputeShaderFails(withUniforms)
         \/ SetShaders
  PROVE  TypeOK'
<1>1. ASSUME NEW w \in BOOLEAN, SetComputeShader(w) PROVE TypeOK'
  <2>1. NewCall /\ WaitIdle /\ calls' \in 0 .. MaxCalls
    BY <1>1 DEF SetComputeShader, NewCall, TypeOK
  <2>2. compute' = UpdatedStage(w) /\ live' \subseteq live \cup compute'
    BY <1>1, <2>1, CreatedObjects DEF SetComputeShader, UpdatedStage
  <2>3. CompleteStage(compute')
    BY <2>1, <2>2, UpdatedStageComplete
  <2> QED BY <1>1, <2>1, <2>2, <2>3, WaitIdleType DEF SetComputeShader, CompleteStage, TypeOK
<1>2. ASSUME NEW w \in BOOLEAN, SetComputeShaderFails(w) PROVE TypeOK'
  <2>1. NewCall /\ calls' \in 0 .. MaxCalls
    BY <1>2 DEF SetComputeShaderFails, NewCall, TypeOK
  <2>2. PICK n \in 0 .. Len(PartsToCreate(w)) - 1 :
          /\ Fails(PartsToCreate(w)[n + 1])
          /\ live' = live \cup Created(PartsToCreate(w), n)
    BY <1>2 DEF SetComputeShaderFails
  <2>3. live' \subseteq Objects
    BY <2>1, <2>2, CreatedObjects DEF TypeOK
  <2>4. fence' \in BOOLEAN /\ pending' \in BOOLEAN /\ uses' \subseteq Objects
    BY <1>2, WaitIdleType DEF SetComputeShaderFails, TypeOK
  <2> QED BY <1>2, <2>1, <2>2, <2>3, <2>4 DEF SetComputeShaderFails, Fails, TypeOK
<1>3. CASE SetShaders
  <2>1. NewCall /\ WaitIdle /\ chain.extent \in Extents
    BY <1>3 DEF SetShaders, TypeOK, Objects
  <2> QED BY <1>3, <2>1, WaitIdleType, FreshFields DEF SetShaders, TypeOK
<1> QED BY <1>1, <1>2, <1>3

LEMMA RecreateType ==
  ASSUME TypeOK, Recreate \/ RebuildChainFails \/ RebuildPipelinesFail
  PROVE  TypeOK'
<1>1. NewCall /\ WaitIdle /\ window \in Extents
  BY DEF Recreate, RebuildChainFails, RebuildPipelinesFail, RecreateBegins, TypeOK
<1>2. CASE Recreate
  <2>1. compute' = ResizedStage /\ live' \subseteq live \cup {chain', direct'} \cup compute'
    BY <1>2 DEF Recreate, ResizedStage
  <2>2. compute' = {} \/ CompleteStage(compute')
    BY <1>1, <2>1, ResizedStageComplete
  <2> QED BY <1>1, <1>2, <2>1, <2>2, WaitIdleType, FreshFields DEF Recreate, CompleteStage, TypeOK
<1>3. CASE RebuildChainFails
  BY <1>1, <1>3, WaitIdleType, FreshFields DEF RebuildChainFails, Fails, TypeOK
<1>4. CASE RebuildPipelinesFail
  BY <1>1, <1>4, WaitIdleType, FreshFields DEF RebuildPipelinesFail, Fails, TypeOK
<1> QED BY <1>2, <1>3, <1>4

LEMMA FrameType ==
  ASSUME TypeOK,
         \/ GpuFinishes \/ Frame \/ DropRenderer \/ UNCHANGED vars
         \/ \E extent \in Extents : Resize(extent)
  PROVE  TypeOK'
<1>1. CASE GpuFinishes
  BY <1>1, WaitIdleType DEF GpuFinishes, TypeOK
<1>2. CASE FrameSkipped \/ FrameNotAcquired
  BY <1>2 DEF FrameSkipped, FrameNotAcquired, AfterFrame, Fails, TypeOK
<1>3. CASE FrameNotSubmitted
  <2>1. fence' \in BOOLEAN
    BY <1>3 DEF FrameNotSubmitted
  <2> QED BY <1>3, <2>1 DEF FrameNotSubmitted, AfterFrame, Fails, TypeOK
<1>4. CASE FrameSubmitted
  <2>1. fence' \in BOOLEAN /\ pending' \in BOOLEAN
    BY <1>4 DEF FrameSubmitted
  <2>2. stage' \in {"frame", "recreate"}
    BY <1>4 DEF FrameSubmitted, AfterFrame
  <2>3. uses' \subseteq Objects
    BY <1>4 DEF FrameSubmitted, FrameUses, CompleteStage, TypeOK
  <2> QED BY <1>4, <2>1, <2>2, <2>3 DEF FrameSubmitted, TypeOK
<1>5. CASE DropRenderer
  BY <1>5, WaitIdleType DEF DropRenderer, TypeOK
<1>6. CASE UNCHANGED vars
  BY <1>6 DEF vars, TypeOK
<1>7. ASSUME NEW extent \in Extents, Resize(extent) PROVE TypeOK'
  BY <1>7 DEF Resize, TypeOK
<1> QED BY <1>1, <1>2, <1>3, <1>4, <1>5, <1>6, <1>7 DEF Frame

LEMMA NextType == TypeOK /\ [Next]_vars => TypeOK'
BY UpdateType, RecreateType, FrameType DEF Next

\* Every variable keeps its type: in particular, a compute stage has one object
\* of each kind, whichever call put it together.
THEOREM TypeCorrect == Spec => []TypeOK
<1> QED BY InitType, NextType, PTL DEF Spec

-----------------------------------------------------------------------------
(* Ownership and the frame in flight                                        *)

\* What a call creates is none of the objects that were named before.
Aged == \A o \in {chain, direct} \cup compute : o.call <= calls

OwnInv == TypeOK /\ Aged /\ OwnsWhatIsLive /\ PendingFrameAlive

\* The fields name objects of different kinds.
LEMMA FieldsDiffer ==
  TypeOK => chain # direct /\ chain \notin compute /\ direct \notin compute
BY DEF TypeOK, CompleteStage

\* What can leak leaks only after a failure.
LEMMA PartsLeak ==
  ASSUME NEW k \in Kinds \ {"chain", "direct"}
  PROVE  k \in Leaking
BY DEF Kinds, Leaking, FallibleCalls

LEMMA SetComputeShaderOwns ==
  ASSUME OwnInv, NEW w \in BOOLEAN, SetComputeShader(w)
  PROVE  Aged' /\ OwnsWhatIsLive' /\ PendingFrameAlive'
<1> DEFINE kept == OfKinds(compute, BlitKinds)
           new == {Fresh(k, chain.extent) : k \in NewKinds(w)}
<1>1. /\ NewCall /\ TypeOK /\ stage = "frame" /\ stage' = "frame" /\ ~pending'
      /\ calls \in Nat /\ calls' = calls + 1
      /\ compute' = kept \cup new /\ live' = (live \cup new) \ (compute \ kept)
      /\ UNCHANGED <<chain, direct, failed>>
  BY CreatedObjects DEF OwnInv, SetComputeShader, NewCall, WaitIdle, TypeOK
<1>2. kept \subseteq compute /\ \A o \in new : o.call = calls + 1
  BY DEF Fresh, OfKinds
<1>3. Aged'
  BY <1>1, <1>2 DEF OwnInv, TypeOK, CompleteStage, Objects, Aged
<1>4. \A o \in new : o \notin compute
  BY <1>1, <1>2 DEF OwnInv, Aged
<1> HIDE DEF kept, new
<1>5. OwnsWhatIsLive'
  BY <1>1, <1>2, <1>4, FieldsDiffer DEF OwnInv, OwnsWhatIsLive, Owned
<1> QED BY <1>1, <1>3, <1>5 DEF PendingFrameAlive

LEMMA SetComputeShaderFailsOwns ==
  ASSUME OwnInv, NEW w \in BOOLEAN, SetComputeShaderFails(w)
  PROVE  Aged' /\ OwnsWhatIsLive' /\ PendingFrameAlive'
<1>1. PICK n \in 0 .. Len(PartsToCreate(w)) - 1 :
        /\ Fails(PartsToCreate(w)[n + 1])
        /\ live' = live \cup Created(PartsToCreate(w), n)
        /\ WaitIdle \/ UNCHANGED <<fence, pending, uses>>
  BY DEF SetComputeShaderFails
<1>2. /\ NewCall /\ TypeOK /\ calls \in Nat /\ calls' = calls + 1
      /\ UNCHANGED <<chain, direct, compute, stage>>
  BY DEF OwnInv, SetComputeShaderFails, NewCall, TypeOK
<1>3. n + 1 \in 1 .. Len(PartsToCreate(w))
  BY <1>1, PartsAreNewKinds
<1>4. failed' \cap Leaking # {} /\ failed \subseteq failed'
  BY <1>1, <1>2, <1>3, CreatedObjects, PartsLeak DEF Fails
<1>5. Aged'
  BY <1>2 DEF OwnInv, TypeOK, CompleteStage, Objects, Aged
<1>6. OwnsWhatIsLive'
  BY <1>1, <1>2, <1>4 DEF OwnInv, OwnsWhatIsLive, Owned
<1>7. PendingFrameAlive'
  BY <1>1 DEF OwnInv, PendingFrameAlive, WaitIdle
<1> QED BY <1>5, <1>6, <1>7

LEMMA SetShadersOwns ==
  ASSUME OwnInv, SetShaders
  PROVE  Aged' /\ OwnsWhatIsLive' /\ PendingFrameAlive'
<1>1. /\ calls \in Nat /\ calls' = calls + 1 /\ direct'.call = calls + 1
      /\ direct'.kind = "direct" /\ stage = "frame" /\ stage' = "frame" /\ ~pending'
      /\ live' = (live \cup {direct'}) \ {direct}
      /\ UNCHANGED <<chain, compute, failed>>
  BY DEF OwnInv, SetShaders, NewCall, WaitIdle, TypeOK, Fresh
<1>2. Aged'
  BY <1>1 DEF OwnInv, TypeOK, CompleteStage, Objects, Aged
<1>3. direct' # direct /\ direct' # chain /\ direct' \notin compute
  BY <1>1 DEF OwnInv, Aged
<1>4. OwnsWhatIsLive'
  BY <1>1, <1>3, FieldsDiffer DEF OwnInv, OwnsWhatIsLive, Owned
<1> QED BY <1>1, <1>2, <1>4 DEF PendingFrameAlive

LEMMA RecreateOwns ==
  ASSUME OwnInv, Recreate \/ RebuildChainFails \/ RebuildPipelinesFail
  PROVE  Aged' /\ OwnsWhatIsLive' /\ PendingFrameAlive'
<1>1. /\ calls \in Nat /\ calls' = calls + 1 /\ ~pending' /\ TypeOK
      /\ stage = "recreate" /\ stage' \in {"frame", "retry"} /\ failed \subseteq failed'
  BY DEF OwnInv, Recreate, RebuildChainFails, RebuildPipelinesFail, RecreateBegins, NewCall,
         WaitIdle, TypeOK, Fails
<1>2. \A k, e : Fresh(k, e).call = calls + 1 /\ Fresh(k, e) \notin {chain, direct} \cup compute
  BY <1>1 DEF OwnInv, Aged, Fresh
<1>3. Aged'
  <2> SUFFICES ASSUME NEW o \in {chain', direct'} \cup compute' PROVE o.call <= calls'
    BY DEF Aged
  <2>1. o \in {chain, direct} \cup compute \/ \E k, e : o = Fresh(k, e)
    BY DEF Recreate, RebuildChainFails, RebuildPipelinesFail
  <2>2. CASE o \in {chain, direct} \cup compute
    BY <1>1, <2>2 DEF OwnInv, Aged, TypeOK, CompleteStage, Objects
  <2> QED BY <1>1, <1>2, <2>1, <2>2
<1>4. CASE Recreate
  <2> DEFINE new == {Fresh(o.kind, window) : o \in ResizedParts}
  <2>1. /\ compute' = (compute \ ResizedParts) \cup new
        /\ live' = (live \cup {chain', direct'} \cup new) \ ({chain, direct} \cup ResizedParts)
        /\ chain' \notin {chain, direct} \cup compute /\ direct' \notin {chain, direct} \cup compute
        /\ failed' = failed
    BY <1>2, <1>4 DEF Recreate
  <2>2. ResizedParts \subseteq compute /\ \A o \in new : o \notin {chain, direct} \cup compute
    BY <1>2 DEF ResizedParts, OfKinds
  <2> HIDE DEF new
  <2>3. OwnsWhatIsLive'
    BY <1>1, <2>1, <2>2, FieldsDiffer DEF OwnInv, OwnsWhatIsLive, Owned
  <2> QED BY <1>1, <1>3, <2>3 DEF PendingFrameAlive
<1>5. CASE RebuildChainFails
  <2>1. /\ \/ failed' = failed \cup {"surface"} /\ live' = live
           \/ "chainImages" \in failed' /\ live \subseteq live'
           \/ "views" \in failed' /\ live \ {chain} \subseteq live'
        /\ UNCHANGED <<chain, direct, compute>>
    BY <1>5 DEF RebuildChainFails, Fails
  <2>2. {"chainImages", "views"} \subseteq Leaking /\ "surface" \notin Leaking
    BY DEF Leaking, FallibleCalls
  <2>3. OwnsWhatIsLive'
    BY <1>1, <2>1, <2>2 DEF OwnInv, OwnsWhatIsLive, Owned
  <2> QED BY <1>1, <1>3, <2>3 DEF PendingFrameAlive
<1>6. CASE RebuildPipelinesFail
  <2>1. /\ failed' \cap {"direct", "image", "blitPipe"} # {}
        /\ chain' \notin {chain, direct} \cup compute
        /\ \/ direct' = direct /\ (live \cup {chain'}) \ {chain} \subseteq live'
           \/ /\ direct' \notin {chain, direct} \cup compute
              /\ (live \cup {chain', direct'}) \ {chain, direct} \subseteq live'
        /\ compute' = compute
    BY <1>2, <1>6 DEF RebuildPipelinesFail, Fails
  <2>2. {"direct", "image", "blitPipe"} \subseteq Leaking
    BY DEF Leaking, FallibleCalls
  <2>3. OwnsWhatIsLive'
    BY <1>1, <2>1, <2>2, FieldsDiffer DEF OwnInv, OwnsWhatIsLive, Owned
  <2> QED BY <1>1, <1>3, <2>3 DEF PendingFrameAlive
<1> QED BY <1>4, <1>5, <1>6

LEMMA FrameOwns ==
  ASSUME OwnInv, Frame
  PROVE  Aged' /\ OwnsWhatIsLive' /\ PendingFrameAlive'
<1>1. /\ UNCHANGED <<chain, direct, compute, live, calls>>
      /\ stage # "dropped" /\ stage' # "dropped"
      /\ \/ failed' = failed
         \/ \E call \in {"acquire", "record"} : failed' = failed \cup {call}
  BY DEF Frame, FrameSkipped, FrameNotAcquired, FrameNotSubmitted, FrameSubmitted, CanRender,
         AfterFrame, Fails
<1>2. Aged'
  BY <1>1 DEF OwnInv, Aged
<1>3. OwnsWhatIsLive'
  BY <1>1 DEF OwnInv, OwnsWhatIsLive, Owned, Leaking, FallibleCalls
<1>4. CASE FrameSubmitted
  <2>1. chain \in live /\ FrameUses \subseteq Owned
    BY <1>1, <1>4 DEF FrameSubmitted, CanRender, FrameUses, Owned
  <2>2. FrameUses \subseteq live
    BY <2>1 DEF OwnInv, OwnsWhatIsLive
  <2> QED BY <1>1, <1>2, <1>3, <1>4, <2>2 DEF FrameSubmitted, PendingFrameAlive
<1>5. CASE ~FrameSubmitted
  <2>1. UNCHANGED <<pending, uses>>
    BY <1>5 DEF Frame, FrameSkipped, FrameNotAcquired, FrameNotSubmitted
  <2> QED BY <1>1, <1>2, <1>3, <2>1 DEF OwnInv, PendingFrameAlive
<1> QED BY <1>4, <1>5

LEMMA OthersOwn ==
  ASSUME OwnInv,
         \/ GpuFinishes \/ DropRenderer \/ UNCHANGED vars
         \/ \E extent \in Extents : Resize(extent)
  PROVE  Aged' /\ OwnsWhatIsLive' /\ PendingFrameAlive'
<1>1. CASE DropRenderer
  BY <1>1 DEF DropRenderer, WaitIdle, OwnInv, Aged, OwnsWhatIsLive, Owned, PendingFrameAlive
<1>2. CASE ~DropRenderer
  <2>1. UNCHANGED <<chain, direct, compute, live, calls, stage, failed>>
        /\ (~pending' \/ UNCHANGED <<pending, uses>>)
    BY <1>2 DEF GpuFinishes, Resize, WaitIdle, vars
  <2> QED BY <2>1 DEF OwnInv, Aged, OwnsWhatIsLive, Owned, PendingFrameAlive
<1> QED BY <1>1, <1>2

LEMMA OwnInvariant == Spec => []OwnInv
<1>1. Init => OwnInv
  BY InitType DEF Init, OwnInv, Aged, OwnsWhatIsLive, Owned, PendingFrameAlive
<1>2. OwnInv /\ [Next]_vars => OwnInv'
  BY NextType, SetComputeShaderOwns, SetComputeShaderFailsOwns, SetShadersOwns, RecreateOwns,
     FrameOwns, OthersOwn DEF OwnInv, Next
<1> QED BY <1>1, <1>2, PTL DEF Spec

\* Until a call has failed that is known to leak, what exists is what the fields
\* name; and what they name exists, but for a swapchain whose successor's views
\* could not be made.
THEOREM OwnedIsLive == Spec => []OwnsWhatIsLive
<1> QED BY OwnInvariant, PTL DEF OwnInv

\* Whichever calls have failed, nothing is destroyed that the frame in flight uses.
THEOREM FrameAlive == Spec => []PendingFrameAlive
<1> QED BY OwnInvariant, PTL DEF OwnInv

-----------------------------------------------------------------------------
(* The fence                                                                *)

\* The fence that the next frame waits for is signalled, or will be by the GPU,
\* unless the recording or the submission of a frame has failed.
THEOREM FenceSignals == Spec => []FenceWillSignal
<1>1. Init => FenceWillSignal
  BY DEF Init, FenceWillSignal
<1>2. FenceWillSignal /\ [Next]_vars => FenceWillSignal'
  <2> SUFFICES ASSUME FenceWillSignal, [Next]_vars, "record" \notin failed'
               PROVE  fence' \/ pending'
    BY DEF FenceWillSignal
  <2>1. "record" \notin failed
    BY DEF Next, GpuFinishes, Resize, SetComputeShader, SetComputeShaderFails, SetShaders,
           Recreate, RebuildChainFails, RebuildPipelinesFail, Frame, FrameSkipped,
           FrameNotAcquired, FrameNotSubmitted, FrameSubmitted, DropRenderer, Fails, vars
  <2>2. fence \/ pending
    BY <2>1 DEF FenceWillSignal
  <2>3. CASE WaitIdle \/ UNCHANGED <<fence, pending>>
    BY <2>2, <2>3 DEF WaitIdle
  <2>4. CASE ~(WaitIdle \/ UNCHANGED <<fence, pending>>)
    <3>1. FrameSubmitted \/ FrameNotSubmitted
      BY <2>4 DEF Next, GpuFinishes, Resize, SetComputeShader, SetComputeShaderFails,
                  SetShaders, Recreate, RebuildChainFails, RebuildPipelinesFail,
                  RecreateBegins, Frame, FrameSkipped, FrameNotAcquired, DropRenderer, vars
    <3> QED BY <3>1 DEF FrameSubmitted, FrameNotSubmitted, Fails
  <2> QED BY <2>3, <2>4
<1> QED BY <1>1, <1>2, PTL DEF Spec

-----------------------------------------------------------------------------
(* The size of what is drawn                                                *)

Sized == {"chain", "direct", "image", "blitPipe"}

\* Unless a recreate has failed half way, the fields name objects of one size.
FieldsOfOneExtent ==
  failed \cap {"direct", "image", "blitPipe"} = {} =>
    \A o \in OfKinds({direct} \cup compute, Sized) : o.extent = chain.extent

\* And so does the frame in flight use, whose swapchain may have been replaced.
FrameSized ==
  pending /\ failed \cap {"direct", "image", "blitPipe"} = {} =>
    \E e \in Extents : {o.extent : o \in OfKinds(uses, Sized)} = {e}

ExtentInv == TypeOK /\ FieldsOfOneExtent /\ FrameSized

LEMMA UpdateExtent ==
  ASSUME ExtentInv,
         \/ \E w \in BOOLEAN : SetComputeShader(w) \/ SetComputeShaderFails(w)
         \/ SetShaders
  PROVE  FieldsOfOneExtent'
<1> USE DEF ExtentInv, FieldsOfOneExtent, OfKinds
<1>1. ASSUME NEW w \in BOOLEAN, SetComputeShader(w) PROVE FieldsOfOneExtent'
  <2>1. /\ compute' = UpdatedStage(w)
        /\ UNCHANGED <<chain, direct, failed>>
    BY <1>1, CreatedObjects DEF SetComputeShader, UpdatedStage
  <2>2. \A k : Fresh(k, chain.extent).extent = chain.extent
    BY DEF Fresh
  <2> QED BY <2>1, <2>2 DEF UpdatedStage
<1>2. ASSUME NEW w \in BOOLEAN, SetComputeShaderFails(w) PROVE FieldsOfOneExtent'
  BY <1>2 DEF SetComputeShaderFails, Fails
<1>3. CASE SetShaders
  BY <1>3 DEF SetShaders, Fresh
<1> QED BY <1>1, <1>2, <1>3

LEMMA RecreateExtent ==
  ASSUME ExtentInv, Recreate \/ RebuildChainFails \/ RebuildPipelinesFail
  PROVE  FieldsOfOneExtent'
<1> USE DEF ExtentInv, FieldsOfOneExtent, OfKinds
<1>1. CASE Recreate
  <2>1. /\ chain'.extent = window /\ direct'.extent = window
        /\ \A k : Fresh(k, window).extent = window
    BY <1>1 DEF Recreate, Fresh
  <2>2. \A o \in compute \ ResizedParts : o.kind \notin Sized
    BY DEF ResizedParts, Sized, TypeOK, CompleteStage
  <2> QED BY <1>1, <2>1, <2>2 DEF Recreate
<1>2. CASE RebuildChainFails
  BY <1>2 DEF RebuildChainFails, Fails
<1>3. CASE RebuildPipelinesFail
  BY <1>3 DEF RebuildPipelinesFail, Fails
<1> QED BY <1>1, <1>2, <1>3

LEMMA SubmittedExtent ==
  ASSUME ExtentInv, FrameSubmitted
  PROVE  FrameSized'
<1> SUFFICES ASSUME failed \cap {"direct", "image", "blitPipe"} = {}
             PROVE  {o.extent : o \in OfKinds(FrameUses, Sized)} = {chain.extent}
  BY DEF FrameSubmitted, FrameSized, ExtentInv, TypeOK, Objects
<1>1. FrameUses \subseteq {chain, direct} \cup compute /\ chain \in FrameUses
  BY DEF FrameUses
<1>2. \A o \in OfKinds(FrameUses, Sized) : o.extent = chain.extent
  BY <1>1 DEF OfKinds, ExtentInv, FieldsOfOneExtent
<1>3. chain \in OfKinds(FrameUses, Sized)
  BY <1>1 DEF OfKinds, Sized, ExtentInv, TypeOK
<1> QED BY <1>2, <1>3

LEMMA ExtentInvariant == Spec => []ExtentInv
<1>1. Init => ExtentInv
  BY InitType DEF Init, ExtentInv, FieldsOfOneExtent, FrameSized, OfKinds
<1>2. ExtentInv /\ [Next]_vars => FieldsOfOneExtent'
  <2> SUFFICES ASSUME ExtentInv, [Next]_vars PROVE FieldsOfOneExtent'
    OBVIOUS
  <2>1. CASE \/ GpuFinishes \/ Frame \/ DropRenderer \/ UNCHANGED vars
             \/ \E extent \in Extents : Resize(extent)
    BY <2>1 DEF ExtentInv, FieldsOfOneExtent, GpuFinishes, Frame, FrameSkipped,
                FrameNotAcquired, FrameNotSubmitted, FrameSubmitted, DropRenderer, Resize,
                Fails, vars
  <2> QED BY <2>1, UpdateExtent, RecreateExtent DEF Next
<1>3. ExtentInv /\ [Next]_vars => FrameSized'
  <2> SUFFICES ASSUME ExtentInv, [Next]_vars, ~FrameSubmitted PROVE FrameSized'
    BY SubmittedExtent
  <2>1. (WaitIdle \/ UNCHANGED <<pending, uses>>) /\ failed \subseteq failed'
    BY DEF Next, GpuFinishes, Resize, SetComputeShader, SetComputeShaderFails, SetShaders,
           Recreate, RebuildChainFails, RebuildPipelinesFail, RecreateBegins, Frame,
           FrameSkipped, FrameNotAcquired, FrameNotSubmitted, DropRenderer, Fails, vars
  <2> QED BY <2>1 DEF ExtentInv, FrameSized, WaitIdle
<1> QED BY <1>1, <1>2, <1>3, NextType, PTL DEF Spec, ExtentInv

\* A frame is drawn with objects of one size, unless a recreate has failed between
\* the new swapchain and the new blit pass.
THEOREM DrawsOneExtent == Spec => []FrameOfOneExtent
<1>1. ExtentInv => FrameOfOneExtent
  BY FS_Singleton DEF ExtentInv, FrameSized, FrameOfOneExtent, Sized
<1> QED BY <1>1, ExtentInvariant, PTL

-----------------------------------------------------------------------------
(* The objects of renderer-core.  The first clauses say where a program is,  *)
(* the next four which order its owners are in, at every point; the last two *)
(* what that order is for once it has ended, and what the GPU adds.          *)

ProgramShape ==
  /\ program \in Programs
  /\ taken \in 0 .. Len(program)
  /\ owners \in [DOMAIN program -> Seq(STRING)]

\* A program that has neither failed nor ended is where its steps have brought it.
OnSchedule ==
  ~Ended => /\ alive = AliveAfter(program, taken)
            /\ owners = OwnersAfter(program, taken)
            /\ leaked = {}

OwnedOnce ==
  \A i, j \in DOMAIN owners : \A m \in DOMAIN owners[i], n \in DOMAIN owners[j] :
    owners[i][m] = owners[j][n] => i = j /\ m = n

\* "wait" stands for device_wait_idle among the things a drop does, no object.
OwnersHoldAlive == "wait" \notin alive /\ Wrapped \subseteq alive \cup {"wait"}

\* The order of destruction, if the wrappers in scope were dropped now.
ChildrenFirst ==
  \A i, j \in DOMAIN owners : \A m \in DOMAIN owners[i], n \in DOMAIN owners[j] :
    MustOutlive(owners[i][m], owners[j][n]) => i < j \/ (i = j /\ n < m)

ParentsExist == \A o \in alive \ leaked : Parents(o) \subseteq alive

\* Only a Device keeps an Instance whose owner was dropped.
InstanceKept ==
  /\ "device" \in alive => "device" \in Wrapped /\ "instance" \notin leaked
  /\ "instance" \in alive \ (leaked \cup Wrapped) =>
       /\ "device" \in alive
       /\ \A o \in Wrapped : "instance" \in Parents(o) => o = "device"

\* What is left when a program has ended has an owner, or was leaked.
Settled ==
  Ended => /\ leaked \subseteq alive /\ leaked \cap Wrapped = {}
           /\ alive \ leaked \subseteq Wrapped \cup {"instance"}
           /\ InstanceKept

\* The host waits for what the queue executes before it destroys any of it.
GpuAwaited ==
  gpu # {} /\ failure # "wait" =>
    /\ gpu \subseteq alive
    /\ ~Ended => taken \in DOMAIN program /\ program[taken].does = "submit"
    /\ Ended => \E i \in DOMAIN owners : IsNewest(i, owners) /\ Head(owners[i]) = "wait"

ObjectsInv ==
  /\ ProgramShape /\ OnSchedule
  /\ OwnedOnce /\ OwnersHoldAlive /\ ChildrenFirst
  /\ ParentsExist /\ Settled /\ GpuAwaited

-----------------------------------------------------------------------------

LEMMA StepOfProgram ==
  ASSUME NEW p \in Programs
  PROVE  /\ p \in Seq(Steps) /\ DOMAIN p = 1 .. Len(p) /\ Len(p) \in Nat
         /\ \A n \in DOMAIN p : p[n].objects \in Seq(STRING) /\ FollowsRules(p, n)
<1>1. p \in Seq(Steps) /\ \A n \in DOMAIN p : FollowsRules(p, n)
  BY ProgramsAssumption
<1>2. \A n \in DOMAIN p : p[n] \in Steps
  BY <1>1
<1>3. \A n \in DOMAIN p : p[n].objects \in Seq(STRING)
  BY <1>2 DEF Steps
<1>4. DOMAIN p = 1 .. Len(p) /\ Len(p) \in Nat
  BY <1>1
<1> QED BY <1>1, <1>3, <1>4

LEMMA Popped ==
  ASSUME NEW s \in Seq(STRING), s # <<>>
  PROVE  /\ Tail(s) \in Seq(STRING)
         /\ 1 \in DOMAIN s /\ Head(s) = s[1]
         /\ \A m \in DOMAIN Tail(s) : m \in Nat /\ m # 0 /\ m + 1 \in DOMAIN s /\ Tail(s)[m] = s[m + 1]
         /\ \A m \in DOMAIN s : m = 1 \/ (m - 1 \in DOMAIN Tail(s) /\ Tail(s)[m - 1] = s[m])
<1>1. Len(s) \in Nat /\ Len(s) # 0
  BY EmptySeq
<1> QED BY <1>1

LEMMA InAliveAfter ==
  ASSUME NEW p, NEW n, NEW o
  PROVE  o \in AliveAfter(p, n) <=>
           \E i \in 1 .. n :
             /\ p[i].does \in Making /\ o \in Range(p[i].objects)
             /\ \A j \in (i + 1) .. n :
                  p[j].does = "destroy" => o \notin Range(p[j].objects)
BY DEF AliveAfter

\* What the next step of a program does to the objects that exist.
LEMMA AliveAfterNext ==
  ASSUME NEW p, NEW n \in Nat
  PROVE  /\ p[n + 1].does \in Making =>
              AliveAfter(p, n + 1) = AliveAfter(p, n) \cup Range(p[n + 1].objects)
         /\ p[n + 1].does = "destroy" =>
              AliveAfter(p, n + 1) = AliveAfter(p, n) \ Range(p[n + 1].objects)
         /\ p[n + 1].does \notin Making \cup {"destroy"} =>
              AliveAfter(p, n + 1) = AliveAfter(p, n)
<1> DEFINE new == Range(p[n + 1].objects)
<1>1. ASSUME NEW o
      PROVE  o \in AliveAfter(p, n + 1) <=>
               \/ o \in AliveAfter(p, n) /\ (p[n + 1].does = "destroy" => o \notin new)
               \/ p[n + 1].does \in Making /\ o \in new
  <2> HIDE DEF new
  <2>1. ASSUME o \in AliveAfter(p, n + 1)
        PROVE  \/ o \in AliveAfter(p, n) /\ (p[n + 1].does = "destroy" => o \notin new)
               \/ p[n + 1].does \in Making /\ o \in new
    <3>1. PICK i \in 1 .. n + 1 :
            /\ p[i].does \in Making /\ o \in Range(p[i].objects)
            /\ \A j \in (i + 1) .. n + 1 :
                 p[j].does = "destroy" => o \notin Range(p[j].objects)
      BY <2>1, InAliveAfter
    <3>2. CASE i = n + 1
      BY <3>1, <3>2 DEF new
    <3>3. CASE i # n + 1
      <4>1. i \in 1 .. n /\ n + 1 \in (i + 1) .. n + 1
        BY <3>3
      <4>2. \A j \in (i + 1) .. n : j \in (i + 1) .. n + 1
        BY <4>1
      <4>3. o \in AliveAfter(p, n)
        BY <3>1, <4>1, <4>2, InAliveAfter
      <4> QED BY <3>1, <4>1, <4>3 DEF new
    <3> QED BY <3>2, <3>3
  <2>2. ASSUME o \in AliveAfter(p, n), p[n + 1].does = "destroy" => o \notin new
        PROVE  o \in AliveAfter(p, n + 1)
    <3>1. PICK i \in 1 .. n :
            /\ p[i].does \in Making /\ o \in Range(p[i].objects)
            /\ \A j \in (i + 1) .. n : p[j].does = "destroy" => o \notin Range(p[j].objects)
      BY <2>2, InAliveAfter
    <3>2. i \in 1 .. n + 1 /\ \A j \in (i + 1) .. n + 1 : j \in (i + 1) .. n \/ j = n + 1
      OBVIOUS
    <3>3. \A j \in (i + 1) .. n + 1 : p[j].does = "destroy" => o \notin Range(p[j].objects)
      BY <2>2, <3>1, <3>2 DEF new
    <3> QED BY <3>1, <3>2, <3>3, InAliveAfter
  <2>3. ASSUME p[n + 1].does \in Making, o \in new
        PROVE  o \in AliveAfter(p, n + 1)
    <3>1. n + 1 \in 1 .. n + 1 /\ (n + 1 + 1) .. n + 1 = {}
      OBVIOUS
    <3> QED BY <2>3, <3>1, InAliveAfter DEF new
  <2> QED BY <2>1, <2>2, <2>3
<1>2. p[n + 1].does = "destroy" => p[n + 1].does \notin Making
  BY DEF Making
<1>3. p[n + 1].does \in Making => AliveAfter(p, n + 1) = AliveAfter(p, n) \cup new
  <2> HIDE DEF new
  <2> QED BY <1>1, <1>2
<1>4. p[n + 1].does = "destroy" => AliveAfter(p, n + 1) = AliveAfter(p, n) \ new
  <2> HIDE DEF new
  <2> QED BY <1>1, <1>2
<1>5. p[n + 1].does \notin Making \cup {"destroy"} => AliveAfter(p, n + 1) = AliveAfter(p, n)
  <2> HIDE DEF new
  <2> QED BY <1>1
<1> QED BY <1>3, <1>4, <1>5

LEMMA OwnersAfterNext ==
  ASSUME NEW p \in Programs, NEW n \in Nat, n + 1 \in DOMAIN p
  PROVE  /\ p[n + 1].does = "own" =>
              OwnersAfter(p, n + 1) =
                [OwnersAfter(p, n) EXCEPT ![n + 1] = p[n + 1].objects]
         /\ p[n + 1].does \in Revoking =>
              OwnersAfter(p, n + 1) =
                [i \in DOMAIN p |->
                   IF Range(OwnersAfter(p, n)[i]) \cap Range(p[n + 1].objects) = {}
                   THEN OwnersAfter(p, n)[i] ELSE <<>>]
         /\ p[n + 1].does \notin Revoking \cup {"own"} =>
              OwnersAfter(p, n + 1) = OwnersAfter(p, n)
<1> DEFINE D == DOMAIN p
           old == OwnersAfter(p, n)
           new == OwnersAfter(p, n + 1)
           Kept(i, k) == \A j \in (i + 1) .. k :
                           p[j].does \in Revoking =>
                             Range(p[i].objects) \cap Range(p[j].objects) = {}
           Clear(i) == p[n + 1].does \in Revoking =>
                         Range(p[i].objects) \cap Range(p[n + 1].objects) = {}
<1>1. D \subseteq Nat /\ n + 1 \in D
  BY StepOfProgram
<1>2. /\ old = [i \in D |-> IF i <= n /\ p[i].does = "own" /\ Kept(i, n)
                            THEN p[i].objects ELSE <<>>]
      /\ new = [i \in D |-> IF i <= n + 1 /\ p[i].does = "own" /\ Kept(i, n + 1)
                            THEN p[i].objects ELSE <<>>]
  BY DEF OwnersAfter
<1>3. \A i \in D : i <= n =>
        (Kept(i, n + 1) <=> Kept(i, n) /\ Clear(i))
  <2> SUFFICES ASSUME NEW i \in D, i <= n
               PROVE  Kept(i, n + 1) <=> Kept(i, n) /\ Clear(i)
    OBVIOUS
  <2>1. (i + 1) .. n + 1 = ((i + 1) .. n) \cup {n + 1}
    BY <1>1
  <2> QED BY <2>1
<1>4. Kept(n + 1, n + 1) /\ ~(n + 1 <= n)
  BY <1>1
<1>5. p[n + 1].does = "own" => p[n + 1].does \notin Revoking
  BY DEF Revoking
<1>6. \A i \in D : i # n + 1 => (i <= n + 1 <=> i <= n)
  BY <1>1
<1>7. p[n + 1].does = "own" => new = [old EXCEPT ![n + 1] = p[n + 1].objects]
  <2> SUFFICES ASSUME p[n + 1].does = "own"
               PROVE  new = [old EXCEPT ![n + 1] = p[n + 1].objects]
    OBVIOUS
  <2> HIDE DEF D, old, new, Kept
  <2>1. n + 1 <= n + 1
    OBVIOUS
  <2>2. new[n + 1] = p[n + 1].objects
    BY <1>1, <1>2, <1>4, <2>1
  <2>3. \A i \in D : i # n + 1 => new[i] = old[i]
    BY <1>2, <1>3, <1>5, <1>6
  <2> QED BY <1>1, <1>2, <2>2, <2>3
<1>8. p[n + 1].does \in Revoking =>
        new = [i \in D |-> IF Range(old[i]) \cap Range(p[n + 1].objects) = {}
                           THEN old[i] ELSE <<>>]
  <2> SUFFICES ASSUME p[n + 1].does \in Revoking
               PROVE  \A i \in D : new[i] = IF Range(old[i]) \cap Range(p[n + 1].objects) = {}
                                           THEN old[i] ELSE <<>>
    BY <1>2
  <2> HIDE DEF D, old, new, Kept
  <2>1. Range(<<>>) = {}
    BY DEF Range
  <2>2. \A i \in D : i <= n + 1 /\ p[i].does = "own" => i <= n
    BY <1>5, <1>6
  <2> QED BY <1>2, <1>3, <1>6, <2>1, <2>2
<1>9. p[n + 1].does \notin Revoking \cup {"own"} => new = old
  <2> HIDE DEF D, old, new, Kept
  <2>1. p[n + 1].does \notin Revoking \cup {"own"} => \A i \in D : new[i] = old[i]
    BY <1>2, <1>3, <1>6
  <2> QED BY <1>2, <2>1
<1> QED BY <1>7, <1>8, <1>9

LEMMA InOwnedBy ==
  ASSUME NEW w, NEW o
  PROVE  o \in OwnedBy(w) <=> \E i \in DOMAIN w : \E m \in DOMAIN w[i] : w[i][m] = o
BY DEF OwnedBy, Range

-----------------------------------------------------------------------------

\* Where a program stands, and what the rules say of its next step.
LEMMA NextStep ==
  ASSUME ObjectsInv, ~Ended
  PROVE  /\ program \in Programs /\ taken \in Nat /\ Len(program) \in Nat
         /\ taken + 1 \in DOMAIN program /\ DOMAIN owners = DOMAIN program
         /\ DOMAIN program = 1 .. Len(program)
         /\ Current.objects \in Seq(STRING)
         /\ failure = "none" /\ leaked = {}
         /\ alive = AliveAfter(program, taken) /\ owners = OwnersAfter(program, taken)
         /\ Current.does \in Making => MakesSoundly(Handled, alive)
         /\ Current.does = "own" => OwnsSoundly(Current.objects, alive, Wrapped)
         /\ Current.does = "destroy" => DestroysSoundly(Handled, alive)
         /\ Current.does \in {"submit", "frames"} => Handled \subseteq alive
         /\ Current.does = "submit" =>
              taken + 1 < Len(program) /\ program[taken + 1 + 1].does = "wait"
         /\ Current.does = "frames" =>
              /\ taken + 1 = Len(program)
              /\ \E i \in DOMAIN owners : IsNewest(i, owners) /\ Head(owners[i]) = "wait"
         /\ Current.does \in Fallible =>
              DeviceInScope(alive \cup (IF Current.does = "makeEach" THEN Handled ELSE {}),
                            Wrapped)
<1>1. /\ program \in Programs /\ taken \in 0 .. Len(program)
      /\ DOMAIN owners = DOMAIN program
  BY DEF ObjectsInv, ProgramShape
<1>2. taken # Len(program) /\ failure = "none"
  BY DEF Ended
<1>3. DOMAIN program = 1 .. Len(program) /\ Len(program) \in Nat
  BY <1>1, StepOfProgram
<1>4. taken \in Nat /\ taken + 1 \in DOMAIN program /\ taken + 1 - 1 = taken
  <2> DEFINE len == Len(program)
  <2> HIDE DEF len
  <2>1. taken \in 0 .. len /\ taken # len /\ len \in Nat /\ DOMAIN program = 1 .. len
    BY <1>1, <1>2, <1>3 DEF len
  <2> QED BY <2>1
<1>5. /\ alive = AliveAfter(program, taken) /\ owners = OwnersAfter(program, taken)
      /\ leaked = {}
  BY DEF ObjectsInv, OnSchedule
<1>6. Current.objects \in Seq(STRING) /\ FollowsRules(program, taken + 1)
  BY <1>1, <1>4, StepOfProgram DEF Current
<1> DEFINE n == taken + 1
<1>7. AliveAfter(program, n - 1) = alive /\ OwnersAfter(program, n - 1) = owners
  BY <1>4, <1>5
<1>8. Current = program[n] /\ Handled = Range(program[n].objects) /\ Wrapped = OwnedBy(owners)
  BY DEF Current, Handled, Wrapped
<1>9. FollowsRules(program, n)
  BY <1>6
<1> HIDE DEF n
<1>10. /\ Current.does \in Making => MakesSoundly(Handled, alive)
       /\ Current.does = "own" => OwnsSoundly(Current.objects, alive, Wrapped)
       /\ Current.does = "destroy" => DestroysSoundly(Handled, alive)
       /\ Current.does \in {"submit", "frames"} => Handled \subseteq alive
       /\ Current.does = "submit" => n < Len(program) /\ program[n + 1].does = "wait"
       /\ Current.does = "frames" =>
            /\ n = Len(program)
            /\ \E i \in DOMAIN owners : IsNewest(i, owners) /\ Head(owners[i]) = "wait"
       /\ Current.does \in Fallible =>
            DeviceInScope(alive \cup (IF Current.does = "makeEach" THEN Handled ELSE {}),
                          Wrapped)
  BY <1>7, <1>8, <1>9 DEF FollowsRules
<1> QED BY <1>1, <1>2, <1>3, <1>4, <1>5, <1>6, <1>10 DEF n

\* A step that succeeds.
Advance ==
  \/ Succeed \/ Create \/ TakeOver \/ GiveUp \/ DestroyNow
  \/ SubmitWork \/ AwaitWork \/ DrawFrames

LEMMA AdvanceSchedule ==
  ASSUME ObjectsInv, Advance
  PROVE  /\ ~Ended /\ program' = program /\ taken' = taken + 1
         /\ failure' = "none" /\ leaked' = {}
         /\ alive' = AliveAfter(program, taken + 1)
         /\ owners' = OwnersAfter(program, taken + 1)
         /\ ProgramShape'
<1>1. /\ ~Ended /\ program' = program /\ taken' = taken + 1
      /\ failure' = failure /\ leaked' = leaked
  BY DEF Advance, Succeed, Create, TakeOver, GiveUp, DestroyNow, SubmitWork, AwaitWork,
         DrawFrames, Does
<1> DEFINE n == taken
           step == program[n + 1]
<1>2. /\ n \in Nat /\ n + 1 \in DOMAIN program /\ program \in Programs
      /\ DOMAIN owners = DOMAIN program /\ DOMAIN program = 1 .. Len(program)
      /\ Len(program) \in Nat
      /\ alive = AliveAfter(program, n) /\ owners = OwnersAfter(program, n)
      /\ step.objects \in Seq(STRING) /\ leaked = {} /\ failure = "none"
  BY <1>1, NextStep DEF Current
<1>3. /\ step.does \in Making =>
           AliveAfter(program, n + 1) = AliveAfter(program, n) \cup Range(step.objects)
      /\ step.does = "destroy" =>
           AliveAfter(program, n + 1) = AliveAfter(program, n) \ Range(step.objects)
      /\ step.does \notin Making \cup {"destroy"} =>
           AliveAfter(program, n + 1) = AliveAfter(program, n)
  BY <1>2, AliveAfterNext
<1>4. /\ step.does = "own" =>
           OwnersAfter(program, n + 1) = [OwnersAfter(program, n) EXCEPT ![n + 1] = step.objects]
      /\ step.does \in Revoking =>
           OwnersAfter(program, n + 1) =
             [i \in DOMAIN program |->
                IF Range(OwnersAfter(program, n)[i]) \cap Range(step.objects) = {}
                THEN OwnersAfter(program, n)[i] ELSE <<>>]
      /\ step.does \notin Revoking \cup {"own"} =>
           OwnersAfter(program, n + 1) = OwnersAfter(program, n)
  BY <1>2, OwnersAfterNext
<1>5. Handled = Range(step.objects) /\ Current = step
  BY DEF Handled, Current
<1> HIDE DEF n, step
<1>6. alive' = AliveAfter(program, n + 1) /\ owners' = OwnersAfter(program, n + 1)
  <2> USE <1>2, <1>3, <1>4, <1>5 DEF Making, Revoking, Does
  <2>1. CASE Succeed
    BY <2>1 DEF Succeed
  <2>2. CASE Create
    BY <2>2 DEF Create
  <2>3. CASE TakeOver
    BY <2>3 DEF TakeOver, n
  <2>4. CASE GiveUp
    BY <2>4 DEF GiveUp, WithoutOwner
  <2>5. CASE DestroyNow
    BY <2>5 DEF DestroyNow, WithoutOwner
  <2>6. CASE SubmitWork
    BY <2>6 DEF SubmitWork
  <2>7. CASE AwaitWork
    BY <2>7 DEF AwaitWork
  <2>8. CASE DrawFrames
    BY <2>8 DEF DrawFrames
  <2> QED BY <2>1, <2>2, <2>3, <2>4, <2>5, <2>6, <2>7, <2>8 DEF Advance
<1>7. ProgramShape'
  <2>1. owners \in [DOMAIN program -> Seq(STRING)]
    BY DEF ObjectsInv, ProgramShape
  <2>2. taken + 1 \in 0 .. Len(program)
    BY <1>2 DEF n
  <2>3. <<>> \in Seq(STRING)
    OBVIOUS
  <2>4. owners' \in [DOMAIN program -> Seq(STRING)]
    BY <2>1, <2>3, <1>2, <1>5 DEF Advance, Succeed, Create, TakeOver, GiveUp, DestroyNow,
       SubmitWork, AwaitWork, DrawFrames, WithoutOwner, n
  <2> QED BY <1>1, <1>2, <2>2, <2>4 DEF ProgramShape
<1> QED BY <1>1, <1>2, <1>6, <1>7 DEF n

LEMMA AdvanceGpu ==
  ASSUME ObjectsInv, Advance
  PROVE  GpuAwaited'
<1>1. /\ ~Ended /\ program' = program /\ taken' = taken + 1 /\ failure' = "none"
  BY AdvanceSchedule
<1>2. CASE gpu' = {}
  BY <1>2 DEF GpuAwaited
<1>3. CASE SubmitWork
  <2>1. /\ gpu' = Handled /\ alive' = alive /\ Current.does = "submit"
    BY <1>3 DEF SubmitWork, Does
  <2>2. Handled \subseteq alive /\ taken + 1 < Len(program) /\ taken + 1 \in DOMAIN program
    BY <1>1, <2>1, NextStep
  <2>3. ~Ended'
    BY <1>1, <2>2, NextStep DEF Ended
  <2> QED BY <1>1, <2>1, <2>2, <2>3 DEF GpuAwaited, Current
<1>4. CASE DrawFrames /\ gpu' # {}
  <2>1. /\ gpu' = Handled /\ alive' = alive /\ owners' = owners /\ Current.does = "frames"
    BY <1>4 DEF DrawFrames, Does
  <2>2. /\ Handled \subseteq alive /\ taken + 1 = Len(program)
        /\ \E i \in DOMAIN owners : IsNewest(i, owners) /\ Head(owners[i]) = "wait"
    BY <1>1, <2>1, NextStep
  <2>3. Ended'
    BY <1>1, <2>2 DEF Ended
  <2> QED BY <2>1, <2>2, <2>3 DEF GpuAwaited
<1>5. CASE gpu' = gpu /\ gpu # {} /\ Current.does # "wait"
  <2>1. taken \in DOMAIN program /\ program[taken].does = "submit"
    BY <1>1, <1>5, NextStep DEF ObjectsInv, GpuAwaited
  <2>2. FollowsRules(program, taken)
    BY <1>1, <2>1, NextStep, StepOfProgram
  <2>3. program[taken + 1].does = "wait"
    BY <2>1, <2>2 DEF FollowsRules
  <2> QED BY <1>5, <2>3 DEF Current
<1> QED
  BY <1>2, <1>3, <1>4, <1>5 DEF Advance, Succeed, Create, TakeOver, GiveUp, DestroyNow, AwaitWork,
     DrawFrames, Does

LEMMA AdvanceSettled ==
  ASSUME ObjectsInv, Advance
  PROVE  OnSchedule' /\ Settled'
<1>1. /\ ~Ended /\ program' = program /\ taken' = taken + 1 /\ failure' = "none" /\ leaked' = {}
      /\ alive' = AliveAfter(program, taken + 1)
      /\ owners' = OwnersAfter(program, taken + 1)
  BY AdvanceSchedule
<1>2. ASSUME Ended' PROVE alive' \subseteq Wrapped'
  <2>1. taken + 1 = Len(program)
    BY <1>1, <1>2 DEF Ended
  <2>2. LeavesNothingRaw(program)
    BY <1>1, NextStep, ProgramsAssumption
  <2> QED BY <1>1, <2>1, <2>2 DEF LeavesNothingRaw, Wrapped
<1>3. OnSchedule'
  BY <1>1 DEF OnSchedule
<1> QED BY <1>1, <1>2, <1>3 DEF Settled, InstanceKept

LEMMA AdvanceOwners ==
  ASSUME ObjectsInv, Advance
  PROVE  OwnedOnce' /\ OwnersHoldAlive' /\ ChildrenFirst' /\ ParentsExist'
<1>1. /\ ~Ended /\ DOMAIN owners = DOMAIN program /\ leaked = {} /\ leaked' = {}
      /\ taken + 1 \in DOMAIN program /\ Current.objects \in Seq(STRING)
      /\ DOMAIN program = 1 .. Len(program) /\ taken \in Nat
  BY AdvanceSchedule, NextStep
<1>2. OwnedOnce /\ OwnersHoldAlive /\ ChildrenFirst /\ ParentsExist
  BY DEF ObjectsInv
<1>3. CASE UNCHANGED <<alive, owners>>
  BY <1>1, <1>2, <1>3 DEF OwnedOnce, OwnersHoldAlive, ChildrenFirst, ParentsExist, Wrapped
<1>4. CASE Create
  <2>1. alive' = alive \cup Handled /\ owners' = owners /\ MakesSoundly(Handled, alive)
    BY <1>1, <1>4, NextStep DEF Create, Does, Making
  <2> QED BY <1>1, <1>2, <2>1 DEF OwnedOnce, OwnersHoldAlive, ChildrenFirst, ParentsExist,
             Wrapped, MakesSoundly
<1>5. CASE TakeOver
  <2> DEFINE new == Current.objects
             k == taken + 1
  <2>1. /\ alive' = alive /\ owners' = [owners EXCEPT ![k] = new]
        /\ OwnsSoundly(new, alive, Wrapped)
    BY <1>1, <1>5, NextStep DEF TakeOver, Does
  <2>2. owners[k] = <<>> /\ \A i \in DOMAIN owners : i > k => owners[i] = <<>>
    <3>1. owners = OwnersAfter(program, taken)
      BY <1>1, NextStep
    <3> QED BY <1>1, <3>1 DEF OwnersAfter
  <2>3. /\ DOMAIN owners' = DOMAIN owners /\ owners'[k] = new /\ k \in DOMAIN owners
        /\ \A i \in DOMAIN owners : i # k => owners'[i] = owners[i]
        /\ DOMAIN owners \subseteq Nat
    BY <1>1, <2>1
  <2>4. \A i \in DOMAIN owners : i > k => DOMAIN owners[i] = {}
    BY <2>2
  <2>5. \A i \in DOMAIN owners : \A m \in DOMAIN owners[i] : owners[i][m] \in Wrapped
    BY InOwnedBy DEF Wrapped
  <2>6. \A m \in DOMAIN new : new[m] \in Range(new)
    BY DEF Range
  <2>7. /\ Range(new) \subseteq (alive \cup {"wait"}) \ Wrapped
        /\ \A m, n \in DOMAIN new :
             /\ new[m] = new[n] => m = n
             /\ MustOutlive(new[m], new[n]) => n < m
        /\ \A o \in Range(new), child \in Wrapped : ~MustOutlive(o, child)
    BY <2>1 DEF OwnsSoundly
  <2> HIDE DEF new, k
  <2>8. OwnedOnce'
    <3> SUFFICES ASSUME NEW i \in DOMAIN owners, NEW j \in DOMAIN owners,
                        NEW m \in DOMAIN owners'[i], NEW n \in DOMAIN owners'[j],
                        owners'[i][m] = owners'[j][n]
                 PROVE  i = j /\ m = n
      BY <2>3 DEF OwnedOnce
    <3>1. CASE i # k /\ j # k
      BY <1>2, <2>3, <3>1 DEF OwnedOnce
    <3>2. CASE i = k /\ j = k
      <4>1. m \in DOMAIN new /\ n \in DOMAIN new /\ new[m] = new[n]
        BY <2>3, <3>2
      <4> QED BY <2>7, <3>2, <4>1
    <3>3. CASE (i = k /\ j # k) \/ (i # k /\ j = k)
      BY <2>3, <2>5, <2>6, <2>7, <3>3
    <3> QED BY <3>1, <3>2, <3>3
  <2>9. ChildrenFirst'
    <3> SUFFICES ASSUME NEW i \in DOMAIN owners, NEW j \in DOMAIN owners,
                        NEW m \in DOMAIN owners'[i], NEW n \in DOMAIN owners'[j],
                        MustOutlive(owners'[i][m], owners'[j][n])
                 PROVE  i < j \/ (i = j /\ n < m)
      BY <2>3 DEF ChildrenFirst
    <3>1. CASE i # k /\ j # k
      BY <1>2, <2>3, <3>1 DEF ChildrenFirst
    <3>2. CASE i = k /\ j = k
      <4>1. m \in DOMAIN new /\ n \in DOMAIN new /\ MustOutlive(new[m], new[n])
        BY <2>3, <3>2
      <4> QED BY <2>7, <3>2, <4>1
    <3>3. CASE i = k /\ j # k
      BY <2>3, <2>5, <2>6, <2>7, <3>3
    <3>4. CASE i # k /\ j = k
      <4>1. ~(i > k)
        BY <2>3, <2>4, <3>4
      <4> QED BY <2>3, <3>4, <4>1, <1>1 DEF k
    <3> QED BY <3>1, <3>2, <3>3, <3>4
  <2>10. Wrapped' \subseteq Wrapped \cup Range(new)
    <3> SUFFICES ASSUME NEW o \in Wrapped' PROVE o \in Wrapped \cup Range(new)
      OBVIOUS
    <3>1. PICK i \in DOMAIN owners' : \E m \in DOMAIN owners'[i] : owners'[i][m] = o
      BY InOwnedBy DEF Wrapped
    <3> QED BY <2>3, <2>5, <2>6, <3>1
  <2>11. OwnersHoldAlive'
    BY <1>2, <2>1, <2>7, <2>10 DEF OwnersHoldAlive
  <2> QED BY <1>1, <1>2, <2>1, <2>8, <2>9, <2>11 DEF ParentsExist
<1>6. CASE GiveUp \/ DestroyNow
  <2>1. /\ owners' = WithoutOwner(Handled)
        /\ alive' \in {alive, alive \ Handled}
    BY <1>6 DEF GiveUp, DestroyNow
  <2>2. /\ DOMAIN owners' = DOMAIN owners
        /\ \A i \in DOMAIN owners' :
             \/ owners'[i] = <<>>
             \/ owners'[i] = owners[i] /\ Range(owners[i]) \cap Handled = {}
    BY <2>1 DEF WithoutOwner
  <2>3. \A i \in DOMAIN owners : \A m \in DOMAIN owners'[i] :
          /\ m \in DOMAIN owners[i] /\ owners'[i][m] = owners[i][m]
          /\ owners'[i][m] \notin Handled
    BY <2>2 DEF Range
  <2>4. OwnedOnce' /\ ChildrenFirst'
    BY <1>2, <2>2, <2>3 DEF OwnedOnce, ChildrenFirst
  <2>5. Wrapped' \subseteq Wrapped \ Handled
    <3> SUFFICES ASSUME NEW o \in Wrapped' PROVE o \in Wrapped \ Handled
      OBVIOUS
    <3>1. PICK i \in DOMAIN owners' : \E m \in DOMAIN owners'[i] : owners'[i][m] = o
      BY InOwnedBy DEF Wrapped
    <3> QED BY <2>2, <2>3, <3>1, InOwnedBy DEF Wrapped
  <2>6. OwnersHoldAlive'
    BY <1>2, <2>1, <2>5 DEF OwnersHoldAlive
  <2>7. ParentsExist'
    <3>1. CASE alive' = alive
      BY <1>1, <1>2, <3>1 DEF ParentsExist
    <3>2. CASE DestroyNow
      <4>1. alive' = alive \ Handled /\ DestroysSoundly(Handled, alive)
        BY <1>1, <3>2, NextStep DEF DestroyNow, Does
      <4> QED BY <1>1, <1>2, <4>1 DEF ParentsExist, DestroysSoundly
    <3> QED BY <1>6, <3>1, <3>2 DEF GiveUp
  <2> QED BY <2>4, <2>6, <2>7
<1> QED
  BY <1>3, <1>4, <1>5, <1>6 DEF Advance, Succeed, SubmitWork, AwaitWork, DrawFrames

LEMMA AdvanceInv ==
  ASSUME ObjectsInv, Advance
  PROVE  ObjectsInv'
BY AdvanceSchedule, AdvanceGpu, AdvanceSettled, AdvanceOwners DEF ObjectsInv

LEMMA FailInv ==
  ASSUME ObjectsInv, Fail
  PROVE  ObjectsInv'
<1>1. /\ ~Ended /\ failure' = Current.does /\ Current.does \in Fallible
      /\ program' = program /\ taken' = taken /\ owners' = owners /\ gpu' = gpu
      /\ alive' \in {alive, alive \cup (IF Current.does = "makeEach" THEN Handled ELSE {})}
      /\ leaked' = alive' \ Wrapped
  BY DEF Fail
<1>2. /\ failure = "none" /\ leaked = {}
      /\ Current.does \in Making => MakesSoundly(Handled, alive)
      /\ DeviceInScope(alive \cup (IF Current.does = "makeEach" THEN Handled ELSE {}), Wrapped)
  BY <1>1, NextStep
<1>3. Ended' /\ Wrapped' = Wrapped
  BY <1>1 DEF Ended, Fallible, Wrapped
<1>4. alive \subseteq alive' /\ (alive' = alive \/ (Current.does = "makeEach" /\ alive' = alive \cup Handled))
  BY <1>1
<1>5. ProgramShape' /\ OnSchedule' /\ OwnedOnce' /\ ChildrenFirst'
  BY <1>1, <1>3 DEF ObjectsInv, ProgramShape, OnSchedule, OwnedOnce, ChildrenFirst
<1>6. OwnersHoldAlive' /\ ParentsExist'
  BY <1>1, <1>2, <1>3, <1>4 DEF ObjectsInv, OwnersHoldAlive, ParentsExist, MakesSoundly, Making
<1>7. Settled'
  <2>1. DeviceInScope(alive', Wrapped)
    BY <1>2, <1>4 DEF DeviceInScope
  <2> QED BY <1>1, <1>3, <2>1 DEF Settled, InstanceKept, DeviceInScope
<1>8. GpuAwaited'
  <2> SUFFICES ASSUME gpu # {}, Current.does # "wait" PROVE FALSE
    BY <1>1 DEF GpuAwaited
  <2>1. taken \in DOMAIN program /\ program[taken].does = "submit"
    BY <1>1, <1>2 DEF ObjectsInv, GpuAwaited
  <2>2. FollowsRules(program, taken)
    BY <1>1, <2>1, NextStep, StepOfProgram
  <2>3. program[taken + 1].does = "wait"
    BY <2>1, <2>2 DEF FollowsRules
  <2> QED BY <2>3 DEF Current
<1> QED BY <1>5, <1>6, <1>7, <1>8 DEF ObjectsInv

LEMMA CompletesInv ==
  ASSUME ObjectsInv, WorkCompletes
  PROVE  ObjectsInv'
<1>1. UNCHANGED <<program, taken, alive, owners, failure, leaked>> /\ gpu' = {}
  BY DEF WorkCompletes
<1>2. Ended' = Ended /\ Wrapped' = Wrapped
  BY <1>1 DEF Ended, Wrapped
<1> QED BY <1>1, <1>2 DEF ObjectsInv, ProgramShape, OnSchedule, OwnedOnce, OwnersHoldAlive,
        ChildrenFirst, ParentsExist, Settled, InstanceKept, GpuAwaited

-----------------------------------------------------------------------------

\* The newest wrapper lets its first object go, which nothing in scope needs.
LEMMA DropOwners ==
  ASSUME ObjectsInv, NEW k \in DOMAIN owners, IsNewest(k, owners), owners' = OwnersLeft(k)
  PROVE  /\ owners' \in [DOMAIN program -> Seq(STRING)]
         /\ OwnedOnce' /\ ChildrenFirst'
         /\ Head(owners[k]) \in Wrapped /\ Wrapped' = Wrapped \ {Head(owners[k])}
         /\ \A o \in Wrapped : ~MustOutlive(Head(owners[k]), o)
<1> DEFINE D == DOMAIN program
           s == owners[k]
           t == Tail(s)
           first == Head(s)
<1>1. /\ owners \in [D -> Seq(STRING)] /\ D \subseteq Nat
      /\ OwnedOnce /\ ChildrenFirst
  BY StepOfProgram DEF ObjectsInv, ProgramShape
<1>2. k \in D /\ s \in Seq(STRING) /\ s # <<>>
  BY <1>1 DEF IsNewest
<1>3. /\ t \in Seq(STRING)
      /\ 1 \in DOMAIN s /\ first = s[1]
      /\ \A m \in DOMAIN t : m \in Nat /\ m # 0 /\ m + 1 \in DOMAIN s /\ t[m] = s[m + 1]
      /\ \A m \in DOMAIN s : m = 1 \/ (m - 1 \in DOMAIN t /\ t[m - 1] = s[m])
  BY <1>2, Popped
<1>4. owners' = [owners EXCEPT ![k] = t]
  BY DEF OwnersLeft
<1>5. /\ DOMAIN owners = D /\ DOMAIN owners' = D /\ owners'[k] = t
      /\ \A i \in D : i # k => owners'[i] = owners[i]
      /\ owners' \in [D -> Seq(STRING)]
  BY <1>1, <1>2, <1>3, <1>4
<1>6. \A i \in D : i > k => DOMAIN owners[i] = {}
  BY <1>5 DEF IsNewest
<1>7. \A i \in D : DOMAIN owners[i] \subseteq Nat \ {0}
  BY <1>1
\* Where an object of the new wrappers was in the old.
<1> DEFINE was(i, m) == IF i = k THEN m + 1 ELSE m
<1>8. \A i \in D : \A m \in DOMAIN owners'[i] :
        /\ was(i, m) \in DOMAIN owners[i] /\ owners'[i][m] = owners[i][was(i, m)]
        /\ m \in Nat /\ was(i, m) \in Nat
        /\ owners'[i][m] # first
  <2> SUFFICES ASSUME NEW i \in D, NEW m \in DOMAIN owners'[i]
               PROVE  /\ was(i, m) \in DOMAIN owners[i] /\ owners'[i][m] = owners[i][was(i, m)]
                      /\ m \in Nat /\ was(i, m) \in Nat
                      /\ owners'[i][m] # first
    OBVIOUS
  <2>1. /\ was(i, m) \in DOMAIN owners[i] /\ owners'[i][m] = owners[i][was(i, m)]
        /\ m \in Nat /\ was(i, m) \in Nat /\ (i = k => was(i, m) # 1)
    <3>1. CASE i = k
      BY <3>1, <1>3, <1>5
    <3>2. CASE i # k
      BY <3>2, <1>5, <1>7
    <3> QED BY <3>1, <3>2
  <2> HIDE DEF was
  <2>2. owners[i][was(i, m)] = owners[k][1] => i = k /\ was(i, m) = 1
    BY <1>1, <1>2, <1>3, <1>5, <2>1 DEF OwnedOnce
  <2> QED BY <1>3, <2>1, <2>2
<1>9. OwnedOnce'
  <2> SUFFICES ASSUME NEW i \in D, NEW j \in D,
                      NEW m \in DOMAIN owners'[i], NEW n \in DOMAIN owners'[j],
                      owners'[i][m] = owners'[j][n]
               PROVE  i = j /\ m = n
    BY <1>5 DEF OwnedOnce
  <2>1. i = j /\ was(i, m) = was(j, n) /\ m \in Nat /\ n \in Nat
    <3> HIDE DEF was
    <3> QED BY <1>1, <1>5, <1>8 DEF OwnedOnce
  <2> QED BY <2>1
<1>10. ChildrenFirst'
  <2> SUFFICES ASSUME NEW i \in D, NEW j \in D,
                      NEW m \in DOMAIN owners'[i], NEW n \in DOMAIN owners'[j],
                      MustOutlive(owners'[i][m], owners'[j][n])
               PROVE  i < j \/ (i = j /\ n < m)
    BY <1>5 DEF ChildrenFirst
  <2>1. i < j \/ (i = j /\ was(j, n) < was(i, m))
    <3> HIDE DEF was
    <3> QED BY <1>1, <1>5, <1>8 DEF ChildrenFirst
  <2>2. m \in Nat /\ n \in Nat
    BY <1>8
  <2> QED BY <2>1, <2>2
<1>11. first \in Wrapped
  BY <1>2, <1>3, <1>5, InOwnedBy DEF Wrapped
<1>12. ASSUME NEW o
       PROVE  o \in Wrapped' <=> o \in Wrapped /\ o # first
  <2>1. ASSUME o \in Wrapped' PROVE o \in Wrapped /\ o # first
    <3>1. PICK i \in DOMAIN owners' : \E m \in DOMAIN owners'[i] : owners'[i][m] = o
      BY <2>1, InOwnedBy DEF Wrapped
    <3> HIDE DEF was, first
    <3> QED BY <1>5, <1>8, <3>1, InOwnedBy DEF Wrapped
  <2>2. ASSUME o \in Wrapped, o # first PROVE o \in Wrapped'
    <3>1. PICK i \in DOMAIN owners : \E m \in DOMAIN owners[i] : owners[i][m] = o
      BY <2>2, InOwnedBy DEF Wrapped
    <3>2. PICK m \in DOMAIN owners[i] : owners[i][m] = o
      BY <3>1
    <3>3. \E n \in DOMAIN owners'[i] : owners'[i][n] = o
      <4>1. CASE i = k
        <5>1. m # 1
          BY <1>3, <2>2, <3>2, <4>1
        <5> QED BY <1>3, <1>5, <3>2, <4>1, <5>1
      <4>2. CASE i # k
        BY <1>5, <3>2, <4>2
      <4> QED BY <4>1, <4>2
    <3> QED BY <1>5, <3>3, InOwnedBy DEF Wrapped
  <2> QED BY <2>1, <2>2
<1>13. ASSUME NEW o \in Wrapped PROVE ~MustOutlive(first, o)
  <2>1. PICK i \in DOMAIN owners : \E m \in DOMAIN owners[i] : owners[i][m] = o
    BY InOwnedBy DEF Wrapped
  <2>2. PICK m \in DOMAIN owners[i] : owners[i][m] = o
    BY <2>1
  <2>3. MustOutlive(owners[k][1], owners[i][m]) => k < i \/ (k = i /\ m < 1)
    BY <1>1, <1>2, <1>3, <1>5 DEF ChildrenFirst
  <2>4. ~(k < i) /\ m \in Nat /\ m # 0 /\ ~(m < 1)
    BY <1>1, <1>2, <1>5, <1>6, <1>7
  <2> QED BY <1>3, <2>2, <2>3, <2>4
<1> HIDE DEF first
<1>14. Wrapped' = Wrapped \ {first}
  BY <1>12
<1> QED BY <1>5, <1>9, <1>10, <1>11, <1>13, <1>14 DEF first

LEMMA NewestIsOne ==
  ASSUME ObjectsInv, NEW i, NEW k, IsNewest(i, owners), IsNewest(k, owners)
  PROVE  i = k
<1>1. DOMAIN owners \subseteq Nat
  BY StepOfProgram DEF ObjectsInv, ProgramShape
<1> QED BY <1>1 DEF IsNewest

LEMMA DropWaitsInv ==
  ASSUME ObjectsInv, NEW k \in DOMAIN owners, DropWaits(k)
  PROVE  ObjectsInv'
<1>1. /\ Ended /\ IsNewest(k, owners) /\ Head(owners[k]) = "wait" /\ owners' = OwnersLeft(k)
      /\ UNCHANGED <<program, taken, alive, leaked>>
      /\ \/ gpu' = {} /\ failure' = failure
         \/ failure' = "wait" /\ gpu' = gpu
  BY DEF DropWaits
<1>2. /\ owners' \in [DOMAIN program -> Seq(STRING)]
      /\ OwnedOnce' /\ ChildrenFirst'
      /\ Wrapped' = Wrapped \ {"wait"}
  BY <1>1, DropOwners
<1>3. Ended'
  BY <1>1 DEF Ended
<1>4. ProgramShape' /\ OnSchedule'
  BY <1>1, <1>2, <1>3 DEF ObjectsInv, ProgramShape, OnSchedule
<1>5. OwnersHoldAlive' /\ ParentsExist'
  BY <1>1, <1>2 DEF ObjectsInv, OwnersHoldAlive, ParentsExist
<1>6. Settled'
  BY <1>1, <1>2 DEF ObjectsInv, OwnersHoldAlive, Settled, InstanceKept
<1>7. GpuAwaited'
  BY <1>1 DEF GpuAwaited
<1> QED BY <1>2, <1>4, <1>5, <1>6, <1>7 DEF ObjectsInv

LEMMA DropNextInv ==
  ASSUME ObjectsInv, NEW k \in DOMAIN owners, DropNext(k)
  PROVE  ObjectsInv'
<1> DEFINE first == Head(owners[k])
<1>1. /\ Ended /\ IsNewest(k, owners) /\ first # "wait" /\ owners' = OwnersLeft(k)
      /\ UNCHANGED <<program, taken, gpu, failure, leaked>>
      /\ alive' = alive \ LetGo(first, owners')
  BY DEF DropNext
<1>2. /\ owners' \in [DOMAIN program -> Seq(STRING)]
      /\ OwnedOnce' /\ ChildrenFirst'
      /\ first \in Wrapped /\ Wrapped' = Wrapped \ {first}
      /\ \A o \in Wrapped : ~MustOutlive(first, o)
  BY <1>1, DropOwners
<1>3. /\ "wait" \notin alive /\ Wrapped \subseteq alive \cup {"wait"} /\ ParentsExist
      /\ leaked \subseteq alive /\ leaked \cap Wrapped = {}
      /\ alive \ leaked \subseteq Wrapped \cup {"instance"}
      /\ InstanceKept
  BY <1>1 DEF ObjectsInv, OwnersHoldAlive, Settled
<1> HIDE DEF first
<1>4. Ended'
  BY <1>1 DEF Ended
<1>5. ProgramShape' /\ OnSchedule'
  BY <1>1, <1>2, <1>4 DEF ObjectsInv, ProgramShape, OnSchedule
<1>6. GpuAwaited'
  <2> SUFFICES ASSUME gpu # {}, failure # "wait" PROVE FALSE
    BY <1>1 DEF GpuAwaited
  <2>1. PICK i \in DOMAIN owners : IsNewest(i, owners) /\ Head(owners[i]) = "wait"
    BY <1>1 DEF ObjectsInv, GpuAwaited
  <2>2. i = k
    BY <1>1, <2>1, NewestIsOne
  <2> QED BY <1>1, <2>1, <2>2 DEF first
\* What goes had an owner, or was the Instance that only the Device kept.
<1>7. OwnersHoldAlive' /\ ParentsExist' /\ Settled'
  <2>1. CASE first = "instance" /\ "device" \in alive
    <3>1. LetGo(first, owners') = {}
      BY <2>1 DEF LetGo
    <3>2. alive' = alive /\ Wrapped' = Wrapped \ {"instance"} /\ leaked' = leaked
      BY <1>1, <1>2, <2>1, <3>1
    <3>3. \A o \in Wrapped : "instance" \in Parents(o) => o = "device"
      BY <1>2, <2>1 DEF MustOutlive
    <3> QED BY <1>3, <2>1, <3>2, <3>3 DEF OwnersHoldAlive, ParentsExist, Settled, InstanceKept
  <2>2. CASE first = "instance" /\ "device" \notin alive
    <3>1. LetGo(first, owners') = {"instance"}
      BY <2>2 DEF LetGo
    <3>2. /\ alive' = alive \ {"instance"} /\ Wrapped' = Wrapped \ {"instance"}
          /\ leaked' = leaked
      BY <1>1, <1>2, <2>2, <3>1
    <3>3. \A o \in alive' \ leaked : "instance" \notin Parents(o)
      <4>1. \A o \in alive' \ leaked : o \in Wrapped /\ o # "device"
        BY <1>3, <2>2, <3>2
      <4> QED BY <1>2, <2>2, <4>1 DEF MustOutlive
    <3> QED BY <1>2, <1>3, <2>2, <3>2, <3>3 DEF OwnersHoldAlive, ParentsExist, Settled, InstanceKept
  <2>3. CASE first = "device"
    <3>1. LetGo(first, owners') = {"device"} \cup ({"instance"} \ Wrapped')
      BY <2>3 DEF LetGo, Wrapped
    <3>2. /\ Wrapped' = Wrapped \ {"device"} /\ leaked' = leaked
          /\ alive' = alive \ ({"device"} \cup ({"instance"} \ Wrapped))
      BY <1>1, <1>2, <2>3, <3>1
    <3>3. \A o \in alive' \ leaked : o \in Wrapped /\ o # "device"
      BY <1>3, <3>2
    <3>4. "device" \in alive /\ "instance" \notin leaked
      BY <1>1, <1>2, <1>3, <2>3 DEF InstanceKept
    <3>5. \A o \in alive' \ leaked : "device" \notin Parents(o)
      BY <1>2, <2>3, <3>3 DEF MustOutlive
    <3>6. ParentsExist'
      <4> SUFFICES ASSUME NEW o \in alive' \ leaked, NEW q \in Parents(o)
                   PROVE  q \in alive'
        BY <3>2 DEF ParentsExist
      <4>1. q \in alive /\ q # "device"
        BY <1>3, <3>2, <3>5 DEF ParentsExist
      <4>2. q = "instance" => q \in Wrapped
        BY <1>3, <3>3, <3>4, <4>1 DEF InstanceKept
      <4> QED BY <3>2, <4>1, <4>2
    <3> QED BY <1>1, <1>3, <2>3, <3>2, <3>4, <3>6 DEF OwnersHoldAlive, Settled, InstanceKept
  <2>4. CASE first \notin {"instance", "device"}
    <3>1. LetGo(first, owners') = {first}
      BY <2>4 DEF LetGo
    <3>2. alive' = alive \ {first} /\ Wrapped' = Wrapped \ {first} /\ leaked' = leaked
      BY <1>1, <1>2, <3>1
    <3>3. \A o \in alive' \ leaked : first \notin Parents(o)
      <4>1. \A o \in Wrapped : first \notin Parents(o)
        BY <1>2, <2>4 DEF MustOutlive
      <4>2. Parents("instance") = {}
        BY DEF Parents
      <4> QED BY <1>3, <3>2, <4>1, <4>2
    <3>4. OwnersHoldAlive' /\ ParentsExist'
      BY <1>3, <3>2, <3>3 DEF OwnersHoldAlive, ParentsExist
    <3> QED BY <1>2, <1>3, <2>4, <3>2, <3>4 DEF Settled, InstanceKept
  <2> QED BY <2>1, <2>2, <2>3, <2>4
<1> QED BY <1>2, <1>5, <1>6, <1>7 DEF ObjectsInv

-----------------------------------------------------------------------------

LEMMA ObjectsInit == ProgramInit => ObjectsInv
<1> SUFFICES ASSUME ProgramInit PROVE ObjectsInv
  OBVIOUS
<1>1. /\ program \in Programs /\ taken = 0 /\ alive = {} /\ gpu = {} /\ leaked = {}
      /\ failure = "none" /\ owners = [i \in DOMAIN program |-> <<>>]
  BY DEF ProgramInit
<1>2. DOMAIN program = 1 .. Len(program) /\ Len(program) \in Nat
  BY <1>1, StepOfProgram
<1>3. ProgramShape
  <2>1. <<>> \in Seq(STRING)
    OBVIOUS
  <2>2. 0 \in 0 .. Len(program)
    BY <1>2
  <2> QED BY <1>1, <2>1, <2>2 DEF ProgramShape
<1>4. Wrapped = {}
  BY <1>1 DEF Wrapped, OwnedBy, Range
<1>5. OnSchedule
  <2>1. AliveAfter(program, 0) = {}
    BY DEF AliveAfter
  <2>2. OwnersAfter(program, 0) = [i \in DOMAIN program |-> <<>>]
    <3>1. \A i \in DOMAIN program : ~(i <= 0)
      BY <1>2
    <3> QED BY <3>1 DEF OwnersAfter
  <2> QED BY <1>1, <2>1, <2>2 DEF OnSchedule
<1>6. OwnedOnce /\ ChildrenFirst
  BY <1>1 DEF OwnedOnce, ChildrenFirst
<1> QED
  BY <1>1, <1>3, <1>4, <1>5, <1>6 DEF ObjectsInv, OwnersHoldAlive, ParentsExist, Settled,
     InstanceKept, GpuAwaited

LEMMA ObjectsInvariant == ProgramSpec => []ObjectsInv
<1>1. ObjectsInv /\ [ProgramNext]_objectVars => ObjectsInv'
  <2> SUFFICES ASSUME ObjectsInv, [ProgramNext]_objectVars PROVE ObjectsInv'
    OBVIOUS
  <2>1. CASE Advance
    BY <2>1, AdvanceInv
  <2>2. CASE Fail
    BY <2>2, FailInv
  <2>3. CASE Unwind
    BY <2>3, DropNextInv, DropWaitsInv DEF Unwind
  <2>4. CASE WorkCompletes
    BY <2>4, CompletesInv
  <2>5. CASE UNCHANGED objectVars
    BY <2>5 DEF objectVars, ObjectsInv, ProgramShape, OnSchedule, OwnedOnce, OwnersHoldAlive,
       ChildrenFirst, ParentsExist, Settled, InstanceKept, GpuAwaited, Ended, Wrapped
  <2> QED BY <2>1, <2>2, <2>3, <2>4, <2>5 DEF ProgramNext, Advance
<1> QED BY <1>1, ObjectsInit, PTL DEF ProgramSpec

\* Whichever program runs, whichever of its calls fails, and however far the queue
\* has come by then: the drops of lib.rs and of SwapchainRenderer destroy nothing
\* that another object, or the executing command buffer, still needs.
THEOREM NeededObjectsKept == ProgramSpec => []NothingNeededIsDestroyed
<1>1. ObjectsInv => NothingNeededIsDestroyed
  BY DEF ObjectsInv, ParentsExist, GpuAwaited, NothingNeededIsDestroyed
<1> QED BY <1>1, ObjectsInvariant, PTL

\* An object in scope has one owner and exists: the drop of a wrapper destroys no
\* handle that was moved out of it, given to another or destroyed by hand.
THEOREM OwnersDisjoint == ProgramSpec => []DestroyedOnce
<1>1. ObjectsInv => DestroyedOnce
  BY DEF ObjectsInv, OwnersHoldAlive, OwnedOnce, DestroyedOnce, Range
<1> QED BY <1>1, ObjectsInvariant, PTL

\* When the scope has unwound, what is left are the raw handles that the failed
\* call found without a wrapper, and after a program that succeeds nothing.
THEOREM WrappersLeaveNothing == ProgramSpec => []EndsClean
<1>1. ObjectsInv => EndsClean
  BY DEF ObjectsInv, Settled, InstanceKept, EndsClean
<1> QED BY <1>1, ObjectsInvariant, PTL
=============================================================================
