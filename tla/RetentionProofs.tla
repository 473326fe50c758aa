-------------------------- MODULE RetentionProofs --------------------------
(* Proofs about Retention for any objects, attributes and masks: flags are  *)
(* copied before they change, and what was saved is what comes back.        *)
EXTENDS Retention, TLAPS

(* What the file says about the state at the last save.  Of a flag with a   *)
(* copy there is a line exactly if it was not as configured.                *)
LineOf(x) ==
    /\ Kind(x) = "program" /\ IsFlag(x) => file.value[x] = saved.val[x]
    /\ ~IsFlag(x) /\ ~(Kind(x) = "host" /\ Attr(x) = "retry_interval")
         => file.value[x] = saved.val[x]
    /\ Tracked(x) => IF saved.val[x] = saved.conf[x] THEN file.value[x] = NONE
                     ELSE file.value[x] = saved.val[x] /\ file.config[x] = saved.conf[x]

FileInv ==
    saved # NONE =>
        /\ file # NONE
        /\ file.modified = {x \in saved.modified : ~MaskedOnSave(x)}
        /\ \A x \in watched : LineOf(x)

IndInv == TypeOK /\ StashIsConfigured /\ FileInv

-----------------------------------------------------------------------------
(* The attributes of a scene are pairs.                                     *)
LEMMA WatchedPairs ==
    ASSUME TypeOK, NEW x \in watched
    PROVE  x = <<Obj(x), Attr(x)>> /\ Obj(x) \in Objects
  BY SceneAssumption DEF TypeOK, Obj, Attr

(* pre_modify copies only what has no copy.                                 *)
LEMMA PreModifyType ==
    ASSUME TypeOK, NEW st \in [watched -> {NONE} \cup 0..2], NEW v \in [watched -> 0..2], NEW objs
    PROVE  pre_modify(st, v, objs) \in [watched -> {NONE} \cup 0..2]
  BY DEF pre_modify

(* What is written is a file about the scene.                               *)
LEMMA WrittenType ==
    ASSUME TypeOK
    PROVE  /\ Written \in Files(watched)
           /\ Written # NONE
           /\ \A x \in watched : Written.value[x] \in {NONE} \cup Values(x)
<1> USE DEF TypeOK
<1>1. \A x \in watched : ~IsFlag(x) => WrittenSetting(x) \in 1..2
  <2> SUFFICES ASSUME NEW x \in watched, ~IsFlag(x) PROVE WrittenSetting(x) \in 1..2
    OBVIOUS
  <2>1. CASE Kind(x) = "host" /\ Attr(x) = "retry_interval"
    <3> DEFINE y == <<Obj(x), "check_interval">>
    <3>1. y \in watched
      BY <2>1, SceneAssumption DEF Kind, Obj, Attr
    <3>2. ~IsFlag(y)
      BY DEF IsFlag, Attr, Settings
    <3>3. val[y] \in 1..2
      BY <3>1, <3>2 DEF Values
    <3> QED
      BY <2>1, <3>3 DEF WrittenSetting
  <2>2. CASE ~(Kind(x) = "host" /\ Attr(x) = "retry_interval")
    BY <2>2 DEF WrittenSetting, Values
  <2> QED
    BY <2>1, <2>2
<1> DEFINE value == [x \in watched |->
                  IF ~IsFlag(x) THEN WrittenSetting(x)
                  ELSE IF Kind(x) = "program" \/ FlagWritten(x) THEN val[x] ELSE NONE]
           config == [x \in watched |->
                  IF IsFlag(x) /\ Kind(x) # "program" /\ FlagWritten(x) THEN stash[x] ELSE NONE]
           bits == {x \in modified : ~MaskedOnSave(x)}
<1>2. \A x \in watched : value[x] \in {NONE} \cup Values(x)
  BY <1>1 DEF Values
<1>3. value \in [watched -> {NONE} \cup 0..2]
  <2>1. \A x \in watched : Values(x) \subseteq 0..2
    BY DEF Values
  <2> HIDE DEF TypeOK
  <2> QED
    BY <1>2, <2>1
<1>4. config \in [watched -> {NONE} \cup 0..2]
  OBVIOUS
<1>5. bits \in SUBSET watched
  OBVIOUS
<1>6. Written = [modified |-> bits, value |-> value, config |-> config]
  BY DEF Written
<1> HIDE DEF value, config, bits
<1>7. Written \in Files(watched)
  BY <1>3, <1>4, <1>5, <1>6 DEF Files
<1>8. Written # NONE
  BY <1>7, NoneAssumption
<1>9. \A x \in watched : Written.value[x] \in {NONE} \cup Values(x)
  BY <1>2, <1>6
<1> QED
  BY <1>7, <1>8, <1>9

(* What is written, by the configuration at the save.                       *)
LEMMA WrittenLines ==
    ASSUME TypeOK, StashIsConfigured, running
    PROVE  /\ Written.modified = {x \in modified : ~MaskedOnSave(x)}
           /\ \A x \in watched :
                /\ Kind(x) = "program" /\ IsFlag(x) => Written.value[x] = val[x]
                /\ ~IsFlag(x) /\ ~(Kind(x) = "host" /\ Attr(x) = "retry_interval")
                     => Written.value[x] = val[x]
                /\ Tracked(x) => IF val[x] = conf[x] THEN Written.value[x] = NONE
                                 ELSE Written.value[x] = val[x] /\ Written.config[x] = conf[x]
<1>1. Written.modified = {x \in modified : ~MaskedOnSave(x)}
  BY DEF Written
<1>2. \A x \in watched :
        /\ Written.value[x] = IF ~IsFlag(x) THEN WrittenSetting(x)
             ELSE IF Kind(x) = "program" \/ FlagWritten(x) THEN val[x] ELSE NONE
        /\ Written.config[x] =
             IF IsFlag(x) /\ Kind(x) # "program" /\ FlagWritten(x) THEN stash[x] ELSE NONE
  BY DEF Written
<1>3. \A x \in watched : Tracked(x) =>
        /\ IsFlag(x) /\ Kind(x) # "program"
        /\ FlagWritten(x) <=> val[x] # conf[x]
        /\ val[x] # conf[x] => stash[x] = conf[x]
  BY DEF Tracked, FlagWritten, StashIsConfigured
<1> QED
  BY <1>1, <1>2, <1>3 DEF WrittenSetting

(* Reading keeps copies right if they were right for the values before.     *)
LEMMA ReadEffect ==
    ASSUME TypeOK, NEW v \in [watched -> 0..2], NEW st \in [watched -> {NONE} \cup 0..2],
           \A x \in watched : v[x] \in Values(x),
           NEW ps, Read(v, st, ps), watched' = watched
    PROVE  /\ val' \in [watched -> 0..2] /\ \A x \in watched : val'[x] \in Values(x)
           /\ stash' \in [watched -> {NONE} \cup 0..2]
           /\ \A x \in watched : IsFlag(x) =>
                IF stash'[x] = NONE THEN st[x] = NONE /\ val'[x] = v[x]
                ELSE stash'[x] = IF st[x] = NONE THEN v[x] ELSE st[x]
<1>1. CASE file = NONE
  BY <1>1 DEF Read
<1>2. CASE file # NONE
  <2> DEFINE back == {x \in watched : Restored(x, v, ps)}
             objs == {Obj(x) : x \in {y \in back : IsFlag(y)}}
  <2>1. /\ val' = [x \in watched |-> IF x \in back THEN file.value[x] ELSE v[x]]
        /\ stash' = pre_modify(st, v, objs)
    BY <1>2 DEF Read
  <2>2. \A x \in back : file.value[x] \in Values(x)
    BY <1>2 DEF TypeOK, Restored
  <2>3. \A x \in watched : val'[x] \in Values(x)
    BY <2>1, <2>2
  <2>4. \A x \in watched : Values(x) \subseteq 0..2
    BY DEF Values
  <2>5. val' \in [watched -> 0..2]
    BY <2>1, <2>3, <2>4
  <2>6. stash' \in [watched -> {NONE} \cup 0..2]
    BY <2>1, PreModifyType
  <2>7. \A x \in back : IsFlag(x) => Obj(x) \in objs
    OBVIOUS
  <2> HIDE DEF back, objs
  <2>8. ASSUME NEW x \in watched, IsFlag(x)
        PROVE  IF stash'[x] = NONE THEN st[x] = NONE /\ val'[x] = v[x]
               ELSE stash'[x] = IF st[x] = NONE THEN v[x] ELSE st[x]
    <3>1. stash'[x] = IF Obj(x) \in objs /\ st[x] = NONE THEN v[x] ELSE st[x]
      BY <2>1 DEF pre_modify
    <3>2. v[x] # NONE
      BY NoneAssumption
    <3>3. Obj(x) \notin objs => val'[x] = v[x]
      BY <2>1, <2>7, <2>8
    <3> QED
      BY <3>1, <3>2, <3>3
  <2> QED
    BY <2>3, <2>5, <2>6, <2>8
<1> QED
  BY <1>1, <1>2

-----------------------------------------------------------------------------
(* A step that changes neither the file nor what is watched keeps FileInv.  *)
LEMMA FileSame ==
    ASSUME FileInv, UNCHANGED <<watched, file, saved>>
    PROVE  FileInv'
  BY DEF FileInv, LineOf

(* A save, whether it succeeds or not.                                      *)
LEMMA SaveStep ==
    ASSUME IndInv, running, NEW ok \in BOOLEAN, Saved(ok), running' \in BOOLEAN,
           UNCHANGED <<watched, conf, val, modified, stash, periods>>
    PROVE  IndInv'
<1> USE DEF IndInv
<1>1. StashIsConfigured'
  BY DEF StashIsConfigured
<1>2. CASE ~ok
  <2>1. file' = file /\ saved' = saved
    BY <1>2 DEF Saved
  <2>2. TypeOK'
    BY <2>1 DEF TypeOK
  <2> QED
    BY <1>1, <2>1, <2>2, FileSame
<1>3. CASE ok
  <2>1. file' = Written /\ saved' = [conf |-> conf, val |-> val, modified |-> modified]
    BY <1>3 DEF Saved, Snapshot
  <2>2. TypeOK'
    <3>1. file' \in Files(watched) /\ \A x \in watched : file'.value[x] \in {NONE} \cup Values(x)
      BY <2>1, WrittenType
    <3>2. saved' \in [conf : [watched -> 0..2], val : [watched -> 0..2], modified : SUBSET watched]
      BY <2>1 DEF TypeOK
    <3> QED
      BY <3>1, <3>2 DEF TypeOK
  <2>3. FileInv'
    <3>1. file' # NONE
      BY <2>1, WrittenType
    <3>2. saved'.conf = conf /\ saved'.val = val /\ saved'.modified = modified
      BY <2>1
    <3>3. file'.modified = {x \in saved'.modified : ~MaskedOnSave(x)}
      BY <2>1, <3>2, WrittenLines
    <3>4. \A x \in watched :
            /\ Kind(x) = "program" /\ IsFlag(x) => file'.value[x] = val[x]
            /\ ~IsFlag(x) /\ ~(Kind(x) = "host" /\ Attr(x) = "retry_interval")
                 => file'.value[x] = val[x]
            /\ Tracked(x) => IF val[x] = conf[x] THEN file'.value[x] = NONE
                             ELSE file'.value[x] = val[x] /\ file'.config[x] = conf[x]
      BY <2>1, WrittenLines
    <3>5. \A x \in watched : LineOf(x)'
      BY <3>2, <3>4 DEF LineOf
    <3> QED
      BY <3>1, <3>3, <3>5 DEF FileInv
  <2> QED
    BY <1>1, <2>2, <2>3
<1> QED
  BY <1>2, <1>3

(* A command that sets a flag.                                              *)
LEMMA SetFlagStep ==
    ASSUME IndInv, NEW objs \in SUBSET Objects, NEW y \in watched, IsFlag(y), NEW v \in 0..1,
           SetFlag(objs, Attr(y), v)
    PROVE  IndInv'
<1> USE DEF IndInv
<1> DEFINE a == Attr(y)
           ch == Changing(objs, a, v)
<1>1. /\ val' = [x \in watched |-> IF Obj(x) \in ch /\ Attr(x) = a THEN v ELSE val[x]]
      /\ modified' = modified \cup {<<o, a>> : o \in ch}
      /\ stash' = IF Stashes(a) THEN pre_modify(stash, val, ch) ELSE stash
      /\ UNCHANGED <<watched, running, conf, periods, file, saved>>
  BY DEF SetFlag
<1>2. \A o \in ch : <<o, a>> \in watched
  BY DEF Changing
<1>3. \A x \in watched : Attr(x) = a => IsFlag(x)
  BY DEF IsFlag
<1> HIDE DEF a, ch
<1>4. \A x \in watched : val'[x] \in Values(x) /\ val'[x] \in 0..2
  BY <1>1, <1>3 DEF TypeOK, Values
<1>5. val' \in [watched -> 0..2]
  BY <1>1, <1>4
<1>6. modified' \subseteq watched
  BY <1>1, <1>2 DEF TypeOK
<1>7. stash' \in [watched -> {NONE} \cup 0..2]
  BY <1>1, PreModifyType DEF TypeOK
<1>8. TypeOK'
  BY <1>1, <1>4, <1>5, <1>6, <1>7 DEF TypeOK
<1>9. StashIsConfigured'
  <2> SUFFICES ASSUME running, NEW x \in watched, Tracked(x)
               PROVE  IF stash'[x] = NONE THEN val'[x] = conf[x] ELSE stash'[x] = conf[x]
    BY <1>1 DEF StashIsConfigured
  <2>1. IF stash[x] = NONE THEN val[x] = conf[x] ELSE stash[x] = conf[x]
    BY DEF StashIsConfigured
  <2>2. conf[x] # NONE
    BY NoneAssumption DEF TypeOK
  <2>3. CASE ~Stashes(a)
    BY <1>1, <2>1, <2>3 DEF Tracked
  <2>4. CASE Stashes(a)
    <3>1. stash'[x] = IF Obj(x) \in ch /\ stash[x] = NONE THEN val[x] ELSE stash[x]
      BY <1>1, <2>4 DEF pre_modify
    <3>2. Obj(x) \notin ch => val'[x] = val[x]
      BY <1>1
    <3> QED
      BY <2>1, <2>2, <3>1, <3>2
  <2> QED
    BY <2>3, <2>4
<1> QED
  BY <1>1, <1>8, <1>9, FileSame

(* A command that changes a setting.                                        *)
LEMMA SetSettingStep ==
    ASSUME IndInv, NEW y \in watched, NEW v \in 1..2, SetSetting(y, v)
    PROVE  IndInv'
<1> USE DEF IndInv
<1>1. /\ ~IsFlag(y) /\ val' = [val EXCEPT ![y] = v]
      /\ modified' \in {modified, modified \cup {y}}
      /\ UNCHANGED <<watched, running, conf, stash, periods, file, saved>>
  BY DEF SetSetting
<1>2. \A x \in watched : val'[x] = IF x = y THEN v ELSE val[x]
  BY <1>1 DEF TypeOK
<1>3. TypeOK'
  <2>1. val' \in [watched -> 0..2]
    BY <1>1 DEF TypeOK
  <2>2. \A x \in watched : val'[x] \in Values(x)
    BY <1>1, <1>2 DEF TypeOK, Values
  <2> QED
    BY <1>1, <2>1, <2>2 DEF TypeOK
<1>4. StashIsConfigured'
  BY <1>1, <1>2 DEF StashIsConfigured, Tracked
<1> QED
  BY <1>1, <1>3, <1>4, FileSame

(* The file is read while the program runs.                                 *)
LEMMA ReadAgainStep == ASSUME IndInv, ReadAgain PROVE IndInv'
<1> USE DEF IndInv
<1>1. /\ running /\ Read(val, stash, periods)
      /\ modified' = IF file = NONE THEN modified ELSE ReadModified(periods)
      /\ UNCHANGED <<watched, running, conf, periods, file, saved>>
  BY DEF ReadAgain
<1>2. /\ val' \in [watched -> 0..2] /\ \A x \in watched : val'[x] \in Values(x)
      /\ stash' \in [watched -> {NONE} \cup 0..2]
      /\ \A x \in watched : IsFlag(x) =>
           IF stash'[x] = NONE THEN stash[x] = NONE /\ val'[x] = val[x]
           ELSE stash'[x] = IF stash[x] = NONE THEN val[x] ELSE stash[x]
  BY <1>1, ReadEffect DEF TypeOK
<1>3. modified' \subseteq watched
  BY <1>1 DEF TypeOK, Files, ReadModified
<1>4. TypeOK'
  BY <1>1, <1>2, <1>3 DEF TypeOK
<1>5. StashIsConfigured'
  BY <1>1, <1>2 DEF StashIsConfigured, Tracked
<1> QED
  BY <1>1, <1>4, <1>5, FileSame

(* The program comes up.                                                    *)
LEMMA StartStep ==
    ASSUME IndInv, NEW c \in NextConfs, NEW ps \in SUBSET (1..2), Valid(c, ps), Start(c, ps)
    PROVE  /\ IndInv'
           /\ c \in [watched -> 0..2]
           /\ conf' = c /\ periods' = ps
           /\ UNCHANGED <<watched, file, saved>>
<1> USE DEF IndInv
<1>1. /\ running' = TRUE /\ conf' = c /\ periods' = ps
      /\ Read(c, [x \in watched |-> NONE], ps)
      /\ modified' = IF file = NONE THEN {} ELSE ReadModified(ps)
      /\ UNCHANGED <<watched, file, saved>>
  BY DEF Start
<1>2. c \in [watched -> 0..2] /\ \A x \in watched : c[x] \in Values(x)
  BY DEF NextConfs, Valid, TypeOK
<1>3. [x \in watched |-> NONE] \in [watched -> {NONE} \cup 0..2]
  OBVIOUS
<1>4. /\ val' \in [watched -> 0..2] /\ \A x \in watched : val'[x] \in Values(x)
      /\ stash' \in [watched -> {NONE} \cup 0..2]
      /\ \A x \in watched : IsFlag(x) =>
           IF stash'[x] = NONE THEN val'[x] = c[x] ELSE stash'[x] = c[x]
  <2> DEFINE st == [x \in watched |-> NONE]
  <2>1. \A x \in watched : st[x] = NONE
    OBVIOUS
  <2>2. /\ val' \in [watched -> 0..2] /\ \A x \in watched : val'[x] \in Values(x)
        /\ stash' \in [watched -> {NONE} \cup 0..2]
        /\ \A x \in watched : IsFlag(x) =>
             IF stash'[x] = NONE THEN st[x] = NONE /\ val'[x] = c[x]
             ELSE stash'[x] = IF st[x] = NONE THEN c[x] ELSE st[x]
    <3> st \in [watched -> {NONE} \cup 0..2] /\ Read(c, st, ps) /\ watched' = watched
      BY <1>1, <1>3
    <3> HIDE DEF st
    <3> QED
      BY <1>2, ReadEffect
  <2> HIDE DEF st
  <2> QED
    BY <2>1, <2>2
<1>5. modified' \subseteq watched
  BY <1>1 DEF TypeOK, Files, ReadModified
<1>6. TypeOK'
  BY <1>1, <1>2, <1>4, <1>5 DEF TypeOK
<1>7. StashIsConfigured'
  BY <1>1, <1>4 DEF StashIsConfigured, Tracked
<1> QED
  BY <1>1, <1>2, <1>6, <1>7, FileSame

LEMMA InitInv == ASSUME Init PROVE IndInv
<1>1. TypeOK
  BY DEF Init, TypeOK, Values
<1>2. StashIsConfigured /\ FileInv
  BY DEF Init, StashIsConfigured, FileInv
<1> QED
  BY <1>1, <1>2 DEF IndInv

LEMMA NextInv == ASSUME IndInv, [Next]_vars PROVE IndInv'
<1>1. ASSUME NEW S \in SUBSET Objects, NEW x \in watched, IsFlag(x), NEW v \in 0..1,
             SetFlag(S, Attr(x), v)
      PROVE  IndInv'
  BY <1>1, SetFlagStep
<1>2. ASSUME NEW x \in watched, NEW v \in 1..2, SetSetting(x, v) PROVE IndInv'
  BY <1>2, SetSettingStep
<1>3. ASSUME NEW o \in Objects, NEW S \in SUBSET {x \in watched : Obj(x) = o},
             SetModifiedAttributes(o, S)
      PROVE  IndInv'
  <2>1. /\ modified' \subseteq watched
        /\ UNCHANGED <<watched, running, conf, val, stash, periods, file, saved>>
    BY <1>3 DEF SetModifiedAttributes, IndInv, TypeOK
  <2>2. TypeOK' /\ StashIsConfigured'
    BY <2>1 DEF IndInv, TypeOK, StashIsConfigured
  <2> QED
    BY <2>1, <2>2, FileSame DEF IndInv
<1>4. ASSUME NEW ok \in BOOLEAN, Save(ok) \/ Stop(ok) PROVE IndInv'
  <2>1. running' \in BOOLEAN
    BY <1>4 DEF Save, Stop, IndInv, TypeOK
  <2> QED
    BY <1>4, <2>1, SaveStep DEF Save, Stop
<1>5. ASSUME ReadAgain PROVE IndInv'
  BY <1>5, ReadAgainStep
<1>6. ASSUME Crash PROVE IndInv'
  <2>1. /\ running' = FALSE
        /\ UNCHANGED <<watched, conf, val, modified, stash, periods, file, saved>>
    BY <1>6 DEF Crash
  <2>2. TypeOK' /\ StashIsConfigured'
    BY <2>1 DEF IndInv, TypeOK, StashIsConfigured
  <2> QED
    BY <2>1, <2>2, FileSame DEF IndInv
<1>7. ASSUME UNCHANGED vars PROVE IndInv'
  <2>1. TypeOK' /\ StashIsConfigured'
    BY <1>7 DEF IndInv, TypeOK, StashIsConfigured, vars
  <2> QED
    BY <1>7, <2>1, FileSame DEF IndInv, vars
<1>8. ASSUME NEW c \in NextConfs, NEW ps \in SUBSET (1..2), Valid(c, ps), Start(c, ps)
      PROVE  IndInv'
  BY <1>8, StartStep
<1> QED
  BY <1>1, <1>2, <1>3, <1>4, <1>5, <1>6, <1>7, <1>8 DEF Next, Changes, Upkeep

-----------------------------------------------------------------------------
(* The copy that pre_modify takes of an object holds the configured values  *)
(* of its flags, through any commands, saves, reads and restarts.           *)
THEOREM CopiesAreConfigured == Spec => []StashIsConfigured
<1>1. IndInv => StashIsConfigured
  BY DEF IndInv
<1> QED
  BY <1>1, InitInv, NextInv, PTL DEF Spec

(* What reading the file does to one attribute as the program comes up.     *)
LEMMA StartKeeps ==
    ASSUME MasksAgree, IndInv, saved # NONE,
           NEW c \in NextConfs, NEW ps \in SUBSET (1..2), Valid(c, ps), Start(c, ps),
           NEW x \in watched, Attr(x) # "obsess",
           ~(Kind(x) = "host" /\ Attr(x) = "retry_interval")
    PROVE  Kept(x, Unretained \cup Statusless)
<1> USE DEF IndInv
<1>1. /\ c \in [watched -> 0..2] /\ conf' = c /\ periods' = ps
      /\ Read(c, [y \in watched |-> NONE], ps)
      /\ UNCHANGED <<watched, file, saved>>
  BY StartStep DEF Start
<1>2. /\ file # NONE
      /\ file.modified = {y \in saved.modified : ~MaskedOnSave(y)}
      /\ LineOf(x)
  BY DEF FileInv
<1>3. val'[x] = IF Restored(x, c, ps) THEN file.value[x] ELSE c[x]
  BY <1>1, <1>2 DEF Read
<1>4. saved.val[x] # NONE /\ saved.conf[x] # NONE /\ c[x] # NONE
  <2>1. saved.val \in [watched -> 0..2] /\ saved.conf \in [watched -> 0..2]
    BY DEF TypeOK
  <2>2. saved.val[x] \in 0..2 /\ saved.conf[x] \in 0..2 /\ c[x] \in 0..2
    BY <1>1, <2>1
  <2> QED
    BY <2>2, NoneAssumption
<1>5. Kind(x) \in {"program", "host", "service", "contact"}
  BY WatchedPairs, KindAssumption DEF Kind, Obj
<1>6. ~MaskedOnSave(x) => ~MaskedOnRead(x)
  <2>1. Side(x) \in {"host", "service"}
    BY DEF Side
  <2>2. Of(x) # "contact" => Of(x) \in {"program", "object"}
    BY <1>5 DEF Of
  <2> QED
    BY <2>1, <2>2 DEF MaskedOnSave, MaskedOnRead, SideRead, MasksAgree
<1> DEFINE retained == /\ x \in saved.modified
                       /\ Obj(x) \notin Unretained \cup Statusless
                       /\ ~MaskedOnSave(x)
           same == c[x] = saved.conf[x]
<1>7. x \in ReadModified(ps) /\ ReadsSettings(Obj(x)) => retained
  BY <1>2 DEF ReadModified, ReadsSettings
<1>8. retained /\ (Attr(x) \in Periods => file.value[x] \in ps) => x \in ReadModified(ps)
  BY <1>2, <1>6 DEF ReadModified
<1>9. IsFlag(x) => Attr(x) \notin Periods
  BY DEF IsFlag, Settings
<1> HIDE DEF retained, same
<1>10. ASSUME retained, same, Attr(x) \in Periods => saved.val[x] \in ps
       PROVE  val'[x] = saved.val[x]
  <2>0. ReadsSettings(Obj(x))
    BY <1>10 DEF retained, ReadsSettings
  <2>1. CASE ~IsFlag(x)
    <3>1. file.value[x] = saved.val[x]
      BY <1>2, <2>1 DEF LineOf
    <3>2. Restored(x, c, ps)
      BY <1>4, <1>8, <1>10, <2>0, <2>1, <3>1 DEF Restored, RestoredSetting
    <3> QED
      BY <1>3, <3>1, <3>2
  <2>2. CASE IsFlag(x) /\ Kind(x) = "program"
    <3>1. file.value[x] = saved.val[x]
      BY <1>2, <2>2 DEF LineOf
    <3>2. Restored(x, c, ps)
      BY <1>4, <1>8, <1>9, <1>10, <2>0, <2>2, <3>1 DEF Restored, RestoredProgram
    <3> QED
      BY <1>3, <3>1, <3>2
  <2>3. CASE IsFlag(x) /\ Kind(x) # "program"
    <3>1. Tracked(x)
      BY <2>3 DEF Tracked, Stashes
    <3>2. CASE saved.val[x] = saved.conf[x]
      <4>1. ~Restored(x, c, ps)
        BY <1>2, <3>1, <3>2 DEF LineOf, Restored
      <4> QED
        BY <1>3, <1>10, <3>2, <4>1 DEF same
    <3>3. CASE saved.val[x] # saved.conf[x]
      <4>1. file.value[x] = saved.val[x] /\ file.config[x] = c[x]
        BY <1>2, <1>10, <3>1, <3>3 DEF LineOf, same
      <4>2. Restored(x, c, ps)
        BY <1>4, <1>8, <1>9, <1>10, <2>0, <2>3, <4>1
           DEF Restored, RestoredFlag, RestoredContactFlag
      <4> QED
        BY <1>3, <4>1, <4>2
    <3> QED
      BY <3>2, <3>3
  <2> QED
    BY <2>1, <2>2, <2>3
<1>11. ASSUME IsFlag(x), Kind(x) \in {"host", "service"}, ~retained \/ ~same
       PROVE  val'[x] = c[x]
  <2>1. Tracked(x)
    BY <1>11 DEF Tracked, Stashes
  <2>2. ~Restored(x, c, ps)
    <3>1. Restored(x, c, ps) => /\ x \in ReadModified(ps) /\ ReadsSettings(Obj(x))
                                /\ file.value[x] # NONE
                                /\ file.config[x] = NONE \/ file.config[x] = c[x]
      BY <1>11 DEF Restored, RestoredFlag
    <3> QED
      BY <1>2, <1>4, <1>7, <1>11, <2>1, <3>1 DEF LineOf, same
  <2> QED
    BY <1>3, <2>2
<1> QED
  BY <1>1, <1>10, <1>11 DEF Kept, retained, same

(* If what is masked for hosts is masked for services (the code reads the   *)
(* one mask for the other), what was saved last comes back after a restart  *)
(* or a crash: the retained value if the configuration is the same, else,   *)
(* of a flag of a host or service, the configured one.  Objects with status *)
(* or nonstatus retention off retain nothing.                               *)
THEOREM RetainedValuesComeBack == MasksAgree => (Spec => RetentionWins)
<1> SUFFICES ASSUME MasksAgree PROVE Spec => RetentionWins
  OBVIOUS
<1> DEFINE Restart == ~running /\ running' /\ saved # NONE =>
             \A x \in watched : /\ Attr(x) # "obsess"
                                /\ ~(Kind(x) = "host" /\ Attr(x) = "retry_interval")
                                => Kept(x, Unretained \cup Statusless)
<1>1. IndInv /\ [Next]_vars => [Restart]_vars
  <2> SUFFICES ASSUME IndInv, Next, ~running, running', saved # NONE,
                      NEW x \in watched, Attr(x) # "obsess",
                      ~(Kind(x) = "host" /\ Attr(x) = "retry_interval")
               PROVE  Kept(x, Unretained \cup Statusless)
    OBVIOUS
  <2>1. PICK c \in NextConfs, ps \in SUBSET (1..2) : Valid(c, ps) /\ Start(c, ps)
    BY DEF Next, Changes, Upkeep, SetFlag, SetSetting, SetModifiedAttributes, Save, Stop,
           ReadAgain, Crash
  <2> QED
    BY <2>1, StartKeeps
<1>2. IndInv /\ [Next]_vars => IndInv'
  BY NextInv
<1>3. Init => IndInv
  BY InitInv
<1>4. Spec => [][Restart]_vars
  <2> HIDE DEF Restart
  <2> QED
    BY <1>1, <1>2, <1>3, PTL DEF Spec
<1> QED
  BY <1>4, PTL DEF RetentionWins
=============================================================================
