----------------------------- MODULE Retention -----------------------------
(* What the retention file keeps of the attributes that commands change at  *)
(* run time: the flags and settings of the program, of hosts, services and  *)
(* contacts, over saves that may fail, crashes, restarts with a changed     *)
(* configuration, and the command that reads the file back.                 *)
EXTENDS Naturals

CONSTANTS Objects,        \* the objects, the program among them
          KindOf,         \* "program", "host", "service" or "contact"
          Scenes,         \* which attributes are looked at: a set of sets of <<object, attribute>>
          Mask,           \* of "program", "object" or "contact", the "host" or "service"
                          \* side: the attributes whose bits retained_..._attribute_mask has
          Unretained,     \* objects with retain_nonstatus_information off (the program:
                          \* use_retained_program_state)
          Statusless,     \* objects with retain_status_information off
          NONE            \* no stash, no file, no line in the file

ASSUME KindAssumption ==
    KindOf \in [Objects -> {"program", "host", "service", "contact"}]

(* The program has no such option.                                          *)
ASSUME StatuslessAssumption == \A o \in Statusless : KindOf[o] # "program"

(* A scene has the check interval of a host whose retry interval it has:    *)
(* the code writes the one for the other.                                   *)
ASSUME SceneAssumption ==
    \A S \in Scenes : \A x \in S :
        /\ x = <<x[1], x[2]>> /\ x[1] \in Objects
        /\ KindOf[x[1]] = "host" /\ x[2] = "retry_interval" => <<x[1], "check_interval">> \in S

(* A retention file about the attributes S: their modified bits, and lines  *)
(* with a value and, of a flag, with the configured value.                  *)
Files(S) ==
    [modified : SUBSET S, value : [S -> {NONE} \cup 0..2], config : [S -> {NONE} \cup 0..2]]

ASSUME NoneAssumption == NONE \notin 0..2 /\ \A S \in Scenes : NONE \notin Files(S)

VARIABLES watched,   \* the scene, a set of <<object, attribute>>
          running,   \* whether the program is up
          conf,      \* the configured values
          val,       \* the values in use
          modified,  \* modified_attributes, modified_host_attributes, ... of all objects
          stash,     \* premod_hosts, premod_services, premod_contacts
          periods,   \* the timeperiods of the configuration
          file,      \* the retention file
          saved      \* history: configuration, values and bits at the last save

vars == <<watched, running, conf, val, modified, stash, periods, file, saved>>

Obj(x) == x[1]
Attr(x) == x[2]
Kind(x) == KindOf[x[1]]

Periods == {"check_period", "notification_period", "host_period", "service_period"}
Settings == Periods \cup {"check_interval", "retry_interval", "max_attempts"}

IsFlag(x) == Attr(x) \notin Settings

(* What an attribute may be: a flag is off or on, a setting one of two.     *)
Values(x) == IF IsFlag(x) THEN 0..1 ELSE 1..2

TypeOK ==
    /\ watched \in Scenes
    /\ running \in BOOLEAN
    /\ conf \in [watched -> 0..2] /\ \A x \in watched : conf[x] \in Values(x)
    /\ val \in [watched -> 0..2] /\ \A x \in watched : val[x] \in Values(x)
    /\ modified \subseteq watched
    /\ stash \in [watched -> {NONE} \cup 0..2]
    /\ periods \subseteq 1..2
    /\ file \in {NONE} \cup Files(watched)
    /\ file # NONE => \A x \in watched : file.value[x] \in {NONE} \cup Values(x)
    /\ saved \in {NONE} \cup [conf : [watched -> 0..2], val : [watched -> 0..2],
                              modified : SUBSET watched]

Init ==
    /\ watched \in Scenes
    /\ running = TRUE
    /\ conf = [x \in watched |-> 1] /\ val = conf
    /\ modified = {}
    /\ stash = [x \in watched |-> NONE]
    /\ periods = 1..2
    /\ file = NONE /\ saved = NONE

-----------------------------------------------------------------------------
(* Changes by commands.                                                     *)

(* pre_modify_host_attribute and its like: a copy of the whole object is    *)
(* taken when one of its flags is about to change for the first time.       *)
pre_modify(st, v, objs) ==
    [x \in watched |-> IF Obj(x) \in objs /\ st[x] = NONE THEN v[x] ELSE st[x]]

(* Mutant: the functions for active checks take no copy either.             *)
StashesNotChecks(a) == a \notin {"obsess", "checks"}

(* The functions that start and stop obsessing take no copy.                *)
Stashes(a) == a # "obsess"

(* The objects of which a flag really changes.                              *)
Changing(objs, a, v) == {o \in objs : <<o, a>> \in watched /\ val[<<o, a>>] # v}

(* Mutant: the copy is taken after the change.                              *)
SetFlagStashAfter(objs, a, v) ==
    LET ch == Changing(objs, a, v)
    IN  /\ running
        /\ val' = [x \in watched |-> IF Obj(x) \in ch /\ Attr(x) = a THEN v ELSE val[x]]
        /\ modified' = modified \cup {<<o, a>> : o \in ch}
        /\ stash' = IF Stashes(a) THEN pre_modify(stash, val', ch) ELSE stash
        /\ UNCHANGED <<watched, running, conf, periods, file, saved>>

(* enable_host_notifications, disable_service_checks, ..., for one object   *)
(* or all members of a group: nothing happens to those that have the value. *)
SetFlag(objs, a, v) ==
    LET ch == Changing(objs, a, v)
    IN  /\ running
        /\ val' = [x \in watched |-> IF Obj(x) \in ch /\ Attr(x) = a THEN v ELSE val[x]]
        /\ modified' = modified \cup {<<o, a>> : o \in ch}
        /\ stash' = IF Stashes(a) THEN pre_modify(stash, val, ch) ELSE stash
        /\ UNCHANGED <<watched, running, conf, periods, file, saved>>

(* CHANGE_NORMAL_HOST_CHECK_INTERVAL, CHANGE_SVC_CHECK_TIMEPERIOD, ...      *)
SetSetting(x, v) ==
    /\ running /\ x \in watched /\ ~IsFlag(x)
    /\ Attr(x) \in Periods => v \in periods
    /\ val' = [val EXCEPT ![x] = v]
    /\ modified' = IF Attr(x) = "check_interval" /\ val[x] = v THEN modified ELSE modified \cup {x}
    /\ UNCHANGED <<watched, running, conf, stash, periods, file, saved>>

(* CHANGE_HOST_MODATTR, CHANGE_SVC_MODATTR                                  *)
SetModifiedAttributes(o, S) ==
    /\ running /\ KindOf[o] \in {"host", "service"}
    /\ S \subseteq {x \in watched : Obj(x) = o}
    /\ modified' = {x \in modified : Obj(x) # o} \cup S
    /\ UNCHANGED <<watched, running, conf, val, stash, periods, file, saved>>

-----------------------------------------------------------------------------
(* The retention file.                                                      *)

(* The attributes of the program and of contacts with bits in               *)
(* modified_service_attributes; their other bits are in                    *)
(* modified_host_attributes.                                                *)
ServiceSide ==
    {"execute_service_checks", "accept_passive_service_checks", "obsess_over_services",
     "check_service_freshness", "service_notifications", "service_period"}

Side(x) == IF Kind(x) = "service" \/ Attr(x) \in ServiceSide THEN "service" ELSE "host"

Of(x) == IF Kind(x) \in {"host", "service"} THEN "object" ELSE Kind(x)

MaskedOnSave(x) == Attr(x) \in Mask[<<Of(x), Side(x)>>]

(* Except for contacts, the mask of the host side is read for both.         *)
SideRead(x) == IF Of(x) = "contact" THEN Side(x) ELSE "host"
MaskedOnRead(x) == Attr(x) \in Mask[<<Of(x), SideRead(x)>>]

(* The retry interval of a host is written from its check interval.         *)
WrittenSetting(x) ==
    IF Kind(x) = "host" /\ Attr(x) = "retry_interval" THEN val[<<Obj(x), "check_interval">>]
    ELSE val[x]

(* A flag of a host, service or contact is written if it differs from the   *)
(* copy.                                                                    *)
FlagWritten(x) == stash[x] # NONE /\ stash[x] # val[x]

(* xrddefault_save_state_information                                        *)
Written ==
    [modified |-> {x \in modified : ~MaskedOnSave(x)},
     value |-> [x \in watched |->
                  IF ~IsFlag(x) THEN WrittenSetting(x)
                  ELSE IF Kind(x) = "program" \/ FlagWritten(x) THEN val[x] ELSE NONE],
     config |-> [x \in watched |->
                  IF IsFlag(x) /\ Kind(x) # "program" /\ FlagWritten(x) THEN stash[x] ELSE NONE]]

Snapshot == [conf |-> conf, val |-> val, modified |-> modified]

(* The file is replaced only once a new one is complete.                    *)
Saved(ok) ==
    IF ok THEN file' = Written /\ saved' = Snapshot ELSE UNCHANGED <<file, saved>>

(* save_state_information, from the timer or by SAVE_STATE_INFORMATION      *)
Save(ok) ==
    /\ running
    /\ Saved(ok)
    /\ UNCHANGED <<watched, running, conf, val, modified, stash, periods>>

(* found_directive is reset only where status lines are told from others:   *)
(* without status information the lines with flags and settings are skipped.*)
ReadsSettings(o) == o \notin Unretained \cup Statusless

(* The bits that are read.  Those of contacts are not cleared; that of a    *)
(* timeperiod that is gone is, by whoever reads the line.                   *)
ReadModified(ps) ==
    {x \in file.modified :
        /\ ~MaskedOnRead(x)
        /\ Obj(x) \in Unretained => Kind(x) = "contact"
        /\ Attr(x) \in Periods /\ ReadsSettings(Obj(x)) => file.value[x] \in ps}

(* RETAIN_BOOL, for hosts and services; v are the values before.            *)
RestoredFlag(x, v, ps) ==
    x \in ReadModified(ps) /\ (file.config[x] = NONE \/ file.config[x] = v[x])

(* What stands for it for contacts.                                         *)
RestoredContactFlag(x, v, ps) == x \in ReadModified(ps) \/ file.config[x] = v[x]

(* The flags of the program, and the settings.                              *)
RestoredProgram(x, ps) == x \in ReadModified(ps)
RestoredSetting(x, ps) == x \in ReadModified(ps)

(* The attributes that are taken from the file.                             *)
Restored(x, v, ps) ==
    /\ ReadsSettings(Obj(x)) /\ file.value[x] # NONE
    /\ IF ~IsFlag(x) THEN RestoredSetting(x, ps)
       ELSE CASE Kind(x) = "program" -> RestoredProgram(x, ps)
              [] Kind(x) = "contact" -> RestoredContactFlag(x, v, ps)
              [] OTHER -> RestoredFlag(x, v, ps)

(* xrddefault_read_state_information: v and st are the values and copies    *)
(* before, ps the timeperiods there are.                                    *)
Read(v, st, ps) ==
    IF file = NONE
    THEN val' = v /\ stash' = st
    ELSE LET back == {x \in watched : Restored(x, v, ps)}
         IN  /\ val' = [x \in watched |-> IF x \in back THEN file.value[x] ELSE v[x]]
             /\ stash' = pre_modify(st, v, {Obj(x) : x \in {y \in back : IsFlag(y)}})

(* READ_STATE_INFORMATION, while the program runs                           *)
ReadAgain ==
    /\ running
    /\ Read(val, stash, periods)
    /\ modified' = IF file = NONE THEN modified ELSE ReadModified(periods)
    /\ UNCHANGED <<watched, running, conf, periods, file, saved>>

(* The event loop ends, at a shutdown or a restart: the state is saved.     *)
Stop(ok) ==
    /\ running
    /\ Saved(ok)
    /\ running' = FALSE
    /\ UNCHANGED <<watched, conf, val, modified, stash, periods>>

(* The process dies, perhaps in the middle of a save.                       *)
Crash ==
    /\ running
    /\ running' = FALSE
    /\ UNCHANGED <<watched, conf, val, modified, stash, periods, file, saved>>

(* The program comes up with configuration c and timeperiods ps.            *)
Start(c, ps) ==
    /\ ~running
    /\ running' = TRUE
    /\ conf' = c /\ periods' = ps
    /\ Read(c, [x \in watched |-> NONE], ps)
    /\ modified' = IF file = NONE THEN {} ELSE ReadModified(ps)
    /\ UNCHANGED <<watched, file, saved>>

(* Configurations in which at most one attribute has changed, and periods   *)
(* that still cover the ones that are configured.                           *)
NextConfs == {conf} \cup {[conf EXCEPT ![x] = v] : x \in watched, v \in 0..2}
Valid(c, ps) ==
    \A x \in watched : c[x] \in Values(x) /\ (Attr(x) \in Periods => c[x] \in ps)

Changes ==
    \/ \E S \in SUBSET Objects, x \in watched : IsFlag(x) /\ \E v \in 0..1 : SetFlag(S, Attr(x), v)
    \/ \E x \in watched, v \in 1..2 : SetSetting(x, v)
    \/ \E o \in Objects : \E S \in SUBSET {x \in watched : Obj(x) = o} : SetModifiedAttributes(o, S)

Upkeep ==
    \/ \E ok \in BOOLEAN : Save(ok) \/ Stop(ok)
    \/ ReadAgain
    \/ Crash
    \/ \E c \in NextConfs, ps \in SUBSET (1..2) : Valid(c, ps) /\ Start(c, ps)

Next == Changes \/ Upkeep

Spec == Init /\ [][Next]_vars

-----------------------------------------------------------------------------
(* Properties.                                                              *)

(* The flags whose functions take a copy first.                             *)
Tracked(x) == IsFlag(x) /\ Kind(x) # "program" /\ Stashes(Attr(x))

(* A copy is taken before anything was changed: it holds the configured     *)
(* value of every flag, and a flag of which there is no copy still has it.  *)
StashIsConfigured ==
    running => \A x \in watched : Tracked(x) =>
                  IF stash[x] = NONE THEN val[x] = conf[x] ELSE stash[x] = conf[x]

(* What an attribute should be once the program is up again, if those of    *)
(* the objects in lost are not kept: as it was at the last save if it had   *)
(* been modified, unless its configuration has changed since; for program,  *)
(* contact and settings nothing is said of the latter case.                 *)
Kept(x, lost) ==
    LET same == conf'[x] = saved.conf[x]
        retained == x \in saved.modified /\ Obj(x) \notin lost /\ ~MaskedOnSave(x)
        byConf == IsFlag(x) /\ Kind(x) \in {"host", "service"}
    IN  /\ retained /\ same /\ (Attr(x) \in Periods => saved.val[x] \in periods')
              => val'[x] = saved.val[x]
        /\ byConf /\ (~retained \/ ~same) => val'[x] = conf'[x]

(* Flags survive saves that fail, crashes and restarts: the retained value  *)
(* wins if the configuration is the same, else the configuration does.      *)
(* Left out: obsess and the retry interval of hosts; objects with status    *)
(* retention off lose everything.                                           *)
RetentionWins ==
    [][~running /\ running' /\ saved # NONE =>
          \A x \in watched : /\ Attr(x) # "obsess"
                             /\ ~(Kind(x) = "host" /\ Attr(x) = "retry_interval")
                             => Kept(x, Unretained \cup Statusless)]_vars

(* What is masked for hosts is masked for services: the code reads the one  *)
(* mask for the other.                                                      *)
MasksAgree == \A k \in {"program", "object"} : Mask[<<k, "host">>] \subseteq Mask[<<k, "service">>]

(* The same of everything, as the names of the options have it.             *)
EverythingKept ==
    [][~running /\ running' /\ saved # NONE => \A x \in watched : Kept(x, Unretained)]_vars
=============================================================================
