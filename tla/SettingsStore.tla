---------------------------- MODULE SettingsStore ----------------------------
(***************************************************************************)
(* The settings (yohu-adbtools settings_store.rs, settings_apply.rs), how  *)
(* they are written (yohu-runtime persist.rs) and the exit (exit.rs). Each *)
(* settings.set runs on its own task and takes the lock three times: to    *)
(* copy the document, to put the changed copy back, and to copy it again   *)
(* for the file. Nothing keeps two of them, or the save of the exit, from  *)
(* writing at once, to one `.tmp`. A path names a file, and a task that    *)
(* has one open writes to it whatever the path names by then.              *)
(***************************************************************************)
EXTENDS Integers, FiniteSets

CONSTANTS
  Keys, Values,
  Tasks,       (* calls of settings.set, one each                          *)
  Closing      (* the save of the exit                                     *)

SettingsAssumption ==
  IsFiniteSet(Tasks) /\ Closing \notin Tasks /\ Keys # {} /\ 0 \in Values

Savers == Tasks \cup {Closing}
Document == [Keys -> Values]
Default == [k \in Keys |-> 0]
NoDocument == [k \in {} |-> 0]
NoFile == 0
File == 1 .. Cardinality(Savers) + 1

(* A file: empty or torn, or a document.                                   *)
Torn == [whole |-> FALSE, document |-> NoDocument]
Holds(d) == [whole |-> TRUE, document |-> d]

VARIABLES
  memory,                (* SettingsStore.inner                            *)
  content,               (* of each file                                   *)
  path, tmp,             (* the files the two paths name                   *)
  pc, key, text, open,   (* of each call: where it is, the key it sets,    *)
                         (* the document it has copied, its open file      *)
  cores,                 (* the setting the services work with: the ring   *)
                         (* capacity, the adb path                         *)
  exiting,               (* the window is closed; the process may end      *)
  raced                  (* two calls were between their copy and their    *)
                         (* end at once                                    *)

vars == <<memory, content, path, tmp, pc, key, text, open, cores, exiting, raced>>
fileVars == <<content, path, tmp>>

(* The first start, or a later one.                                        *)
Init ==
  /\ memory = Default /\ cores = Default
  /\ \/ path = NoFile /\ content = [f \in File |-> Torn]
     \/ path = 1 /\ content = [[f \in File |-> Torn] EXCEPT ![1] = Holds(Default)]
  /\ tmp = NoFile
  /\ pc = [t \in Savers |-> "Idle"]
  /\ key = [t \in Savers |-> CHOOSE k \in Keys : TRUE]
  /\ text = [t \in Savers |-> Default] /\ open = [t \in Savers |-> NoFile]
  /\ exiting = FALSE /\ raced = FALSE

Under(t) == pc[t] \notin {"Idle", "Done", "Failed", "Lost"}
Goto(t, label) == pc' = [pc EXCEPT ![t] = label]
Copy(t, d) == text' = [text EXCEPT ![t] = d]
-----------------------------------------------------------------------------
(* SettingsStore.set: the copy, with the new value in it.                  *)
Take(t) ==
  /\ pc[t] = "Idle" /\ t # Closing
  /\ \E k \in Keys, v \in Values :
       Copy(t, [memory EXCEPT ![k] = v]) /\ key' = [key EXCEPT ![t] = k]
  /\ Goto(t, "Put")
  /\ raced' = (raced \/ \E u \in Savers : Under(u))
  /\ UNCHANGED <<memory, fileVars, open, cores, exiting>>

Put(t) ==
  /\ pc[t] = "Put"
  /\ memory' = text[t]
  /\ Goto(t, "Copy")
  /\ UNCHANGED <<fileVars, key, text, open, cores, exiting, raced>>

(* save_atomic: what is in memory by now.                                  *)
CopyAgain(t) ==
  /\ pc[t] = "Copy"
  /\ Copy(t, memory)
  /\ Goto(t, "Create")
  /\ UNCHANGED <<memory, fileVars, key, open, cores, exiting, raced>>

(* shutdown: everything is cancelled and the adb children are gone, or     *)
(* killed; calls of settings.set are not waited for.                       *)
Shutdown ==
  /\ pc[Closing] = "Idle"
  /\ exiting' = TRUE
  /\ Goto(Closing, "Copy")
  /\ raced' = (raced \/ \E u \in Savers : Under(u))
  /\ UNCHANGED <<memory, fileVars, key, text, open, cores>>

(* The call that fails leaves its value in memory, where the next save     *)
(* finds it; the services keep the old one.                                *)
Fail(t) == Goto(t, "Failed") /\ open' = [open EXCEPT ![t] = NoFile]

(* Mutant: the file itself is opened.                                      *)
create_in_place(t) ==
  /\ pc[t] = "Create"
  /\ LET f == IF path # NoFile THEN path ELSE CHOOSE g \in File : g # tmp IN
       /\ path' = f /\ open' = [open EXCEPT ![t] = f]
       /\ content' = [content EXCEPT ![f] = Torn]
       /\ Goto(t, "Write")
  /\ UNCHANGED <<memory, tmp, key, text, cores, exiting, raced>>

(* atomic_write: fs::write opens and empties the `.tmp`, writes to what it *)
(* has open, and then whatever the `.tmp` names is renamed.                *)
Create(t) ==
  /\ pc[t] = "Create"
  /\ \/ /\ \E f \in File :
             /\ IF tmp # NoFile THEN f = tmp
                ELSE f # path /\ (\A u \in Savers : open[u] # f)
                     /\ \A g \in 1 .. f - 1 : g = path \/ \E u \in Savers : open[u] = g
             /\ tmp' = f /\ open' = [open EXCEPT ![t] = f]
             /\ content' = [content EXCEPT ![f] = Torn]
        /\ Goto(t, "Write")
     \/ Fail(t) /\ UNCHANGED <<tmp, content>>
  /\ UNCHANGED <<memory, path, key, text, cores, exiting, raced>>

(* A text over another one, of another length, leaves a mixture.           *)
Write(t) ==
  /\ pc[t] = "Write"
  /\ \/ /\ content' \in {[content EXCEPT ![open[t]] = Holds(text[t])]} \cup
             (IF content[open[t]].whole THEN {[content EXCEPT ![open[t]] = Torn]} ELSE {})
        /\ open' = [open EXCEPT ![t] = NoFile]
        /\ Goto(t, "Rename")
     \/ Fail(t) /\ UNCHANGED content
  /\ UNCHANGED <<memory, path, tmp, key, text, cores, exiting, raced>>

Rename(t) ==
  /\ pc[t] = "Rename"
  /\ \/ /\ tmp # NoFile
        /\ path' = tmp /\ tmp' = NoFile
        /\ Goto(t, IF t = Closing THEN "Done" ELSE "Apply")
        /\ UNCHANGED open
     \/ Fail(t) /\ UNCHANGED <<path, tmp>>
  /\ UNCHANGED <<memory, content, key, text, cores, exiting, raced>>

(* settings_apply::set: the services get the value, with or without an     *)
(* await on the way; then the client hears of it.                          *)
Apply(t) ==
  /\ pc[t] = "Apply"
  /\ cores' = [cores EXCEPT ![key[t]] = text[t][key[t]]]
  /\ Goto(t, "Done")
  /\ UNCHANGED <<memory, fileVars, key, text, open, exiting, raced>>

(* The process ends, by a crash or after its exit, and starts anew: load   *)
(* takes the document of the file, or the default one if there is none.    *)
Restart ==
  /\ memory' = IF path = NoFile \/ ~content[path].whole THEN Default
               ELSE content[path].document
  /\ cores' = memory'
  /\ pc' = [t \in Savers |->
              IF t = Closing THEN "Idle"
              ELSE IF Under(t) \/ pc[t] = "Failed" THEN "Lost" ELSE pc[t]]
  /\ open' = [t \in Savers |-> NoFile]
  /\ exiting' = FALSE
  /\ UNCHANGED <<fileVars, key, text, raced>>

Step(t) ==
  \/ Take(t) \/ Put(t) \/ CopyAgain(t) \/ Create(t) \/ Write(t) \/ Rename(t) \/ Apply(t)

Next == Shutdown \/ Restart \/ \E t \in Savers : Step(t)
-----------------------------------------------------------------------------
(* Every variable has its type.                                            *)
TypeOK ==
  /\ memory \in Document /\ cores \in Document
  /\ content \in [File -> {Torn} \cup {Holds(d) : d \in Document}]
  /\ path \in {NoFile} \cup File /\ tmp \in {NoFile} \cup File
  /\ pc \in [Savers -> {"Idle", "Put", "Copy", "Create", "Write", "Rename", "Apply", "Done",
                        "Failed", "Lost"}]
  /\ key \in [Savers -> Keys] /\ text \in [Savers -> Document]
  /\ open \in [Savers -> {NoFile} \cup File]
  /\ exiting \in BOOLEAN /\ raced \in BOOLEAN

(* What memory has of a key is in the file; without one, by default.       *)
Filed(k) ==
  memory[k] = IF path = NoFile THEN Default[k] ELSE content[path].document[k]

(* As long as no two calls write at once: the file is always a whole       *)
(* document, whenever the process ends; and when no call is under way the  *)
(* file and the services have what is in memory, after any number of       *)
(* restarts, but for the keys of calls that have failed since the last     *)
(* start: their values are in memory only, until a later save takes them   *)
(* into the file, or the process ends (settings_store.rs set,              *)
(* settings_apply.rs set, exit.rs shutdown).                               *)
SettingsSurvive ==
  ~raced =>
    /\ path # NoFile => content[path].whole
    /\ (\A t \in Savers : ~Under(t)) =>
         \A k \in Keys :
           (\A t \in Tasks : key[t] = k => pc[t] # "Failed") => cores[k] = memory[k] /\ Filed(k)
=============================================================================
