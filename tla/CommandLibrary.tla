---------------------------- MODULE CommandLibrary ----------------------------
(***************************************************************************)
(* The command library (yohu-domain command/library.rs, import.rs) and its *)
(* file (yohu-adbtools library_store.rs, yohu-runtime persist.rs): loaded, *)
(* saved whole, extended by imports, and read by the runs of commands,     *)
(* blocks and groups. Loads, saves and imports run on the main thread, one *)
(* after the other; a crash may come at any step of a write.               *)
(*                                                                         *)
(* A library is a sequence of groups, a group a sequence of entries, an    *)
(* entry a sequence of steps (a command has one), the template of a step a *)
(* sequence of tokens. Names and gaps are one flag, `legal`; descriptions  *)
(* of parameters and the schema version are left out: the text of another  *)
(* schema is no library here.                                              *)
(***************************************************************************)
EXTENDS Integers, Sequences, FiniteSets, SequencesExt

CONSTANTS
  Default,     (* default_library                                          *)
  Libraries,   (* what the user may save, and what a file to import holds  *)
  MaxCalls     (* bound: loads, saves and imports of one behaviour         *)

Entries(library) == UNION {ToSet(library[g].entries) : g \in DOMAIN library}
Ids(library) == {e.id : e \in Entries(library)}

(* What a file holds: nothing, a text that is no library, or a library.    *)
Missing == [is |-> "missing", library |-> <<>>]
Garbage == [is |-> "garbage", library |-> <<>>]
Whole(library) == [is |-> "library", library |-> library]

NoRun == [of |-> <<>>, values |-> <<>>, steps |-> <<>>]
NoOp == [call |-> "none", next |-> <<>>, incoming |-> <<>>, selected |-> {}]

VARIABLES
  library,    (* AppState.library                                          *)
  disk, tmp,  (* the file and its .tmp                                     *)
  pc, op,     (* the main thread: Idle, Tmp, Rename; the call it is in, or *)
              (* the one before, if it was refused                         *)
  settled,    (* the memory is of the file                                 *)
  calls,
  sent        (* the run sent last: its steps before and after filling     *)

vars == <<library, disk, tmp, pc, op, settled, calls, sent>>

(* The library is empty until it is loaded.                                *)
Init ==
  /\ library = <<>> /\ tmp = Missing
  /\ disk \in {Missing, Garbage, Whole(Default)}
  /\ pc = "Idle" /\ op = NoOp /\ settled = FALSE /\ calls = 0 /\ sent = NoRun
-----------------------------------------------------------------------------
(* Entries and groups are told apart by their ids, over the whole library; *)
(* an entry has steps, and none of them is blank.                          *)
IsLegal(entry) == entry.legal /\ entry.steps # <<>> /\ \A s \in ToSet(entry.steps) : s # <<>>

Positions(lib) == UNION {{g} \X DOMAIN lib[g].entries : g \in DOMAIN lib}

validate(lib) ==
  /\ \A g, h \in DOMAIN lib : lib[g].id = lib[h].id => g = h
  /\ \A p, q \in Positions(lib) :
       lib[p[1]].entries[p[2]].id = lib[q[1]].entries[q[2]].id => p = q
  /\ \A e \in Entries(lib) : IsLegal(e)

LibraryAssumption == Default \in Libraries /\ validate(Default) /\ MaxCalls \in Nat

(* Mutant: an entry is looked for in the group of the same name only.      *)
locate_in_group(current, group, id) ==
  \E g \in DOMAIN current :
    current[g].id = group.id /\ \E e \in ToSet(current[g].entries) : e.id = id

(* locate_entry: in whatever group it is.                                  *)
Located(current, group, id) == id \in Ids(current)

(* apply_import: an entry that is there is replaced where it is; new ones  *)
(* are appended to their group, which may itself be new.                   *)
Overwrite(current, incoming, selected) ==
  [g \in DOMAIN current |->
     [current[g] EXCEPT !.entries =
        [i \in DOMAIN @ |->
           IF @[i].id \in selected
           THEN CHOOSE e \in Entries(incoming) : e.id = @[i].id
           ELSE @[i]]]]

AddGroup(lib, group) ==
  IF group.entries = <<>> THEN lib
  ELSE IF \E g \in DOMAIN lib : lib[g].id = group.id
       THEN [g \in DOMAIN lib |->
               IF lib[g].id = group.id
               THEN [lib[g] EXCEPT !.entries = @ \o group.entries] ELSE lib[g]]
       ELSE Append(lib, group)

apply_import(current, incoming, selected) ==
  LET Fresh(group) ==
        [group EXCEPT !.entries =
           SelectSeq(@, LAMBDA e : e.id \in selected /\ ~Located(current, group, e.id))]
  IN FoldLeft(AddGroup, Overwrite(current, incoming, selected),
              [g \in DOMAIN incoming |-> Fresh(incoming[g])])
-----------------------------------------------------------------------------
(* The distinct slots of a template, in order.                             *)
placeholder_slots(template) ==
  SetToSortSeq({t.n : t \in {u \in ToSet(template) : u.kind = "slot"}}, <)

(* step_param_slots: how many there are in the steps before, and in all.   *)
SlotsBefore(steps, i) == Len(FlattenSeq([j \in 1 .. i - 1 |-> placeholder_slots(steps[j])]))

placeholder_arity(steps) == SlotsBefore(steps, Len(steps) + 1)

(* One pass over the template: what is put in is not scanned again.        *)
apply_values(template, values) ==
  LET slots == placeholder_slots(template)
      Of(token) == CHOOSE k \in DOMAIN slots : slots[k] = token.n
  IN FlattenSeq([i \in DOMAIN template |->
       IF template[i].kind = "slot" THEN values[Of(template[i])] ELSE <<template[i]>>])

(* fill: each step takes its own share of the values.                      *)
fill(steps, values) ==
  [i \in DOMAIN steps |->
     apply_values(steps[i], SubSeq(values, SlotsBefore(steps, i) + 1, Len(values)))]
-----------------------------------------------------------------------------
(* commandlib.load: the library of the file, or the default one, which is  *)
(* then written; a text that is no library is set aside before, if that    *)
(* can be done.                                                            *)
Load ==
  /\ pc = "Idle" /\ calls < MaxCalls
  /\ calls' = calls + 1
  /\ \/ /\ disk.is = "library"
        /\ library' = disk.library /\ settled' = TRUE
        /\ op' = NoOp /\ UNCHANGED pc
     \/ /\ disk.is # "library"
        /\ pc' = "Tmp" /\ op' = [NoOp EXCEPT !.call = "load", !.next = Default]
        /\ UNCHANGED <<library, settled>>
     \/ disk.is = "garbage" /\ UNCHANGED <<library, settled, pc, op>>
  /\ UNCHANGED <<disk, tmp, sent>>

(* persist begins, unless the library is not valid.                        *)
Persist == IF validate(op'.next) THEN pc' = "Tmp" ELSE UNCHANGED pc

Save ==
  /\ pc = "Idle" /\ calls < MaxCalls
  /\ calls' = calls + 1
  /\ \E lib \in Libraries : op' = [NoOp EXCEPT !.call = "save", !.next = lib]
  /\ Persist
  /\ UNCHANGED <<library, disk, tmp, settled, sent>>

(* commandlib.apply: the files are read again, each and all together a     *)
(* valid library (combine_imports); the ids the user ticked in a preview   *)
(* of what they held then must be among what they hold now.                *)
Apply ==
  /\ pc = "Idle" /\ calls < MaxCalls
  /\ calls' = calls + 1
  /\ \E files \in {<<f>> : f \in Libraries} \cup (Libraries \X Libraries) :
       \E selected \in SUBSET UNION {Ids(lib) : lib \in Libraries} :
         LET incoming == FlattenSeq(files) IN
         IF ~validate(incoming) \/ ~(selected \subseteq Ids(incoming)) THEN UNCHANGED <<pc, op>>
         ELSE /\ op' = [call |-> "apply", incoming |-> incoming, selected |-> selected,
                        next |-> apply_import(library, incoming, selected)]
              /\ Persist
  /\ UNCHANGED <<library, disk, tmp, settled, sent>>

Return == pc' = "Idle" /\ op' = NoOp

(* atomic_write: the `.tmp` is written, then renamed to the file; either   *)
(* may fail, and what was there stays. The memory follows the file.        *)
WriteTmp ==
  /\ pc = "Tmp"
  /\ \/ tmp' = Whole(op.next) /\ pc' = "Rename" /\ UNCHANGED op
     \/ tmp' \in {tmp, Garbage} /\ Return
  /\ UNCHANGED <<library, disk, settled, calls, sent>>

Rename ==
  /\ pc = "Rename"
  /\ \/ /\ disk' = tmp /\ tmp' = Missing
        /\ library' = op.next /\ settled' = TRUE
     \/ UNCHANGED <<library, disk, tmp, settled>>
  /\ Return
  /\ UNCHANGED <<calls, sent>>

(* The process ends, at any step, and starts anew.                         *)
Crash ==
  /\ library' = <<>> /\ settled' = FALSE
  /\ tmp' \in {tmp} \cup (IF pc = "Tmp" THEN {Garbage} ELSE {})
  /\ Return
  /\ sent' = NoRun
  /\ UNCHANGED <<disk, calls>>

(* terminal.eval and block.run: one value for each slot, or no run.        *)
RunEntry(entry, values) ==
  /\ Len(values) = placeholder_arity(entry.steps)
  /\ sent' = [of |-> entry.steps, values |-> values, steps |-> fill(entry.steps, values)]
  /\ UNCHANGED <<library, disk, tmp, pc, op, settled, calls>>

(* group.run: no run if any entry wants values.                            *)
RunGroup(group) ==
  /\ \A e \in ToSet(group.entries) : placeholder_arity(e.steps) = 0
  /\ LET steps == FlattenSeq([i \in DOMAIN group.entries |-> group.entries[i].steps])
     IN sent' = [of |-> steps, values |-> <<>>, steps |-> steps]
  /\ UNCHANGED <<library, disk, tmp, pc, op, settled, calls>>

(* What the user types reads like a slot, if it is scanned again.          *)
Typed(n) == [k \in 1 .. n |-> <<[kind |-> "typed", n |-> k]>>]

Next ==
  \/ Load \/ Save \/ Apply \/ WriteTmp \/ Rename \/ Crash
  \/ \E e \in Entries(library) : \E n \in 0 .. 4 : RunEntry(e, Typed(n))
  \/ \E g \in DOMAIN library : RunGroup(library[g])
-----------------------------------------------------------------------------
(* Every variable has its type.                                            *)
TypeOK ==
  /\ validate(library)
  /\ {disk.is, tmp.is} \subseteq {"missing", "garbage", "library"}
  /\ pc \in {"Idle", "Tmp", "Rename"} /\ op.call \in {"none", "load", "save", "apply"}
  /\ settled \in BOOLEAN /\ calls \in 0 .. MaxCalls

(* Whatever fails and whenever the program ends, the file is never torn by *)
(* it: what no library could be read from is what was found there at the   *)
(* start, and valid text stays valid. Between calls the library in memory  *)
(* is the one of the file (library_store.rs, persist.rs atomic_write).     *)
LibrarySurvives ==
  /\ disk.is = "garbage" => library = <<>>
  /\ disk.is = "library" => validate(disk.library)
  /\ settled => disk = Whole(library)

(* An import changes what was ticked and nothing else: what was there      *)
(* keeps its place and, unless ticked, its definition; what is new is what *)
(* was ticked, in the group it came from. Two valid libraries never make an*)
(* invalid one, so that no import is refused at the end (import.rs         *)
(* apply_import).                                                          *)
Merged(old, new, incoming, selected) ==
  /\ validate(new)
  /\ \A g \in DOMAIN old :
       /\ new[g].id = old[g].id
       /\ \A i \in DOMAIN old[g].entries : new[g].entries[i].id = old[g].entries[i].id
  /\ Ids(new) = Ids(old) \cup selected
  /\ \A g \in DOMAIN new : \A e \in ToSet(new[g].entries) :
       /\ e \in Entries(IF e.id \in selected THEN incoming ELSE old)
       /\ e.id \notin Ids(old) =>
            \E h \in DOMAIN incoming :
              incoming[h].id = new[g].id /\ e \in ToSet(incoming[h].entries)

ImportMergesSelection ==
  op.call = "apply" => Merged(library, op.next, op.incoming, op.selected)

(* What is sent has each value where its field stood, also in blocks whose *)
(* steps use the same numbers, has no slot left, and keeps a value that    *)
(* reads like a slot as it was typed (library.rs fill).                    *)
FillIsPerStep ==
  \A i \in DOMAIN sent.of :
    LET Field(n) == Cardinality(
          {field \in (1 .. i) \X (0 .. 3) :
             /\ [kind |-> "slot", n |-> field[2]] \in ToSet(sent.of[field[1]])
             /\ field[1] < i \/ field[2] <= n})
    IN /\ Len(sent.steps[i]) = Len(sent.of[i])
       /\ \A k \in DOMAIN sent.of[i] :
            sent.steps[i][k] =
              IF sent.of[i][k].kind = "slot" THEN sent.values[Field(sent.of[i][k].n)][1]
              ELSE sent.of[i][k]
=============================================================================
