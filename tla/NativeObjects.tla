--------------------------- MODULE NativeObjects ---------------------------
(***************************************************************************)
(* native/object/native_object.cpp: the manager's indexes of the objects   *)
(* on the C++ heap, and the shells (tables in the arena) through which the *)
(* script reads, writes and walks an object's fields.                      *)
(***************************************************************************)
EXTENDS Integers, Sequences, FiniteSets, SequencesExt

CONSTANTS Groups,      \* group ids
          Ids,         \* ids that the script chooses; an automatic id is negative
          GlobalKeys,
          Fields, FieldValues,
          MaxObjects, MaxShells, MaxFrames   \* bounds

VARIABLES object,    \* every object made: id, group (0: global), alive (impl_), kv, finalized and deleted (counts)
          objects,   \* objects_: id -> object (the type is left out; 0: none)
          groups,    \* group_objects_ ({}: no entry)
          globals,   \* global_objects_ (0: none)
          zombies,   \* zombies_
          autoId,    \* next_auto_obj_id_
          shell,     \* this frame's shells: obj, snapshot_ready, spec_keys with spec_vals, spec_cap, and whether the
                     \* object was written in another way since the snapshot (history)
          frames,    \* history: frames begun
          cleared    \* Clear was called (the state is deleted)

objVars == <<object, objects, groups, globals, zombies, autoId, shell, frames, cleared>>

AllIds == Ids \cup {0 - n : n \in 1..MaxObjects}
NoFields == [f \in Fields |-> 0]

ObjInit ==
    /\ object = <<>> /\ objects = [i \in AllIds |-> 0] /\ groups = [g \in Groups |-> {}]
    /\ globals = [k \in GlobalKeys |-> 0] /\ zombies = <<>> /\ autoId = 0
    /\ shell = <<>> /\ frames = 1 /\ cleared = FALSE

-----------------------------------------------------------------------------
(* The manager.                                                            *)

NewObject(i, g) ==
    [id |-> i, group |-> g, alive |-> TRUE, kv |-> NoFields, finalized |-> 0, deleted |-> 0]

\* Wrap: a light shell; its snapshot is made by the first walk.
Wrap(o) == [obj |-> o, ready |-> FALSE, snap |-> <<>>, cap |-> 0, stale |-> FALSE]
Wrapped(o) == IF Len(shell) < MaxShells THEN Append(shell, Wrap(o)) ELSE shell

\* new_native_obj(group, id): an object that has the id already is returned, whatever its group is.
Create(g, i) ==
    LET id == IF i = 0 THEN autoId - 1 ELSE i
        o  == Len(object) + 1
    IN  /\ ~cleared /\ (i = 0 => autoId > 0 - MaxObjects)
        /\ autoId' = IF i = 0 THEN autoId - 1 ELSE autoId
        /\ IF objects[id] # 0 THEN shell' = Wrapped(objects[id]) /\ UNCHANGED <<object, objects, groups>>
           ELSE /\ o <= MaxObjects
                /\ object' = Append(object, NewObject(id, g))
                /\ objects' = [objects EXCEPT ![id] = o]
                /\ groups' = [groups EXCEPT ![g] = @ \cup {o}]
                /\ shell' = Wrapped(o)
        /\ UNCHANGED <<globals, zombies, frames, cleared>>

\* get_native_obj(id)
Get(i) ==
    /\ ~cleared /\ objects[i] # 0 /\ shell' = Wrapped(objects[i])
    /\ UNCHANGED <<object, objects, groups, globals, zombies, autoId, frames, cleared>>

\* new_global_obj(key): an automatic id, whose entry of objects_ is replaced if the script has used it.
GlobalCreate(k) ==
    /\ ~cleared
    /\ IF globals[k] # 0
       THEN shell' = Wrapped(globals[k]) /\ UNCHANGED <<object, objects, globals, autoId>>
       ELSE LET o == Len(object) + 1
            IN  /\ o <= MaxObjects /\ autoId > 0 - MaxObjects /\ autoId' = autoId - 1
                /\ object' = Append(object, NewObject(autoId - 1, 0))
                /\ objects' = [objects EXCEPT ![autoId - 1] = o]
                /\ globals' = [globals EXCEPT ![k] = o]
                /\ shell' = Wrapped(o)
    /\ UNCHANGED <<groups, zombies, frames, cleared>>

\* NativeObject::Destroy: the finalizer runs, and the fields are gone; the object itself is a zombie until Clear.
Destroy(os) ==
    /\ object' = [o \in DOMAIN object |->
                     IF o \in os /\ object[o].alive
                     THEN [object[o] EXCEPT !.alive = FALSE, !.kv = NoFields, !.finalized = @ + 1] ELSE object[o]]
    /\ zombies' = zombies \o SetToSeq(os)

\* Mutant: the global index keeps the object.
DestroySingleIndexed(i) ==
    /\ ~cleared /\ objects[i] # 0
    /\ LET o == objects[i]
       IN  /\ groups' = [g \in Groups |-> IF g = object[o].group THEN groups[g] \ {o} ELSE groups[g]]
           /\ UNCHANGED globals
           /\ Destroy({o})
    /\ objects' = [objects EXCEPT ![i] = 0]
    /\ UNCHANGED <<autoId, shell, frames, cleared>>

\* DestroySingle, by the host.
DestroySingle(i) ==
    /\ ~cleared /\ objects[i] # 0
    /\ LET o == objects[i]
       IN  /\ groups' = [g \in Groups |-> IF g = object[o].group THEN groups[g] \ {o} ELSE groups[g]]
           /\ globals' = [k \in GlobalKeys |-> IF globals[k] = o THEN 0 ELSE globals[k]]
           /\ Destroy({o})
    /\ objects' = [objects EXCEPT ![i] = 0]
    /\ UNCHANGED <<autoId, shell, frames, cleared>>

\* del_global_obj(key)
GlobalDestroy(k) ==
    /\ ~cleared /\ globals[k] # 0
    /\ objects' = [objects EXCEPT ![object[globals[k]].id] = 0]
    /\ globals' = [globals EXCEPT ![k] = 0]
    /\ Destroy({globals[k]})
    /\ UNCHANGED <<groups, autoId, shell, frames, cleared>>

\* del_native_group(group)
DestroyGroup(g) ==
    /\ ~cleared /\ groups[g] # {}
    /\ objects' = [i \in AllIds |-> IF i \in {object[o].id : o \in groups[g]} THEN 0 ELSE objects[i]]
    /\ groups' = [groups EXCEPT ![g] = {}]
    /\ Destroy(groups[g])
    /\ UNCHANGED <<globals, autoId, shell, frames, cleared>>

\* The state is deleted: what objects_ holds is destroyed and deleted, zombies are deleted.
Clear ==
    /\ ~cleared /\ cleared' = TRUE
    /\ LET held == {objects[i] : i \in AllIds} \ {0}
       IN  object' = [o \in DOMAIN object |->
               [object[o] EXCEPT !.alive = FALSE,
                                 !.finalized = IF o \in held /\ object[o].alive THEN @ + 1 ELSE @,
                                 !.deleted = (IF o \in held THEN 1 ELSE 0)
                                             + Cardinality({z \in DOMAIN zombies : zombies[z] = o})]]
    /\ objects' = [i \in AllIds |-> 0] /\ groups' = [g \in Groups |-> {}]
    /\ globals' = [k \in GlobalKeys |-> 0] /\ zombies' = <<>> /\ shell' = <<>>
    /\ UNCHANGED <<autoId, frames>>

-----------------------------------------------------------------------------
(* The fields, through a shell.                                            *)

\* The arena is reset: the shells are gone, the objects stay.
NewFrame ==
    /\ ~cleared /\ frames < MaxFrames /\ frames' = frames + 1 /\ shell' = <<>>
    /\ UNCHANGED <<object, objects, groups, globals, zombies, autoId, cleared>>

\* EnsureSpecCapacity: doubled, from four.
EnsureSpecCapacity(cap, need) ==
    LET f[c \in Nat] == IF c >= need THEN c ELSE f[2 * c] IN IF need <= cap THEN cap ELSE f[IF cap = 0 THEN 4 ELSE cap]

\* The first walk: RefreshSpecKeys makes the snapshot, in the hash map's order; a destroyed object has none.
EnsureNativeSpecSnapshot(s) ==
    /\ s \in DOMAIN shell /\ ~shell[s].ready
    /\ LET o == object[shell[s].obj]
       IN  \E fs \in SetToSeqs({f \in Fields : o.kv[f] # 0}) :
              shell' = [shell EXCEPT ![s].ready = TRUE,
                                     ![s].snap = [i \in DOMAIN fs |-> [key |-> fs[i], val |-> o.kv[fs[i]]]],
                                     ![s].cap = IF fs = <<>> THEN 0 ELSE EnsureSpecCapacity(@, Len(fs))]
    /\ UNCHANGED <<object, objects, groups, globals, zombies, autoId, frames, cleared>>

\* FindSpecKeyIndex
FindSpecKeyIndex(snap, f) == SelectInSeq(snap, LAMBDA e : e.key = f)

\* Mutant: the last entry is dropped instead of the removed one.
SnapSetDropsLast(sh, f, v) ==
    LET i == FindSpecKeyIndex(sh.snap, f)
    IN  IF v = 0 THEN IF i = 0 THEN sh ELSE [sh EXCEPT !.snap = Front(@)]
        ELSE IF i # 0 THEN [sh EXCEPT !.snap[i].val = v]
        ELSE [sh EXCEPT !.snap = Append(@, [key |-> f, val |-> v]), !.cap = EnsureSpecCapacity(@, Len(sh.snap) + 1)]

\* A snapshot is kept up to date: a removed entry is replaced by the last one, a new one is appended.
SnapSet(sh, f, v) ==
    LET i == FindSpecKeyIndex(sh.snap, f)
    IN  IF v = 0 THEN IF i = 0 THEN sh ELSE [sh EXCEPT !.snap = Front([@ EXCEPT ![i] = Last(sh.snap)])]
        ELSE IF i # 0 THEN [sh EXCEPT !.snap[i].val = v]
        ELSE [sh EXCEPT !.snap = Append(@, [key |-> f, val |-> v]), !.cap = EnsureSpecCapacity(@, Len(sh.snap) + 1)]

\* obj[f] = v (0: nil) through shell s; on a destroyed object it does nothing. Other shells of the object keep
\* the snapshot that they have.
NativeSpecSet(s, f, v) ==
    /\ s \in DOMAIN shell /\ object[shell[s].obj].alive
    /\ object' = [object EXCEPT ![shell[s].obj].kv[f] = v]
    /\ shell' = [t \in DOMAIN shell |->
                    IF t = s THEN IF shell[s].ready THEN SnapSet(shell[s], f, v) ELSE shell[s]
                    ELSE [shell[t] EXCEPT !.stale = @ \/ (shell[t].ready /\ shell[t].obj = shell[s].obj)]]
    /\ UNCHANGED <<objects, groups, globals, zombies, autoId, frames, cleared>>

\* The host sets a field (SetInt, SetString, Del, ...).
HostSet(o, f, v) ==
    /\ o \in DOMAIN object /\ object[o].alive
    /\ object' = [object EXCEPT ![o].kv[f] = v]
    /\ shell' = [t \in DOMAIN shell |-> [shell[t] EXCEPT !.stale = @ \/ (shell[t].ready /\ shell[t].obj = o)]]
    /\ UNCHANGED <<objects, groups, globals, zombies, autoId, frames, cleared>>

ObjNext ==
    \/ \E g \in Groups, i \in Ids \cup {0} : Create(g, i)
    \/ \E i \in AllIds : Get(i) \/ DestroySingle(i)
    \/ \E k \in GlobalKeys : GlobalCreate(k) \/ GlobalDestroy(k)
    \/ \E g \in Groups : DestroyGroup(g)
    \/ Clear \/ NewFrame
    \/ \E s \in 1..MaxShells : EnsureNativeSpecSnapshot(s)
    \/ \E s \in 1..MaxShells, f \in Fields, v \in FieldValues \cup {0} : NativeSpecSet(s, f, v)
    \/ \E o \in 1..MaxObjects, f \in Fields, v \in FieldValues \cup {0} : HostSet(o, f, v)

-----------------------------------------------------------------------------

\* No index leads to an object that was destroyed, and no object is finalized or deleted twice, in whatever order
\* objects are made, replaced and destroyed, one by one, by key or by group, and ids are used again.
ObjectsSound ==
    /\ \A o \in DOMAIN object :
          /\ object[o].finalized <= 1 /\ object[o].deleted <= 1
          /\ ~object[o].alive => /\ \A i \in AllIds : objects[i] # o
                                 /\ \A g \in Groups : o \notin groups[g]
                                 /\ \A k \in GlobalKeys : globals[k] # o
    /\ \A i \in AllIds : objects[i] # 0 => \A z \in DOMAIN zombies : zombies[z] # objects[i]

\* pairs() over an object yields its fields: the snapshot of a shell, however it was built and kept up to date, has
\* every field once with its value, as long as the object was only written through that shell.
SnapshotFresh ==
    \A s \in DOMAIN shell :
        LET sh == shell[s]
        IN  sh.ready /\ ~sh.stale /\ object[sh.obj].alive =>
                /\ Len(sh.snap) = Cardinality({f \in Fields : object[sh.obj].kv[f] # 0})
                /\ \A f \in Fields : object[sh.obj].kv[f] # 0 =>
                      \E i \in DOMAIN sh.snap : sh.snap[i] = [key |-> f, val |-> object[sh.obj].kv[f]]
                /\ Len(sh.snap) <= sh.cap
=============================================================================
