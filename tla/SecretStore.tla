----------------------------- MODULE SecretStore ----------------------------
(***************************************************************************)
(* The secret store (secret_store/mod.rs, secret_record.rs): a table of    *)
(* sealed records, answered from memory and rewritten to one file after    *)
(* every change.  The rewrite is a step machine over a file provider that  *)
(* may say "not yet" at every call, so requests are served while it is     *)
(* under way; the file is overwritten in place.                            *)
(*                                                                         *)
(* A sealed record is the value with what it was sealed under and for; it  *)
(* takes one cell of the file or two.  A cell is the unit that a crash     *)
(* leaves old or new.  Keys are named by their epochs.                     *)
(***************************************************************************)
EXTENDS Naturals, Sequences, FiniteSets, FiniteSetsExt

CONSTANTS
    Scenarios,      \* what callers ask, how often, and what may go wrong
    SecretIds,      \* ids of secrets; BadId stands for one that is too long
    BadId,
    MaxRecords,     \* MAX_RECORDS
    ReplyCapacity   \* replies the port holds

ASSUME BadIdIsNoId == BadId \notin SecretIds

(* Milliseconds the wall clock moves on from one request to the next.      *)
ASSUME PaceIsTime == \A s \in Scenarios : s.pace \in Nat

VARIABLES
    scn,        \* the scenario
    phase,      \* "load" or "normal"
    table,      \* the records, in the order of their slots
    kek,        \* the epoch of the key held, 0 for none
    counter,    \* nonce_ctr
    noFs, dirty, stage,
    image, off, \* the image under way, and how much of it was taken
    file,       \* the file's cells as reads see them
    disk,       \* the file's cells as a crash leaves them
    there,      \* whether there is a file provider, since the last start
    source,     \* the epoch the key source delivers
    now,        \* the wall clock
    replies,    \* replies not read yet
    next,       \* how many requests were taken, plus one
    faults, restarts,
    began,      \* what the wall clock read at the last start
    seals,      \* every seal ever made: what was sealed, and in which start
    floor       \* floor[i]: the last change of i that was answered and may not be lost

store   == <<phase, table, kek, counter>>
rewrite == <<noFs, dirty, stage, image, off>>
fs      == <<file, disk, there>>
bounds  == <<scn, source, now, next, faults, restarts, began>>
vars    == <<store, rewrite, fs, bounds, replies, seals, floor>>

Cells == 1 .. 1 + 2 * MaxRecords
Hole  == [kind |-> "hole"]
Head0(n) == [kind |-> "head", len |-> n]
Cell(e, n) == [kind |-> "part", e |-> e, n |-> n]

(* seal_into: a record's bytes.                                            *)
Sealed(e) == [n \in 1 .. e.size |-> Cell(e, n)]

(* open_into: under another key, or with cells of another seal, it fails.  *)
Opens(r, k) == r.data = Sealed(r.data[1].e) /\ r.data[1].e.kek = k

Places(i) == {n \in DOMAIN table : table[n].id = i}

(* find_record.                                                            *)
Find(i) == Min(Places(i))

NoChange == [val |-> 0, kek |-> 0]

(***************************************************************************)
(* Loading.                                                                *)
(***************************************************************************)
(* parse_dec_u32, or 1: a version that is no number is 0 here.             *)
Counted(ver) == IF ver = 0 THEN 1 ELSE ver

(* The records of a file, up to the first that does not parse.  A record   *)
(* is not opened to be loaded, so its later cells may be of another.       *)
Loaded(f) ==
    LET total == Max({0} \cup {c \in Cells : f[c] # Hole})
        end   == Min({1 + f[1].len, total})
        from[c \in 2 .. Cardinality(Cells) + 1] ==
            IF c > end \/ f[c].kind # "part" THEN <<>>
            ELSE IF f[c].n # 1 \/ c + f[c].e.size - 1 > end THEN <<>>
                 ELSE <<[id |-> f[c].e.id, ctr |-> Counted(f[c].e.ver),
                         data |-> [n \in 1 .. f[c].e.size |-> f[c + n - 1]]]>>
                      \o from[c + f[c].e.size]
    IN IF f[1].kind # "head" THEN <<>> ELSE SubSeq(from[2], 1, Min({Len(from[2]), MaxRecords}))

(* step_load: the file is read, or cannot be opened and the store starts   *)
(* empty, whether there is a file or not; a read that fails leaves the     *)
(* store memory-only.                                                      *)
Load ==
    /\ phase = "load" /\ phase' = "normal"
    /\ \/ there /\ table' = Loaded(file) /\ UNCHANGED <<noFs, faults, floor>>
       \/ /\ ~there \/ faults < scn.faults
          /\ faults' = IF there THEN faults + 1 ELSE faults
          /\ table' = <<>> /\ floor' = [i \in SecretIds |-> NoChange] /\ UNCHANGED noFs
       \/ /\ there /\ file[1] # Hole /\ faults < scn.faults /\ faults' = faults + 1
          /\ table' = <<>> /\ noFs' = TRUE /\ floor' = [i \in SecretIds |-> NoChange]
    /\ UNCHANGED <<kek, counter, dirty, stage, image, off, fs, scn, source, now, next,
                   restarts, began, replies, seals>>

(***************************************************************************)
(* The rewrite.                                                            *)
(***************************************************************************)
(* build_image.                                                            *)
Image(t) ==
    LET body[n \in 0 .. Len(t)] == IF n = 0 THEN <<>> ELSE body[n - 1] \o t[n].data
    IN <<Head0(Len(body[Len(t)]))>> \o body[Len(t)]

(* Mutant: a change during a rewrite is left to that rewrite.              *)
MutPersist(t) ==
    IF noFs \/ stage # "idle" THEN UNCHANGED rewrite
    ELSE stage' = "open" /\ image' = Image(t) /\ off' = 0 /\ UNCHANGED <<noFs, dirty>>

(* persist: the rewrite starts at once, or is owed to the one under way.   *)
Persist(t) ==
    CASE noFs -> dirty' = FALSE /\ UNCHANGED <<noFs, stage, image, off>>
      [] ~noFs /\ stage = "idle" ->
            stage' = "open" /\ image' = Image(t) /\ off' = 0 /\ dirty' = FALSE /\ UNCHANGED noFs
      [] OTHER -> dirty' = TRUE /\ UNCHANGED <<noFs, stage, image, off>>

(* persist_end.                                                            *)
End(retry) == stage' = "idle" /\ dirty' = (dirty \/ retry)

StartRewrite ==
    /\ stage = "idle" /\ dirty
    /\ stage' = "open" /\ image' = Image(table) /\ off' = 0 /\ dirty' = FALSE
    /\ UNCHANGED <<noFs, fs, faults>>

(* A hard failure to open: memory-only from here on.                       *)
OpenFile ==
    /\ stage = "open"
    /\ \/ there /\ stage' = "seek" /\ UNCHANGED <<noFs, dirty, faults>>
       \/ /\ there /\ faults < scn.faults /\ faults' = faults + 1
          /\ stage' = "idle" /\ noFs' = TRUE /\ dirty' = FALSE
       \/ ~there /\ stage' = "idle" /\ noFs' = TRUE /\ dirty' = FALSE /\ UNCHANGED faults
    /\ UNCHANGED <<image, off, fs>>

SeekFile ==
    /\ stage = "seek"
    /\ \/ stage' = "write" /\ UNCHANGED <<dirty, faults>>
       \/ faults < scn.faults /\ faults' = faults + 1 /\ End(TRUE)
    /\ UNCHANGED <<noFs, image, off, fs>>

(* Mutant: a write of nothing is asked for at the end of the image.        *)
MutTaken == off > Len(image)

(* The provider has the whole image.                                       *)
Taken == off >= Len(image)

(* By short counts.  A write of nothing is a write that failed.            *)
WriteFile ==
    /\ stage = "write"
    /\ \/ Taken /\ stage' = "fsync" /\ UNCHANGED <<dirty, off, file, faults>>
       \/ \E n \in 1 .. Len(image) - off :
            /\ ~Taken /\ off' = off + n
            /\ file' = [c \in Cells |-> IF c \in off + 1 .. off + n THEN image[c] ELSE file[c]]
            /\ UNCHANGED <<dirty, stage, faults>>
       \/ /\ ~Taken /\ (off < Len(image) => faults < scn.faults)
          /\ faults' = IF off < Len(image) THEN faults + 1 ELSE faults
          /\ End(TRUE) /\ UNCHANGED <<off, file>>
    /\ UNCHANGED <<noFs, image, disk, there>>

(* Durable on 0; a failed fence owes the rewrite again.                    *)
SyncFile ==
    /\ stage = "fsync"
    /\ \/ disk' = file /\ End(FALSE) /\ UNCHANGED faults
       \/ faults < scn.faults /\ faults' = faults + 1 /\ End(TRUE) /\ UNCHANGED disk
    /\ UNCHANGED <<noFs, image, off, file, there>>

(* step_persist; the provider decides each call at once or later.          *)
StepPersist ==
    /\ phase = "normal" /\ ~noFs
    /\ StartRewrite \/ OpenFile \/ SeekFile \/ WriteFile \/ SyncFile
    /\ UNCHANGED <<store, scn, source, now, next, restarts, began, replies, seals, floor>>

(***************************************************************************)
(* Requests.                                                               *)
(***************************************************************************)
(* drain_key_updates.                                                      *)
TakeKek ==
    /\ phase = "normal"
    /\ \E e \in source .. scn.keks : e # 0 /\ e # kek /\ kek' = e /\ source' = e
    /\ UNCHANGED <<phase, table, counter, rewrite, fs, scn, now, next, faults, restarts,
                   began, replies, seals, floor>>

Says(b, status, val) ==
    /\ replies' = Append(replies,
          [op |-> b.op, id |-> b.id, status |-> status, val |-> val, kek |-> kek,
           floor |-> IF b.id \in SecretIds THEN floor[b.id] ELSE NoChange])
    /\ UNCHANGED <<store, rewrite, seals, floor>>

(* store_record and persist, under the next nonce.                         *)
Stores(b, n, ver, val, size) ==
    LET e == [id |-> b.id, ver |-> ver, val |-> val, size |-> size, kek |-> kek,
              nonce |-> counter + 1]
        r == [id |-> b.id, ctr |-> IF b.op = "put" THEN 1 ELSE ver, data |-> Sealed(e)]
        t == IF n > Len(table) THEN Append(table, r) ELSE [table EXCEPT ![n] = r]
    IN /\ table' = t /\ counter' = counter + 1 /\ seals' = seals \cup {[start |-> restarts, clock |-> began, what |-> e]}
       /\ Persist(t)
       /\ floor' = [floor EXCEPT ![b.id] = [val |-> val, kek |-> kek]]
       /\ replies' = Append(replies, [op |-> b.op, id |-> b.id, status |-> "ok", val |-> val,
                                      kek |-> kek, floor |-> NoChange])
       /\ UNCHANGED <<phase, kek>>

(* handle_put.  Values are told apart by the request that put them.        *)
HandlePut(b) ==
    CASE b.id = BadId -> Says(b, "malformed", 0)
      [] b.id # BadId /\ kek = 0 -> Says(b, "no_key", 0)
      [] b.id # BadId /\ kek # 0 /\ Places(b.id) # {} ->
            Stores(b, Find(b.id), b.ver, next, b.size)
      [] OTHER -> IF Len(table) = MaxRecords THEN Says(b, "full", 0)
                  ELSE Stores(b, Len(table) + 1, b.ver, next, b.size)

(* handle_get, handle_derive and handle_rotate, up to the opened record:   *)
(* what refuses them.                                                      *)
OpenRefusal(b) ==
    CASE b.id = BadId -> "malformed"
      [] b.id # BadId /\ Places(b.id) = {} -> "not_found"
      [] b.id # BadId /\ Places(b.id) # {} /\ kek = 0 -> "no_key"
      [] OTHER -> IF Opens(table[Find(b.id)], kek) THEN "none" ELSE "decrypt_failed"

HandleGet(b) ==
    IF OpenRefusal(b) # "none" THEN Says(b, OpenRefusal(b), 0)
    ELSE Says(b, "ok", table[Find(b.id)].data[1].e.val)

HandleRotate(b) ==
    IF OpenRefusal(b) # "none" THEN Says(b, OpenRefusal(b), 0)
    ELSE LET r == table[Find(b.id)]
         IN Stores(b, Find(b.id), r.ctr + 1, r.data[1].e.val, Len(r.data))

(* handle_list: the ids with the prefix; one that is too long is none.     *)
HandleList(b) ==
    Says(b, "ok", Cardinality({i \in SecretIds : Places(i) # {}
                                                 /\ (b.id = BadId \/ b.id = i)}))

(* handle_request; no request is taken that could not be answered.  The    *)
(* clock moves on by the scenario's pace: eight requests may share a step. *)
TakeRequest ==
    /\ phase = "normal" /\ next <= scn.reqs /\ Len(replies) < ReplyCapacity
    /\ \E b \in scn.bodies :
          \/ b.op = "put" /\ HandlePut(b)
          \/ b.op \in {"get", "derive"} /\ HandleGet(b)
          \/ b.op = "rotate" /\ HandleRotate(b)
          \/ b.op = "list" /\ HandleList(b)
    /\ next' = next + 1 /\ now' = now + scn.pace
    /\ UNCHANGED <<fs, scn, source, faults, restarts, began>>

ReadReply ==
    /\ replies # <<>> /\ replies' = Tail(replies)
    /\ UNCHANGED <<store, rewrite, fs, bounds, seals, floor>>

(***************************************************************************)
(* Starts.                                                                 *)
(***************************************************************************)
(* Nothing is owed to the file.                                            *)
Quiet == noFs \/ (stage = "idle" /\ ~dirty)

(* Mutant: the counter starts over.                                        *)
MutSeed == 0

(* The wall clock reads 0 until it is set.                                 *)
WallClock == IF scn.clock THEN now ELSE 0

(* module_new seeds the counter from the wall clock.                       *)
Seed == WallClock

(* A restart at any point.  Of the cells written since the last fence,     *)
(* each is new or still old.                                               *)
Restart ==
    /\ restarts < scn.restarts /\ restarts' = restarts + 1
    /\ phase' = "load" /\ table' = <<>> /\ kek' = 0 /\ counter' = Seed /\ began' = WallClock
    /\ noFs' = FALSE /\ dirty' = FALSE /\ stage' = "idle" /\ image' = <<>> /\ off' = 0
    /\ \E kept \in SUBSET {c \in Cells : file[c] # disk[c]} :
          disk' = [c \in Cells |-> IF c \in kept THEN file[c] ELSE disk[c]]
    /\ file' = disk' /\ there' \in {TRUE, ~scn.absent}
    /\ floor' = IF phase = "load" \/ (Quiet /\ ~noFs) THEN floor
                ELSE [i \in SecretIds |-> NoChange]
    /\ replies' = <<>>
    /\ UNCHANGED <<scn, source, now, next, faults, seals>>

Init ==
    /\ scn \in Scenarios /\ now = 1
    /\ phase = "load" /\ table = <<>> /\ kek = 0 /\ counter = Seed /\ began = WallClock
    /\ noFs = FALSE /\ dirty = FALSE /\ stage = "idle" /\ image = <<>> /\ off = 0
    /\ file = [c \in Cells |-> Hole] /\ disk = file /\ there \in {TRUE, ~scn.absent}
    /\ source = 0 /\ replies = <<>> /\ next = 1 /\ faults = 0 /\ restarts = 0
    /\ seals = {} /\ floor = [i \in SecretIds |-> NoChange]

Progress == Load \/ StepPersist \/ ReadReply

Next == Progress \/ TakeKek \/ TakeRequest \/ Restart

Spec == Init /\ [][Next]_vars

(* The store steps, its replies are read, and the provider decides; a      *)
(* provider that says "not yet" does not do so for ever.                   *)
FairSpec == Spec /\ WF_vars(Progress)
-----------------------------------------------------------------------------
(***************************************************************************)
(* Properties.                                                             *)
(***************************************************************************)
(* "The counter [is] seeded from wall-clock millis so a restart never      *)
(* reuses a nonce under the same key" (modules.md): two seals under one    *)
(* key have different nonces.                                              *)
NonceNeverReused ==
    \A a, b \in seals : a.what.kek = b.what.kek /\ a.what.nonce = b.what.nonce => a = b

(* What the seeding does give: a nonce that is used again was used before  *)
(* a restart, and that restart read the wall clock at less than the nonce, *)
(* because it was not set, or because more was sealed since the start      *)
(* before than milliseconds went by (module_new, next_nonce).  A key that  *)
(* is delivered again, a torn file or a failed fence reuses none.          *)
ReuseIsOfTheClock ==
    \A a, b \in seals :
        a # b /\ a.what.kek = b.what.kek /\ a.what.nonce = b.what.nonce =>
            \/ a.start < b.start /\ b.clock < a.what.nonce
            \/ b.start < a.start /\ a.clock < b.what.nonce

(* What was answered is read back: a read is never of an older value than  *)
(* the last change that was answered, nor is there none, nor one the key   *)
(* it was made under does not open.  A change counts until a restart that  *)
(* the rewrite had not caught up with, or a start that cannot open or read *)
(* the file; from then on the records are what the last fence left, whole  *)
(* or torn, or none (step_persist, step_load).                             *)
ReadsWhatWasAnswered ==
    \A n \in DOMAIN replies :
        LET r == replies[n] IN
        r.op \in {"get", "derive", "rotate"} /\ r.floor # NoChange =>
            /\ r.status # "not_found"
            /\ r.status = "decrypt_failed" => r.kek # r.floor.kek
            /\ r.status = "ok" => r.val >= r.floor.val

(* The rewrite catches up: what is owed is written and fenced, or the      *)
(* store is memory-only, again and again (step_persist).                   *)
RewriteCatchesUp == []<>(phase = "normal" /\ Quiet)
=============================================================================
