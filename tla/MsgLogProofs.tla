---------------------------- MODULE MsgLogProofs ----------------------------
(***************************************************************************)
(* What MsgLog promises, for every set of consumers, every size of a file, *)
(* of a socket and of a count, and any number of stops and prunes.         *)
(***************************************************************************)
EXTENDS MsgLog, FiniteSetTheorems, SequenceTheorems, TLAPS

Modes == {"step", "logend", "filend"}
FileType == [exists : BOOLEAN, headed : BOOLEAN, base : Nat, recs : Seq(Nat), footed : BOOLEAN]
WriterType ==
  [at : {"down", "ready", "create", "unlink", "symlink", "header", "footer", "record", "send"},
   file : Nat, count : Nat]
Limits == Int
ConType == [at : Places, file : Nat, idx : Nat, mode : Modes, count : Nat,
            timer : BOOLEAN, got : BOOLEAN, limit : Limits]
PlaceType == [file : Nat, idx : Nat, count : Nat]

(* The types of what the programs keep.                                    *)
DiskTypes ==
  /\ file \in [Files -> FileType] /\ link \in 0..(MaxRecords + 2)
  /\ writer \in WriterType /\ prunes \in Nat
  /\ registered \subseteq Consumer /\ request \subseteq Consumer
ConTypes ==
  /\ con \in [Consumer -> ConType]
  /\ queue \in [Consumer -> Seq(PlaceType)]
  /\ cursor \in [Consumer -> PlaceType \cup {Never}]
  /\ socket \in [Consumer -> BOOLEAN]
  /\ done \in [Consumer -> Nat \cup {Never}]
  /\ top \in [Consumer -> Nat \cup {Never}]

Total == Cardinality(Stored)

(* Each file goes on where the one before it ended, and is begun only when *)
(* that one is full; a footer is written when the next file has a header.  *)
Chained ==
  /\ \A f \in Files :
       /\ Len(file[f].recs) <= PerFile
       /\ \A i \in 1..Len(file[f].recs) : file[f].recs[i] = file[f].base + i
       /\ file[f].headed => f - 1 <= file[f].base
       /\ ~file[f].headed => file[f].recs = <<>> /\ file[f].base = 0
       /\ file[f].headed /\ prunes = 0 => file[f].exists
       /\ file[f].footed => f + 1 \in Files /\ file[f + 1].headed
  /\ file[1].base = 0
  /\ \A f \in Files \ {1} : file[f].headed => file[f].base = FinalCount(f - 1)
  /\ \A f, g \in Files : f < g /\ file[g].headed => FinalCount(f) <= file[g].base

(* The step the producer is at, when file t is the last one with a header. *)
WriterAt(t) ==
  /\ link \in {0, t, t + 1}
  /\ writer.at # "down" => writer.count = FinalCount(t)
  /\ writer.at = "down" => writer.file = 0 /\ writer.count = 0
  /\ writer.at \in {"ready", "create", "footer", "record", "send"} => writer.file = t /\ link = t
  /\ writer.at \in {"unlink", "symlink", "header"} => writer.file = t + 1
  /\ writer.at \in {"create", "unlink", "symlink", "header"} =>
       Full(t) /\ writer.count < MaxRecords
  /\ writer.at \in {"unlink", "symlink", "header"} /\ prunes = 0 => file[t + 1].exists
  /\ writer.at = "unlink" => link = t
  /\ writer.at = "symlink" => link = 0
  /\ writer.at = "header" => link = t + 1
  /\ writer.at = "footer" => file[t].recs = <<>> /\ writer.count < MaxRecords /\ t > 1
  /\ writer.at = "record" => ~Full(t) /\ writer.count < MaxRecords

Newest(t) ==
  /\ \A f \in Files : file[f].headed <=> f <= t
  /\ Total = FinalCount(t)
  /\ WriterAt(t)

Disk ==
  /\ IsFiniteSet(Stored) /\ Total <= MaxRecords
  /\ Consecutive /\ Chained
  /\ \E t \in Files : Newest(t)

(* A place in the files: just behind the record with its count.            *)
Behind(p) ==
  /\ p.file \in Files /\ file[p.file].headed
  /\ p.idx <= Len(file[p.file].recs)
  /\ p.count = file[p.file].base + p.idx

Handles == {"reading+handle", "poll+handle", "missed+handle"}
Reads == {"reading", "poll", "missed"}
Runs(r) == r.at \notin {"down", "exit"}

(* Of a consumer with the structure r, the datagrams q, the cursor file k, *)
(* and the counts d and t that were handed last and at most: what it knows *)
(* is in the log ...                                                       *)
Counts(r, q, k, d, t) ==
  /\ r.count <= Total /\ r.idx <= PerFile /\ r.file <= MaxRecords + 3
  /\ Runs(r) => k # Never /\ r.file >= 1
  /\ Len(q) <= QueueMax
  /\ \A i \in 1..Len(q) : Behind(q[i])
  /\ k = Never <=> d = Never
  /\ k = Never <=> t = Never
  /\ k # Never =>
       /\ k.file \in 1..(MaxRecords + 3) /\ k.idx <= PerFile
       /\ k.count <= d /\ t <= k.count + 2 /\ d <= t /\ t <= Total

(* ... it is little ahead of its cursor file ...                           *)
Redo(r, k, d) ==
  /\ r.at \in Handles => r.count = k.count + 1 /\ r.mode = "step" /\ r.got
  /\ r.at = "udp+cursor" => r.count \in k.count..(k.count + 2) /\ d = r.count
  /\ r.at \in Reads \cup {"listen", "idle", "udp"} =>
       r.count \in k.count..(k.count + 1) /\ r.count <= d

(* ... and it is at its place in the files, unless files were removed.     *)
Whereabouts(r, k) ==
  /\ r.at \in Reads /\ r.mode = "filend" => r.file \in Files
  /\ r.at = "missed" /\ ~r.got => r.count < Total
  /\ prunes = 0 =>
       /\ k # Never => Behind(k)
       /\ Runs(r) => Behind(r)
       /\ r.mode = "filend" =>
            r.file \in Files /\ file[r.file].footed /\ r.idx = Len(file[r.file].recs)
       /\ r.at \in {"listen", "idle", "udp", "udp+cursor"} => r.mode = "logend"
  /\ r.at = "exit" => FooterLost \/ prunes > 0

Fits(r, q, k, d, t) == Counts(r, q, k, d, t) /\ Redo(r, k, d) /\ Whereabouts(r, k)
Sound(c) == Fits(con[c], queue[c], cursor[c], done[c], top[c])

LogInv == DiskTypes /\ ConTypes /\ Disk /\ \A c \in Consumer : Sound(c)

-----------------------------------------------------------------------------
(* Counts that are less than a quarter of the range apart are told apart   *)
(* and ordered by what is left of them on the wire.                        *)
LEMMA WireProperties ==
  ASSUME NEW a \in 0..(MaxRecords + 1), NEW b \in 0..(MaxRecords + 1)
  PROVE  /\ Wire(a) = Wire(b) => a = b
         /\ CountCompare(Wire(a), Wire(b)) = 1 => b < a
<1> DEFINE R == 4 * Quarter
<1>1. /\ Quarter \in Nat /\ Before \in Nat /\ MaxRecords \in Nat /\ MaxRecords + 1 < Quarter
      /\ R \in Nat /\ R > 0
  BY BoundsAssumption
<1>2. PICK p \in Int : p = (Before + a) \div R
  BY <1>1
<1>3. PICK q \in Int : q = (Before + b) \div R
  BY <1>1
<1>4. PICK u \in 0..(R - 1) : u = Wire(a)
  BY <1>1 DEF Wire
<1>5. PICK v \in 0..(R - 1) : v = Wire(b)
  BY <1>1 DEF Wire
<1>6. Before + a = R * p + u
  BY <1>1, <1>2, <1>4 DEF Wire
<1>7. Before + b = R * q + v
  BY <1>1, <1>3, <1>5 DEF Wire
<1> HIDE DEF R
<1>8. PICK d \in Int : d = p - q
  OBVIOUS
<1>9. a - b = R * d + (u - v)
  <2>1. R * p - R * q = R * d
    BY <1>1, <1>8
  <2>2. R * p \in Int /\ R * q \in Int /\ R * d \in Int
    BY <1>1, <1>8
  <2> QED
    BY <1>1, <1>6, <1>7, <2>1, <2>2
<1>10. d = 0 \/ d = 1 \/ d = -1
  <2>1. CASE d >= 2
    <3>1. R * d >= R * 2
      BY <1>1, <2>1
    <3> QED
      BY <1>1, <1>9, <3>1 DEF R
  <2>2. CASE d <= -2
    <3>1. R * d <= R * (-2)
      BY <1>1, <2>2
    <3> QED
      BY <1>1, <1>9, <3>1 DEF R
  <2> QED
    BY <2>1, <2>2
<1>11. a - b = (IF d = 0 THEN 0 ELSE IF d = 1 THEN R ELSE -R) + (u - v)
  BY <1>1, <1>9, <1>10
<1>12. u = v => a = b
  BY <1>1, <1>10, <1>11 DEF R
<1>13. /\ u > v => b < a \/ (u > 3 * Quarter /\ v < Quarter - 1)
       /\ v > 3 * Quarter /\ u < Quarter - 1 => b < a
  BY <1>1, <1>10, <1>11 DEF R
<1>14. CountCompare(u, v) = 1 => (u > v /\ ~(u > 3 * Quarter /\ v < Quarter - 1))
                                \/ (v > 3 * Quarter /\ u < Quarter - 1)
  BY <1>1 DEF CountCompare, R
<1> QED
  BY <1>4, <1>5, <1>12, <1>13, <1>14

(* A step keeps what is in the files, and may add to it.                   *)
Grows ==
  /\ \A f \in Files :
       /\ file[f].headed => file'[f].headed /\ file'[f].base = file[f].base
       /\ Len(file[f].recs) <= Len(file'[f].recs)
       /\ file[f].footed => file'[f].footed /\ file'[f].recs = file[f].recs
  /\ Total <= Total'
  /\ FooterLost => FooterLost'
  /\ prunes' = 0 => prunes = 0

(* A pair is stored when it names a record of a file.                      *)
LEMMA StoredMember ==
  ASSUME NEW p
  PROVE  p \in Stored <=> \E f \in Files : \E i \in 1..Len(file[f].recs) : p = <<f, i>>
BY DEF Stored

(* The last count of a file is as far from its base as it is long.         *)
LEMMA FinalCountIs ==
  ASSUME DiskTypes, Chained, NEW f \in Files
  PROVE  /\ FinalCount(f) = file[f].base + Len(file[f].recs)
         /\ FinalCount(f) \in Nat /\ Len(file[f].recs) \in Nat /\ file[f].base \in Nat
         /\ file[f].recs \in Seq(Nat)
<1>1. file[f].recs \in Seq(Nat) /\ file[f].base \in Nat
  BY DEF DiskTypes, FileType
<1>2. Len(file[f].recs) \in Nat
  BY <1>1
<1>3. CASE file[f].recs = <<>>
  BY <1>1, <1>3 DEF FinalCount
<1>4. CASE file[f].recs # <<>>
  <2>1. Len(file[f].recs) \in 1..Len(file[f].recs)
    BY <1>1, <1>4
  <2>2. file[f].recs[Len(file[f].recs)] = file[f].base + Len(file[f].recs)
    BY <2>1 DEF Chained
  <2> QED
    BY <1>1, <1>2, <1>4, <2>2 DEF FinalCount
<1> QED
  BY <1>1, <1>2, <1>3, <1>4

(* A step that leaves the records alone leaves what is stored.             *)
LEMMA SameRecords ==
  ASSUME DiskTypes, DiskTypes', Disk, \A f \in Files : file'[f].recs = file[f].recs
  PROVE  /\ Stored' = Stored /\ Total' = Total /\ Consecutive' /\ IsFiniteSet(Stored')
         /\ \A f \in Files : Full(f)' = Full(f)
         /\ \A f \in Files : file'[f].base = file[f].base => FinalCount(f)' = FinalCount(f)
<1>1. Stored' = Stored
  BY DEF Stored
<1>2. \A p \in Stored : Record(p)' = Record(p)
  <2> SUFFICES ASSUME NEW p \in Stored
               PROVE  Record(p)' = Record(p)
    OBVIOUS
  <2>1. p[1] \in Files
    BY StoredMember
  <2> QED
    BY <2>1 DEF Record
<1>3. Consecutive'
  BY <1>1, <1>2 DEF Consecutive, Disk
<1> QED
  BY <1>1, <1>3 DEF Total, Full, FinalCount, Disk

(* So do all the steps but those that write a header or a record; of them  *)
(* only the one that writes a footer changes what of the footers is lost.  *)
LEMMA DiskStays ==
  ASSUME DiskTypes, DiskTypes', Disk, NEW t \in Files, Newest(t), WriterAt(t)',
         \A f \in Files : /\ file'[f].recs = file[f].recs /\ file'[f].base = file[f].base
                          /\ file'[f].headed = file[f].headed
                          /\ file'[f].headed /\ prunes' = 0 => file'[f].exists
                          /\ file[f].footed => file'[f].footed
                          /\ file'[f].footed /\ ~file[f].footed =>
                               writer.at = "footer" /\ writer.file = f + 1,
         prunes' = 0 => prunes = 0,
         writer'.at = "footer" => writer' = writer
  PROVE  Disk' /\ Grows
<1>1. /\ Stored' = Stored /\ Total' = Total /\ Consecutive' /\ IsFiniteSet(Stored')
      /\ \A f \in Files : FinalCount(f)' = FinalCount(f)
  BY SameRecords
<1>2. Total \in Nat
  BY FS_CardinalityType DEF Disk, Total
<1>3. Newest(t)'
  BY <1>1 DEF Newest
<1>4. \A f \in Files : file'[f].footed /\ ~file[f].footed => f + 1 = t
  BY DEF Newest, WriterAt
<1>5. 1 \in Files /\ \A f \in Files \ {1} : f - 1 \in Files
  BY BoundsAssumption DEF Files
<1>6. Chained'
  <2>1. \A f \in Files :
          /\ Len(file'[f].recs) <= PerFile
          /\ \A i \in 1..Len(file'[f].recs) : file'[f].recs[i] = file'[f].base + i
          /\ file'[f].headed => f - 1 <= file'[f].base
          /\ ~file'[f].headed => file'[f].recs = <<>> /\ file'[f].base = 0
          /\ file'[f].headed /\ prunes' = 0 => file'[f].exists
    BY DEF Chained, Disk
  <2>2. \A f \in Files : file'[f].footed => f + 1 \in Files /\ file'[f + 1].headed
    <3> SUFFICES ASSUME NEW f \in Files, file'[f].footed
                 PROVE  f + 1 \in Files /\ file'[f + 1].headed
      OBVIOUS
    <3>1. CASE file[f].footed
      BY <3>1 DEF Chained, Disk
    <3>2. CASE ~file[f].footed
      BY <1>4, <3>2 DEF Newest, Files
    <3> QED
      BY <3>1, <3>2
  <2>3. file'[1].base = 0
    BY <1>5 DEF Chained, Disk
  <2>4. \A f \in Files \ {1} : file'[f].headed => file'[f].base = FinalCount(f - 1)'
    BY <1>1, <1>5 DEF Chained, Disk
  <2>5. \A f, g \in Files : f < g /\ file'[g].headed => FinalCount(f)' <= file'[g].base
    BY <1>1 DEF Chained, Disk
  <2> QED
    BY <2>1, <2>2, <2>3, <2>4, <2>5 DEF Chained
<1>7. Disk'
  BY <1>1, <1>3, <1>6 DEF Disk
<1>8. Grows
  <2>1. \A f \in Files : Len(file[f].recs) <= Len(file'[f].recs)
    BY DEF DiskTypes, FileType
  <2>2. FooterLost => FooterLost'
    BY DEF FooterLost, WriterType, DiskTypes
  <2> QED
    BY <1>1, <1>2, <2>1, <2>2 DEF Grows
<1> QED
  BY <1>7, <1>8

(* A header is written behind a full file.                                 *)
LEMMA DiskHeader ==
  ASSUME DiskTypes, DiskTypes', Disk, WriteHeader
  PROVE  Disk' /\ Grows
<1> PICK t \in Files : Newest(t)
  BY DEF Disk
<1>1. PICK u \in Nat : u = t + 1
  BY DEF Files
<1>2. /\ writer.at = "header" /\ writer.file = u /\ writer.count = FinalCount(t) /\ link = u
      /\ Full(t) /\ writer.count < MaxRecords
  BY <1>1 DEF WriteHeader, Step, Newest, WriterAt
<1>3. FinalCount(t) = file[t].base + Len(file[t].recs) /\ FinalCount(t) \in Nat
      /\ file[t].base \in Nat /\ Len(file[t].recs) \in Nat
  BY FinalCountIs DEF Disk
<1>4. u \in Files /\ u > 1 /\ u - 1 <= FinalCount(t) /\ t = u - 1
  <2>1. t - 1 <= file[t].base
    BY DEF Disk, Chained, Newest, Files
  <2>2. Len(file[t].recs) >= 1
    BY <1>2, <1>3, BoundsAssumption DEF Full
  <2> QED
    <3>1. t \in Int /\ 1 <= t /\ t <= FinalCount(t) /\ FinalCount(t) < MaxRecords
      BY <1>2, <1>3, <2>1, <2>2, BoundsAssumption DEF Files
    <3> QED
      BY <1>1, <1>3, <3>1, BoundsAssumption DEF Files
<1>5. /\ ~file[u].headed /\ file[u].recs = <<>> /\ ~file[u].footed
  <2>1. ~file[u].headed
    BY <1>1, <1>4 DEF Newest, Files
  <2>2. u + 1 \in Files => ~file[u + 1].headed
    BY <1>1, <1>4 DEF Newest, Files
  <2> QED
    BY <1>4, <2>1, <2>2 DEF Disk, Chained
<1>6. /\ \A f \in Files : f # u => file'[f] = file[f]
      /\ file'[u] = [file[u] EXCEPT !.headed = TRUE, !.base = FinalCount(t)]
  BY <1>2, <1>4 DEF WriteHeader, DiskTypes
<1>7. /\ file'[u].headed /\ file'[u].base = FinalCount(t) /\ file'[u].recs = <<>> /\ ~file'[u].footed
      /\ file'[u].exists = file[u].exists
  BY <1>4, <1>5, <1>6 DEF DiskTypes, FileType
<1>8. \A f \in Files : file'[f].recs = file[f].recs
  BY <1>5, <1>6, <1>7
<1>9. /\ Stored' = Stored /\ Total' = Total /\ Consecutive' /\ IsFiniteSet(Stored')
      /\ \A f \in Files : Full(f)' = Full(f)
      /\ \A f \in Files : f # u => FinalCount(f)' = FinalCount(f)
  BY <1>6, <1>8, SameRecords
<1>10. FinalCount(u)' = FinalCount(t)
  BY <1>7 DEF FinalCount
<1>11. file'[t].headed /\ file'[t].base = file[t].base /\ file[t].headed
  BY <1>4, <1>6 DEF Newest, Files
<1>12. \A f \in Files : file'[f].headed <=> f <= u
  <2> SUFFICES ASSUME NEW f \in Files
               PROVE  file'[f].headed <=> f <= u
    OBVIOUS
  <2>1. CASE f = u
    BY <1>7, <2>1
  <2>2. CASE f # u
    <3>1. file'[f].headed <=> f <= t
      BY <1>6, <2>2 DEF Newest
    <3> QED
      BY <1>1, <2>2, <3>1 DEF Files
  <2> QED
    BY <2>1, <2>2
<1>13. writer' = [writer EXCEPT !.at = "footer"] /\ link' = link /\ prunes' = prunes
  BY DEF WriteHeader, Step, consumption, history
<1>14. WriterAt(u)'
  BY <1>2, <1>4, <1>7, <1>10, <1>13 DEF WriterAt, DiskTypes, WriterType
<1>15. Newest(u)'
  BY <1>9, <1>10, <1>12, <1>14 DEF Newest
<1>16. Chained'
  <2>1. \A f \in Files :
          /\ Len(file'[f].recs) <= PerFile
          /\ \A i \in 1..Len(file'[f].recs) : file'[f].recs[i] = file'[f].base + i
          /\ file'[f].headed => f - 1 <= file'[f].base
          /\ ~file'[f].headed => file'[f].recs = <<>> /\ file'[f].base = 0
          /\ file'[f].headed /\ prunes' = 0 => file'[f].exists
    <3> SUFFICES ASSUME NEW f \in Files
                 PROVE  /\ Len(file'[f].recs) <= PerFile
                        /\ \A i \in 1..Len(file'[f].recs) : file'[f].recs[i] = file'[f].base + i
                        /\ file'[f].headed => f - 1 <= file'[f].base
                        /\ ~file'[f].headed => file'[f].recs = <<>> /\ file'[f].base = 0
                        /\ file'[f].headed /\ prunes' = 0 => file'[f].exists
      OBVIOUS
    <3>1. CASE f = u
      <4>1. prunes = 0 => file[u].exists
        BY <1>1, <1>2 DEF Newest, WriterAt
      <4> QED
        BY <1>4, <1>7, <1>13, <3>1, <4>1, BoundsAssumption
    <3>2. CASE f # u
      BY <1>6, <1>13, <3>2 DEF Chained, Disk
    <3> QED
      BY <3>1, <3>2
  <2>2. \A f \in Files : file'[f].footed => f + 1 \in Files /\ file'[f + 1].headed
    BY <1>4, <1>5, <1>6, <1>7 DEF Chained, Disk, Newest, Files
  <2>3. file'[1].base = 0
    <3>1. 1 \in Files /\ 1 # u
      BY <1>4, BoundsAssumption DEF Files
    <3> QED
      BY <1>6, <3>1 DEF Chained, Disk
  <2>4. \A f \in Files \ {1} : file'[f].headed => file'[f].base = FinalCount(f - 1)'
    <3> SUFFICES ASSUME NEW f \in Files \ {1}, file'[f].headed
                 PROVE  file'[f].base = FinalCount(f - 1)'
      OBVIOUS
    <3>1. CASE f = u
      <4>1. FinalCount(t)' = FinalCount(t)
        BY <1>4, <1>9
      <4> QED
        BY <1>4, <1>7, <3>1, <4>1
    <3>2. CASE f # u
      <4>1. f - 1 \in Files /\ f - 1 # u /\ file[f].headed
        <5>1. f <= u /\ file[f].headed
          BY <1>6, <1>12, <3>2
        <5> QED
          BY <3>2, <5>1, BoundsAssumption DEF Files
      <4>2. FinalCount(f - 1)' = FinalCount(f - 1)
        BY <1>9, <4>1
      <4> QED
        BY <1>6, <3>2, <4>1, <4>2 DEF Chained, Disk
    <3> QED
      BY <3>1, <3>2
  <2>5. \A f, g \in Files : f < g /\ file'[g].headed => FinalCount(f)' <= file'[g].base
    <3> SUFFICES ASSUME NEW f \in Files, NEW g \in Files, f < g, file'[g].headed
                 PROVE  FinalCount(f)' <= file'[g].base
      OBVIOUS
    <3>1. FinalCount(f)' = FinalCount(f) /\ f # u
      BY <1>4, <1>9, <1>12 DEF Files
    <3>2. CASE g = u
      <4>1. f = t \/ f < t
        BY <1>4, <3>2 DEF Files
      <4>2. f < t => FinalCount(f) <= file[t].base
        BY <1>11 DEF Chained, Disk
      <4> QED
        BY SMTT(60), <1>3, <1>7, <3>1, <3>2, <4>1, <4>2, FinalCountIs DEF Disk
    <3>3. CASE g # u
      BY <1>6, <3>1, <3>3 DEF Chained, Disk
    <3> QED
      BY <3>2, <3>3
  <2> QED
    BY <2>1, <2>2, <2>3, <2>4, <2>5 DEF Chained
<1>17. Disk'
  BY <1>4, <1>9, <1>15, <1>16 DEF Disk
<1>18. Grows
  <2>1. \A f \in Files : Len(file[f].recs) \in Nat
    BY FinalCountIs DEF Disk
  <2>2. Total \in Nat
    BY FS_CardinalityType DEF Disk, Total
  <2>3. FooterLost => FooterLost'
    <3> SUFFICES ASSUME NEW f \in Files, f + 1 \in Files, file[f + 1].headed, ~file[f].footed
                 PROVE  /\ file'[f + 1].headed /\ ~file'[f].footed
                        /\ ~(writer'.at = "footer" /\ writer'.file = f + 1)
      BY DEF FooterLost
    <3>1. f + 1 # u
      BY <1>5
    <3>2. ~file'[f].footed
      BY <1>6, <1>7
    <3> QED
      BY <1>2, <1>6, <1>13, <3>1, <3>2 DEF DiskTypes, WriterType
  <2> QED
    BY <1>5, <1>6, <1>7, <1>8, <1>9, <1>13, <2>1, <2>2, <2>3 DEF Grows
<1> QED
  BY <1>17, <1>18

(* A record is written behind the last one.                                *)
LEMMA DiskRecord ==
  ASSUME DiskTypes, DiskTypes', Disk, WriteRecord
  PROVE  Disk' /\ Grows /\ Total' = Total + 1
<1> PICK t \in Files : Newest(t)
  BY DEF Disk
<1>1. /\ writer.at = "record" /\ writer.file = t /\ writer.count = FinalCount(t) /\ link = t
      /\ Len(file[t].recs) < PerFile /\ writer.count < MaxRecords
  BY SMTT(60), BoundsAssumption DEF WriteRecord, Newest, WriterAt, Full, DiskTypes, FileType
<1>2. /\ FinalCount(t) = file[t].base + Len(file[t].recs) /\ FinalCount(t) \in Nat
      /\ file[t].base \in Nat /\ Len(file[t].recs) \in Nat /\ file[t].recs \in Seq(Nat)
  BY FinalCountIs DEF Disk
<1>3. PICK k \in Nat : k = Len(file[t].recs) + 1
  BY <1>2
<1>4. PICK n \in Nat : n = FinalCount(t) + 1
  BY <1>2
<1>5. /\ \A f \in Files : f # t => file'[f] = file[f]
      /\ file'[t] = [file[t] EXCEPT !.recs = Append(file[t].recs, n)]
  BY <1>1, <1>4 DEF WriteRecord, DiskTypes
<1>6. /\ file'[t].recs = Append(file[t].recs, n) /\ file'[t].base = file[t].base
      /\ file'[t].headed = file[t].headed /\ file'[t].exists = file[t].exists
      /\ file'[t].footed = file[t].footed
  BY <1>5 DEF DiskTypes, FileType
<1>7. /\ Len(file'[t].recs) = k
      /\ \A i \in 1..(k - 1) : file'[t].recs[i] = file[t].recs[i]
      /\ file'[t].recs[k] = n
  BY <1>2, <1>3, <1>6, AppendProperties
<1>8. Stored' = Stored \cup {<<t, k>>} /\ <<t, k>> \notin Stored
  <2>1. <<t, k>> \notin Stored
    BY <1>3, StoredMember
  <2>2. ASSUME NEW p \in Stored'
        PROVE  p \in Stored \cup {<<t, k>>}
    <3>1. PICK f \in Files : \E i \in 1..Len(file'[f].recs) : p = <<f, i>>
      BY <2>2 DEF Stored
    <3>2. PICK i \in 1..Len(file'[f].recs) : p = <<f, i>>
      BY <3>1
    <3>3. CASE f = t /\ i = k
      BY <3>2, <3>3
    <3>4. CASE f = t /\ i # k
      <4>1. i \in 1..Len(file[t].recs)
        BY <1>2, <1>3, <1>7, <3>4
      <4> QED
        BY <3>2, <3>4, <4>1, StoredMember
    <3>5. CASE f # t
      BY <1>5, <3>2, <3>5, StoredMember
    <3> QED
      BY <3>3, <3>4, <3>5
  <2>3. ASSUME NEW p \in Stored \cup {<<t, k>>}
        PROVE  p \in Stored'
    <3>1. CASE p = <<t, k>>
      <4>1. k \in 1..Len(file'[t].recs)
        BY <1>2, <1>3, <1>7
      <4> QED
        BY <3>1, <4>1 DEF Stored
    <3>2. CASE p \in Stored
      <4>1. PICK f \in Files : \E i \in 1..Len(file[f].recs) : p = <<f, i>>
        BY <3>2, StoredMember
      <4>2. PICK i \in 1..Len(file[f].recs) : p = <<f, i>>
        BY <4>1
      <4>3. i \in 1..Len(file'[f].recs)
        <5>1. CASE f = t
          BY <1>2, <1>3, <1>7, <5>1
        <5>2. CASE f # t
          BY <1>5, <5>2
        <5> QED
          BY <5>1, <5>2
      <4> QED
        BY <4>2, <4>3 DEF Stored
    <3> QED
      BY <2>3, <3>1, <3>2
  <2> QED
    BY <2>1, <2>2, <2>3
<1>9. Total' = Total + 1 /\ IsFiniteSet(Stored') /\ Total \in Nat /\ Total = FinalCount(t)
  <2>1. IsFiniteSet(Stored) /\ Total = FinalCount(t)
    BY DEF Disk, Newest
  <2>2. /\ Cardinality(Stored \cup {<<t, k>>}) = Cardinality(Stored) + 1
        /\ IsFiniteSet(Stored \cup {<<t, k>>})
    BY <1>8, <2>1, FS_AddElement
  <2> QED
    BY <1>2, <1>8, <2>1, <2>2 DEF Total
<1>10. \A f \in Files : f # t => FinalCount(f)' = FinalCount(f)
  BY <1>5 DEF FinalCount
<1>11. FinalCount(t)' = n
  <2>1. file'[t].recs # <<>>
    BY <1>3, <1>7
  <2> QED
    BY <1>7, <2>1 DEF FinalCount
<1>12. \A p \in Stored : Record(p)' = Record(p)
  <2> SUFFICES ASSUME NEW p \in Stored
               PROVE  Record(p)' = Record(p)
    OBVIOUS
  <2>1. PICK f \in Files : \E i \in 1..Len(file[f].recs) : p = <<f, i>>
    BY StoredMember
  <2>2. PICK i \in 1..Len(file[f].recs) : p = <<f, i>>
    BY <2>1
  <2>3. p[1] = f /\ p[2] = i
    BY <2>2
  <2>4. CASE f = t
    BY <1>2, <1>3, <1>7, <2>2, <2>3, <2>4 DEF Record
  <2>5. CASE f # t
    BY <1>5, <2>3, <2>5 DEF Record
  <2> QED
    BY <2>4, <2>5
<1>13. Record(<<t, k>>)' = n
  BY <1>7 DEF Record
<1>14. {Record(p) : p \in Stored} = 1..FinalCount(t)
  BY <1>9 DEF Disk, Consecutive, Total
<1>15. Consecutive'
  <2>1. {Record(p)' : p \in Stored'} = 1..(FinalCount(t) + 1)
    <3>1. {Record(p)' : p \in Stored'} = {Record(p) : p \in Stored} \cup {n}
      BY <1>8, <1>12, <1>13
    <3>2. (1..FinalCount(t)) \cup {n} = 1..(FinalCount(t) + 1)
      BY <1>2, <1>4
    <3> QED
      BY <1>14, <3>1, <3>2
  <2>2. ASSUME NEW p \in Stored', NEW q \in Stored',
               p[1] < q[1] \/ (p[1] = q[1] /\ p[2] < q[2])
        PROVE  Record(p)' < Record(q)'
    <3>1. CASE q = <<t, k>>
      <4>1. p # <<t, k>>
        BY <1>3, <2>2, <3>1 DEF Files
      <4>2. p \in Stored /\ Record(p) \in 1..FinalCount(t)
        BY <1>8, <1>14, <4>1
      <4> QED
        BY <1>2, <1>4, <1>12, <1>13, <3>1, <4>2
    <3>2. CASE q # <<t, k>> /\ p = <<t, k>>
      <4>1. PICK f \in Files : \E i \in 1..Len(file[f].recs) : q = <<f, i>>
        BY <1>8, <3>2, StoredMember
      <4>2. PICK i \in 1..Len(file[f].recs) : q = <<f, i>>
        BY <4>1
      <4>3. t < f \/ (t = f /\ k < i)
        BY <2>2, <3>2, <4>2
      <4>4. t # f
        BY <1>2, <1>3, <4>2, <4>3, BoundsAssumption DEF Files
      <4>5. file[f].recs = <<>>
        BY <4>3, <4>4 DEF Newest, Disk, Chained, Files
      <4> QED
        BY <4>2, <4>5
    <3>3. CASE q # <<t, k>> /\ p # <<t, k>>
      <4>1. p \in Stored /\ q \in Stored
        BY <1>8, <3>3
      <4>2. Record(p) < Record(q)
        BY <2>2, <4>1 DEF Disk, Consecutive
      <4> QED
        BY <1>12, <4>1, <4>2
    <3> QED
      BY <3>1, <3>2, <3>3
  <2> QED
    BY <1>9, <2>1, <2>2 DEF Consecutive, Total
<1>16. Chained'
  <2>1. \A f \in Files :
          /\ Len(file'[f].recs) <= PerFile
          /\ \A i \in 1..Len(file'[f].recs) : file'[f].recs[i] = file'[f].base + i
          /\ file'[f].headed => f - 1 <= file'[f].base
          /\ ~file'[f].headed => file'[f].recs = <<>> /\ file'[f].base = 0
          /\ file'[f].headed /\ prunes' = 0 => file'[f].exists
          /\ file'[f].footed => f + 1 \in Files /\ file'[f + 1].headed
    <3> SUFFICES ASSUME NEW f \in Files
                 PROVE  /\ Len(file'[f].recs) <= PerFile
                        /\ \A i \in 1..Len(file'[f].recs) : file'[f].recs[i] = file'[f].base + i
                        /\ file'[f].headed => f - 1 <= file'[f].base
                        /\ ~file'[f].headed => file'[f].recs = <<>> /\ file'[f].base = 0
                        /\ file'[f].headed /\ prunes' = 0 => file'[f].exists
                        /\ file'[f].footed => f + 1 \in Files /\ file'[f + 1].headed
      OBVIOUS
    <3>1. prunes' = prunes
      BY DEF WriteRecord, history
    <3>2. CASE f = t
      <4>1. file[t].headed
        BY DEF Newest, Files
      <4>2. \A i \in 1..k : file'[t].recs[i] = file[t].base + i
        <5> SUFFICES ASSUME NEW i \in 1..k
                     PROVE  file'[t].recs[i] = file[t].base + i
          OBVIOUS
        <5>1. CASE i = k
          BY <1>2, <1>3, <1>4, <1>7, <5>1
        <5>2. CASE i # k
          <6>1. i \in 1..(k - 1) /\ i \in 1..Len(file[t].recs)
            BY <1>2, <1>3, <5>2
          <6> QED
            BY <1>7, <6>1 DEF Disk, Chained
        <5> QED
          BY <5>1, <5>2
      <4>3. k <= PerFile
        BY <1>1, <1>2, <1>3, BoundsAssumption
      <4>4. file[t].footed => t + 1 \in Files /\ file'[t + 1].headed
        BY <1>5 DEF Disk, Chained, Files
      <4> QED
        <5>1. /\ Len(file'[t].recs) <= PerFile
              /\ \A i \in 1..Len(file'[t].recs) : file'[t].recs[i] = file'[t].base + i
          BY <1>6, <1>7, <4>2, <4>3
        <5>2. /\ file'[t].headed /\ t - 1 <= file'[t].base
              /\ prunes' = 0 => file'[t].exists
              /\ file'[t].footed => t + 1 \in Files /\ file'[t + 1].headed
          BY <1>6, <3>1, <4>1, <4>4 DEF Disk, Chained
        <5> QED
          BY <3>2, <5>1, <5>2
    <3>3. CASE f # t
      <4>1. file[f].footed => f + 1 \in Files /\ file'[f + 1].headed
        BY <1>5, <1>6 DEF Disk, Chained
      <4> QED
        BY <1>5, <3>1, <3>3, <4>1 DEF Disk, Chained
    <3> QED
      BY <3>2, <3>3
  <2>2. file'[1].base = 0
    <3>1. 1 \in Files /\ file[1].base = 0
      BY BoundsAssumption DEF Disk, Chained, Files
    <3>2. CASE t = 1
      BY <1>6, <3>1, <3>2
    <3>3. CASE t # 1
      BY <1>5, <3>1, <3>3
    <3> QED
      BY <3>2, <3>3
  <2>3. \A f \in Files \ {1} : file'[f].headed => file'[f].base = FinalCount(f - 1)'
    <3> SUFFICES ASSUME NEW f \in Files \ {1}, file'[f].headed
                 PROVE  file'[f].base = FinalCount(f - 1)'
      OBVIOUS
    <3>1. file[f].headed /\ file'[f].base = file[f].base
      BY <1>5, <1>6
    <3>2. f <= t /\ f - 1 \in Files /\ f - 1 # t
      BY <3>1, BoundsAssumption DEF Newest, Files
    <3> QED
      BY <1>10, <3>1, <3>2 DEF Disk, Chained
  <2>4. \A f, g \in Files : f < g /\ file'[g].headed => FinalCount(f)' <= file'[g].base
    <3> SUFFICES ASSUME NEW f \in Files, NEW g \in Files, f < g, file'[g].headed
                 PROVE  FinalCount(f)' <= file'[g].base
      OBVIOUS
    <3>1. file[g].headed /\ file'[g].base = file[g].base
      BY <1>5, <1>6
    <3>2. g <= t /\ f # t
      BY <3>1 DEF Newest, Files
    <3> QED
      BY <1>10, <3>1, <3>2 DEF Disk, Chained
  <2> QED
    BY <2>1, <2>2, <2>3, <2>4 DEF Chained
<1>17. Newest(t)'
  <2>1. /\ writer' = [writer EXCEPT !.at = "send", !.count = n] /\ link' = link
    BY <1>1, <1>4 DEF WriteRecord
  <2>2. WriterAt(t)'
    BY <1>1, <1>11, <2>1 DEF WriterAt, DiskTypes, WriterType
  <2>3. \A f \in Files : file'[f].headed <=> f <= t
    BY <1>5, <1>6 DEF Newest
  <2> QED
    BY <1>4, <1>9, <1>11, <2>2, <2>3 DEF Newest
<1>18. Disk'
  <2>1. Total' <= MaxRecords
    BY <1>1, <1>2, <1>9, BoundsAssumption
  <2> QED
    BY <1>9, <1>15, <1>16, <1>17, <2>1 DEF Disk
<1>19. Grows
  <2>1. \A f \in Files : Len(file[f].recs) \in Nat
    BY FinalCountIs DEF Disk
  <2>2. ~file[t].footed
    BY DEF Disk, Chained, Newest, Files
  <2>3. writer'.at = "send"
    BY DEF WriteRecord, DiskTypes, WriterType
  <2>4. FooterLost => FooterLost'
    BY <1>5, <1>6, <2>3 DEF FooterLost
  <2>5. prunes' = prunes
    BY DEF WriteRecord, history
  <2> QED
    <3>1. \A f \in Files :
            /\ file[f].headed => file'[f].headed /\ file'[f].base = file[f].base
            /\ Len(file[f].recs) <= Len(file'[f].recs)
            /\ file[f].footed => file'[f].footed /\ file'[f].recs = file[f].recs
      <4> SUFFICES ASSUME NEW f \in Files
                   PROVE  /\ file[f].headed => file'[f].headed /\ file'[f].base = file[f].base
                          /\ Len(file[f].recs) <= Len(file'[f].recs)
                          /\ file[f].footed => file'[f].footed /\ file'[f].recs = file[f].recs
        OBVIOUS
      <4>1. CASE f = t
        BY <1>2, <1>3, <1>6, <1>7, <2>2, <4>1
      <4>2. CASE f # t
        BY <1>5, <2>1, <4>2
      <4> QED
        BY <4>1, <4>2
    <3> QED
      BY <1>9, <2>4, <2>5, <3>1 DEF Grows
<1> QED
  BY <1>9, <1>18, <1>19

-----------------------------------------------------------------------------
(* A consumer reads the log and asks for a subscription.                   *)
LEMMA ConsumerLeaves ==
  ASSUME DiskTypes, NEW c \in Consumer, Open(c) \/ ConsumerStep(c) \/ StopConsumer(c)
  PROVE  /\ UNCHANGED <<file, link, writer, registered, prunes>>
         /\ request' \subseteq Consumer
<1> USE DEF DiskTypes, disk, production, consumption, handed, history
<1>1. CASE Open(c)
  BY <1>1 DEF Open
<1>2. CASE ReadRecord(c) \/ Handle(c) \/ ReadFooter(c)
  BY ZenonT(40), <1>2 DEF ReadRecord, Handle, ReadFooter
<1>3. CASE ReadEnd(c) \/ Listen(c)
  BY <1>3 DEF ReadEnd, Listen, Subscribe
<1>4. CASE Poll(c) \/ UdpRead(c) \/ UdpEmpty(c) \/ UdpLow(c) \/ UdpHigh(c)
  BY <1>4 DEF Poll, UdpRead, UdpEmpty, UdpLow, UdpHigh
<1>5. CASE UdpHandle(c) \/ UdpCursor(c) \/ StopConsumer(c)
  BY <1>5 DEF UdpHandle, UdpCursor, StopConsumer
<1> QED
  BY <1>1, <1>2, <1>3, <1>4, <1>5 DEF ConsumerStep

(* Where the producer can be is kept by the steps that write no records.   *)
LEMMA DiskQuiet ==
  ASSUME DiskTypes, DiskTypes', Disk, UNCHANGED <<file, link, writer, prunes>>
  PROVE  Disk' /\ Grows
<1> PICK t \in Files : Newest(t)
  BY DEF Disk
<1>1. WriterAt(t)'
  BY DEF Newest, WriterAt, Full, FinalCount
<1>2. \A f \in Files : file[f].headed /\ prunes = 0 => file[f].exists
  BY DEF Disk, Chained
<1> QED
  BY <1>1, <1>2, DiskStays

(* The last file with a header.                                            *)
LEMMA LastFile ==
  ASSUME DiskTypes, Disk, NEW t \in Files, Newest(t)
  PROVE  /\ t \in Int /\ 1 <= t /\ t - 1 <= file[t].base /\ file[t].headed
         /\ file[t].base \in Nat /\ Len(file[t].recs) \in Nat
         /\ FinalCount(t) = file[t].base + Len(file[t].recs) /\ FinalCount(t) \in Nat
<1>1. t \in Int /\ 1 <= t
  BY DEF Files
<1>2. file[t].headed
  BY <1>1 DEF Newest
<1>3. t - 1 <= file[t].base
  BY <1>2 DEF Disk, Chained
<1> QED
  BY <1>1, <1>2, <1>3, FinalCountIs DEF Disk

(* The steps of the producer keep the types of what is on disk.            *)
LEMMA ProducerKeepsTypes ==
  ASSUME DiskTypes, Disk, Produce \/ ProducerStep \/ StopProducer
  PROVE  DiskTypes'
<1> PICK t \in Files : Newest(t)
  BY DEF Disk
<1> USE DEF disk, production, consumption, handed, history
<1>1. /\ FinalCount(t) \in Nat /\ MaxRecords \in Nat /\ PerFile \in Nat
      /\ \A f \in Files : FinalCount(f) \in Nat
  BY FinalCountIs, BoundsAssumption DEF Disk
<1>2. writer.at \in {"create", "unlink", "symlink", "header"} => writer.file + 1 \in Nat
  BY DEF DiskTypes, WriterType
<1>3. CASE Produce
  <2>1. link \in Files
    BY <1>1, <1>3 DEF Produce, DiskTypes, Files
  <2> QED
    BY <1>1, <1>3, <2>1 DEF Produce, DiskTypes, WriterType, Files
<1>4. CASE Write \/ RemoveLink \/ StopProducer
  <2>1. writer' \in WriterType
    BY <1>4 DEF Write, RemoveLink, StopProducer, Step, DiskTypes, WriterType
  <2>2. UNCHANGED <<file, prunes>> /\ link' \in {0, link}
        /\ registered' \in {{}, registered} /\ request' \in {{}, request}
    BY <1>4 DEF Write, RemoveLink, StopProducer
  <2> QED
    BY <1>1, <2>1, <2>2 DEF DiskTypes
<1>5. CASE CreateFile
  <2>1. file' \in [Files -> FileType]
    BY <1>5 DEF CreateFile, DiskTypes, FileType
  <2> QED
    <3>1. writer' \in WriterType
      BY <1>2, <1>5 DEF CreateFile, DiskTypes, WriterType
    <3>2. UNCHANGED <<link, prunes, registered, request>>
      BY <1>5 DEF CreateFile
    <3> QED
      BY <2>1, <3>1, <3>2 DEF DiskTypes
<1>6. CASE MakeLink
  <2>1. writer.file = t + 1 /\ Full(t) /\ writer.count < MaxRecords /\ writer.count = FinalCount(t)
    BY <1>6 DEF MakeLink, Step, Newest, WriterAt
  <2>2. t - 1 <= file[t].base /\ FinalCount(t) = file[t].base + Len(file[t].recs)
        /\ Len(file[t].recs) \in Nat /\ file[t].base \in Nat /\ t \in Int /\ 1 <= t
    BY LastFile
  <2>3. Len(file[t].recs) >= 1
    BY <1>1, <2>1, <2>2, BoundsAssumption DEF Full
  <2>4. t + 1 \in 0..(MaxRecords + 2)
    BY <1>1, <2>1, <2>2, <2>3
  <2> QED
    BY <1>6, <2>1, <2>4 DEF MakeLink, Step, DiskTypes, WriterType
<1>7. CASE WriteHeader
  <2>1. writer.count \in Nat
    BY DEF DiskTypes, WriterType
  <2>2. file' \in [Files -> FileType]
    BY <1>7, <2>1 DEF WriteHeader, Step, DiskTypes, FileType
  <2> QED
    BY <1>7, <2>2 DEF WriteHeader, Step, DiskTypes, WriterType
<1>8. CASE WriteFooter
  <2>1. file' \in [Files -> FileType]
    BY <1>8 DEF WriteFooter, Step, DiskTypes, FileType
  <2> QED
    BY <1>8, <2>1 DEF WriteFooter, Step, DiskTypes, WriterType
<1>9. CASE WriteRecord
  <2>1. writer.file \in Files /\ writer.count + 1 \in Nat
    BY <1>9 DEF WriteRecord, Newest, WriterAt, DiskTypes, WriterType
  <2>2. Append(file[writer.file].recs, writer.count + 1) \in Seq(Nat)
    BY <2>1, AppendProperties DEF DiskTypes, FileType
  <2>3. file' \in [Files -> FileType]
    BY <1>9, <2>1, <2>2 DEF WriteRecord, DiskTypes, FileType
  <2> QED
    BY <1>9, <2>1, <2>3 DEF WriteRecord, DiskTypes, WriterType
<1>10. CASE Send
  BY <1>10 DEF Send, Step, DiskTypes, WriterType
<1>11. CASE \E c \in Consumer : Register(c)
  BY <1>11 DEF Register, DiskTypes
<1> QED
  BY <1>3, <1>4, <1>5, <1>6, <1>7, <1>8, <1>9, <1>10, <1>11 DEF ProducerStep

(* The files, the link and the producer, after a step of anyone; one step  *)
(* stores one record, the others none.                                     *)
LEMMA DiskNext ==
  ASSUME DiskTypes, Disk, [Next]_vars
  PROVE  DiskTypes' /\ Disk' /\ Grows /\ (WriteRecord \/ Total' = Total)
<1> PICK t \in Files : Newest(t)
  BY DEF Disk
<1> USE DEF disk, production, consumption, handed, history
<1>1. /\ FinalCount(t) \in Nat /\ MaxRecords \in Nat /\ PerFile \in Nat /\ t \in Int
      /\ \A f \in Files : file[f].headed /\ prunes = 0 => file[f].exists
      /\ t \in Files /\ file[t].headed
  <2>1. \A f \in Files : file[f].headed /\ prunes = 0 => file[f].exists
    BY DEF Disk, Chained
  <2>2. MaxRecords \in Nat /\ PerFile \in Nat
    BY BoundsAssumption
  <2> QED
    BY <2>1, <2>2, LastFile
<1>2. CASE Produce
  <2>1. DiskTypes'
    BY <1>2, ProducerKeepsTypes
  <2>2. link = t
    <3>1. link \in Files
      BY <1>1, <1>2 DEF Produce, DiskTypes, Files
    <3> QED
      BY <1>1, <1>2, <3>1 DEF Produce, Newest, WriterAt, Files
  <2>3. WriterAt(t)'
    BY <1>2, <2>2 DEF Produce, WriterAt, FinalCount
  <2>4. Disk' /\ Grows
    BY <1>1, <1>2, <2>1, <2>3, DiskStays DEF Produce
  <2> QED
    BY <1>2, <2>1, <2>4, SameRecords DEF Produce
<1>3. CASE Write \/ RemoveLink \/ MakeLink \/ StopProducer
  <2>1. DiskTypes'
    BY <1>3, ProducerKeepsTypes DEF ProducerStep
  <2>2. UNCHANGED <<file, prunes>> /\ writer'.at # "footer"
    BY <1>3 DEF Write, RemoveLink, MakeLink, StopProducer, Step, DiskTypes, WriterType
  <2>3. WriterAt(t)'
    BY SMTT(60), <1>1, <1>3, <2>2 DEF Write, RemoveLink, MakeLink, StopProducer, Step, Newest, WriterAt,
                            Full, FinalCount, DiskTypes, WriterType
  <2>4. Disk' /\ Grows
    BY <1>1, <2>1, <2>2, <2>3, DiskStays
  <2> QED
    BY <2>1, <2>2, <2>4, SameRecords
<1>4. CASE CreateFile
  <2>1. DiskTypes'
    BY <1>4, ProducerKeepsTypes DEF ProducerStep
  <2>2. /\ writer.at = "create" /\ writer.file = t /\ link = t /\ Full(t)
        /\ writer.count < MaxRecords /\ writer.count = FinalCount(t)
    BY <1>4 DEF CreateFile, Newest, WriterAt
  <2>3. PICK u \in Int : u = t + 1
    BY <1>1
  <2>4. u \in Files /\ u # t
    <3>1. t - 1 <= file[t].base /\ FinalCount(t) = file[t].base + Len(file[t].recs)
          /\ Len(file[t].recs) \in Nat /\ file[t].base \in Nat /\ 1 <= t
      BY FinalCountIs, <1>1 DEF Disk, Chained, Files
    <3>2. Len(file[t].recs) >= 1
      BY <1>1, <2>2, <3>1, BoundsAssumption DEF Full
    <3> QED
      BY <1>1, <2>2, <2>3, <3>1, <3>2 DEF Files
  <2>5. /\ \A f \in Files : f # u => file'[f] = file[f]
        /\ file'[u] = [file[u] EXCEPT !.exists = TRUE]
        /\ writer' = [writer EXCEPT !.at = "unlink", !.file = u]
        /\ link' = link /\ prunes' = prunes
    BY <1>4, <2>2, <2>3, <2>4 DEF CreateFile, DiskTypes
  <2>6. /\ file'[u].recs = file[u].recs /\ file'[u].base = file[u].base /\ file'[u].exists
        /\ file'[u].headed = file[u].headed /\ file'[u].footed = file[u].footed
    BY <2>4, <2>5 DEF DiskTypes, FileType
  <2>7. writer'.at = "unlink" /\ writer'.file = u /\ writer'.count = writer.count
    BY <2>5 DEF DiskTypes, WriterType
  <2>8. Full(t)' = Full(t) /\ FinalCount(t)' = FinalCount(t)
    BY <2>4, <2>5 DEF Full, FinalCount
  <2>9. WriterAt(t)'
    BY <2>2, <2>3, <2>5, <2>6, <2>7, <2>8 DEF WriterAt
  <2>10. \A f \in Files : /\ file'[f].recs = file[f].recs /\ file'[f].base = file[f].base
                          /\ file'[f].headed = file[f].headed
                          /\ file'[f].headed /\ prunes' = 0 => file'[f].exists
                          /\ file'[f].footed = file[f].footed
    BY <1>1, <2>5, <2>6
  <2>11. Disk' /\ Grows
    BY <2>1, <2>5, <2>7, <2>9, <2>10, DiskStays
  <2> QED
    BY <2>1, <2>10, <2>11, SameRecords
<1>5. CASE WriteHeader
  <2>1. DiskTypes'
    BY <1>5, ProducerKeepsTypes DEF ProducerStep
  <2>2. Disk' /\ Grows
    BY <1>5, <2>1, DiskHeader
  <2>3. \A f \in Files : file'[f].recs = file[f].recs
    BY <1>5 DEF WriteHeader, DiskTypes, FileType
  <2> QED
    BY <2>1, <2>2, <2>3, SameRecords
<1>6. CASE WriteFooter
  <2>1. DiskTypes'
    BY <1>6, ProducerKeepsTypes DEF ProducerStep
  <2>2. writer.at = "footer" /\ writer.file = t /\ t > 1
    BY <1>6 DEF WriteFooter, Step, Newest, WriterAt
  <2>3. PICK u \in Int : u = t - 1
    BY <1>1
  <2>4. u \in Files /\ u # t /\ u + 1 = t
    BY <1>1, <2>2, <2>3 DEF Files
  <2>5. /\ \A f \in Files : f # u => file'[f] = file[f]
        /\ file'[u] = [file[u] EXCEPT !.footed = TRUE]
        /\ writer' = [writer EXCEPT !.at = "record"]
        /\ link' = link /\ prunes' = prunes
    BY <1>6, <2>2, <2>3, <2>4 DEF WriteFooter, Step, DiskTypes
  <2>6. /\ file'[u].recs = file[u].recs /\ file'[u].base = file[u].base
        /\ file'[u].exists = file[u].exists
        /\ file'[u].headed = file[u].headed /\ file'[u].footed
    BY <2>4, <2>5 DEF DiskTypes, FileType
  <2>7. writer'.at = "record" /\ writer'.file = t /\ writer'.count = writer.count
    BY <2>2, <2>5 DEF DiskTypes, WriterType
  <2>8. FinalCount(t)' = FinalCount(t) /\ ~Full(t)'
    <3>1. file[t].recs = <<>> /\ file'[t].recs = <<>>
      BY <1>1, <2>2, <2>4, <2>5 DEF Newest, WriterAt
    <3>2. ~(0 >= PerFile)
      BY BoundsAssumption
    <3> QED
      BY <1>1, <2>4, <2>5, <3>1, <3>2 DEF Full, FinalCount
  <2>9. WriterAt(t)'
    BY <1>1, <2>2, <2>5, <2>7, <2>8 DEF Newest, WriterAt
  <2>10. \A f \in Files : /\ file'[f].recs = file[f].recs /\ file'[f].base = file[f].base
                          /\ file'[f].headed = file[f].headed
                          /\ file'[f].headed /\ prunes' = 0 => file'[f].exists
                          /\ file[f].footed => file'[f].footed
                          /\ file'[f].footed /\ ~file[f].footed => f = u
    BY <1>1, <2>5, <2>6
  <2>11. Disk' /\ Grows
    BY <2>1, <2>2, <2>4, <2>5, <2>7, <2>9, <2>10, DiskStays
  <2> QED
    BY <2>1, <2>10, <2>11, SameRecords
<1>7. CASE WriteRecord
  BY <1>7, ProducerKeepsTypes, DiskRecord DEF ProducerStep
<1>8. CASE Send
  <2>1. DiskTypes'
    BY <1>8, ProducerKeepsTypes DEF ProducerStep
  <2>2. UNCHANGED <<file, link, prunes>> /\ writer' = [writer EXCEPT !.at = "ready"]
        /\ writer.at = "send"
    BY <1>8 DEF Send, Step
  <2>3. WriterAt(t)'
    BY <1>1, <2>2 DEF Newest, WriterAt, FinalCount, DiskTypes, WriterType
  <2>4. writer'.at # "footer"
    BY <2>2 DEF DiskTypes, WriterType
  <2>5. Disk' /\ Grows
    BY <1>1, <2>1, <2>2, <2>3, <2>4, DiskStays
  <2> QED
    BY <2>1, <2>2, <2>5, SameRecords
<1>9. CASE \E c \in Consumer : Register(c)
  <2>1. DiskTypes'
    BY <1>9, ProducerKeepsTypes DEF ProducerStep
  <2>2. UNCHANGED <<file, link, writer, prunes>>
    BY <1>9 DEF Register
  <2> QED
    BY <2>1, <2>2, DiskQuiet, SameRecords
<1>10. CASE \E c \in Consumer : Open(c) \/ ConsumerStep(c) \/ StopConsumer(c)
  <2>1. /\ UNCHANGED <<file, link, writer, registered, prunes>>
        /\ request' \subseteq Consumer
    BY <1>10, ConsumerLeaves
  <2>2. DiskTypes'
    BY <2>1 DEF DiskTypes
  <2> QED
    BY <2>1, <2>2, DiskQuiet, SameRecords
<1>11. CASE \E f \in Files \ {1} : Prune(f)
  <2>1. /\ file' \in [Files -> FileType] /\ prunes' \in Nat /\ prunes' # 0
        /\ UNCHANGED <<link, writer, registered, request>>
    <3>1. UNCHANGED <<link, writer, registered, request>> /\ prunes' = prunes + 1
      BY <1>11 DEF Prune
    <3>2. file' \in [Files -> FileType]
      <4>1. \A f \in Files : [file[f] EXCEPT !.exists = FALSE] \in FileType /\ file[f] \in FileType
        BY DEF DiskTypes, FileType
      <4>2. PICK b \in Files : file' = [g \in Files |-> IF g < b THEN [file[g] EXCEPT !.exists = FALSE]
                                                             ELSE file[g]]
        BY <1>11 DEF Prune
      <4> QED
        BY <4>1, <4>2
    <3> QED
      BY <3>1, <3>2 DEF DiskTypes
  <2>2. DiskTypes'
    BY <2>1 DEF DiskTypes
  <2>3. \A f \in Files : /\ file'[f].recs = file[f].recs /\ file'[f].base = file[f].base
                         /\ file'[f].headed = file[f].headed
                         /\ file'[f].footed = file[f].footed
    BY <1>11 DEF Prune, DiskTypes, FileType
  <2>4. FinalCount(t)' = FinalCount(t) /\ Full(t)' = Full(t)
    BY <2>3 DEF FinalCount, Full
  <2>5. WriterAt(t)'
    BY <1>1, <2>1, <2>3, <2>4 DEF Newest, WriterAt
  <2>6. Disk' /\ Grows
    BY <2>1, <2>2, <2>3, <2>5, DiskStays
  <2> QED
    BY <2>2, <2>3, <2>6, SameRecords
<1>12. CASE UNCHANGED vars
  <2>1. UNCHANGED <<file, link, writer, prunes, registered, request>>
    BY <1>12 DEF vars
  <2>2. DiskTypes'
    BY <2>1 DEF DiskTypes
  <2> QED
    BY <2>1, <2>2, DiskQuiet, SameRecords
<1> QED
  BY <1>2, <1>3, <1>4, <1>5, <1>6, <1>7, <1>8, <1>9, <1>10, <1>11, <1>12
  DEF Next, ProducerStep

-----------------------------------------------------------------------------
(* A place in the files stays one.                                         *)
LEMMA BehindStays ==
  ASSUME DiskTypes, DiskTypes', Grows, NEW p \in [file : Nat, idx : Nat, count : Nat], Behind(p)
  PROVE  Behind(p)'
<1>1. /\ p.file \in Files /\ p.idx \in Nat
      /\ Len(file[p.file].recs) \in Nat /\ Len(file'[p.file].recs) \in Nat
  BY DEF Behind, DiskTypes, FileType
<1> QED
  BY <1>1 DEF Behind, Grows

(* What fits the files goes on to fit them.                                *)
LEMMA FitsStays ==
  ASSUME DiskTypes, DiskTypes', Disk, Disk', Grows,
         NEW r \in ConType, NEW q \in Seq(PlaceType), NEW k \in PlaceType \cup {Never},
         NEW d \in Nat \cup {Never}, NEW t \in Nat \cup {Never}, Fits(r, q, k, d, t)
  PROVE  Fits(r, q, k, d, t)'
<1>1. Total \in Nat /\ Total' \in Nat /\ Total <= Total'
  BY FS_CardinalityType DEF Disk, Total, Grows
<1>2. Counts(r, q, k, d, t)'
  <2>1. \A i \in 1..Len(q) : Behind(q[i])'
    <3>1. \A i \in 1..Len(q) : q[i] \in PlaceType /\ Behind(q[i])
      BY DEF Fits, Counts
    <3> QED
      BY <3>1, BehindStays DEF PlaceType
  <2>2. r.count \in Nat /\ (t # Never => t \in Nat)
    BY DEF ConType
  <2> QED
    BY SMTT(60), <1>1, <2>1, <2>2 DEF Fits, Counts
<1>3. Redo(r, k, d)'
  BY DEF Fits, Redo
<1>4. Whereabouts(r, k)'
  <2>1. r.at = "missed" /\ ~r.got => r.count < Total'
    BY <1>1 DEF Fits, Whereabouts, ConType
  <2>2. prunes' = 0 => prunes = 0
    BY DEF Grows
  <2>3. prunes = 0 =>
          /\ k # Never => Behind(k)'
          /\ Runs(r) => Behind(r)'
    <3>1. k # Never => k \in PlaceType
      OBVIOUS
    <3>2. prunes = 0 /\ Runs(r) => Behind(r)'
      <4> SUFFICES ASSUME Behind(r)
                   PROVE  Behind(r)'
        BY DEF Fits, Whereabouts
      <4>1. /\ r.file \in Files /\ r.idx \in Nat
            /\ Len(file[r.file].recs) \in Nat /\ Len(file'[r.file].recs) \in Nat
        BY DEF Behind, DiskTypes, FileType, ConType
      <4> QED
        BY <4>1 DEF Behind, Grows
    <3> QED
      BY <3>1, <3>2, BehindStays DEF Fits, Whereabouts, PlaceType
  <2>4. prunes = 0 /\ r.mode = "filend" =>
          r.file \in Files /\ file'[r.file].footed /\ r.idx = Len(file'[r.file].recs)
    BY DEF Fits, Whereabouts, Grows
  <2>5. r.at = "exit" => FooterLost' \/ prunes' > 0
    BY DEF Fits, Whereabouts, Grows, DiskTypes
  <2> QED
    BY <2>1, <2>2, <2>3, <2>4, <2>5 DEF Fits, Whereabouts
<1> QED
  BY <1>2, <1>3, <1>4 DEF Fits

(* The step of a consumer that leaves it with these.                       *)
Leaves(c, r, q, k, d, t) ==
  /\ con' = [con EXCEPT ![c] = r] /\ queue' = [queue EXCEPT ![c] = q]
  /\ cursor' = [cursor EXCEPT ![c] = k] /\ socket' \in [Consumer -> BOOLEAN]
  /\ done' = [done EXCEPT ![c] = d] /\ top' = [top EXCEPT ![c] = t]

(* The others are as they were when one consumer takes a step.             *)
LEMMA ConsumerSound ==
  ASSUME DiskTypes, DiskTypes', ConTypes, Disk, Disk', Grows, \A e \in Consumer : Sound(e),
         NEW c \in Consumer, NEW r \in ConType, NEW q \in Seq(PlaceType), NEW k \in PlaceType,
         NEW d \in Nat, NEW t \in Nat, Fits(r, q, k, d, t),
         Leaves(c, r, q, k, d, t)
  PROVE  ConTypes' /\ \A e \in Consumer : Sound(e)'
<1> USE DEF Leaves
<1>1. ConTypes'
  BY DEF ConTypes
<1>2. ASSUME NEW e \in Consumer
      PROVE  Sound(e)'
  <2>1. CASE e = c
    <3>1. Fits(r, q, k, d, t)'
      BY FitsStays
    <3>2. con'[e] = r /\ queue'[e] = q /\ cursor'[e] = k /\ done'[e] = d /\ top'[e] = t
      BY <2>1 DEF ConTypes
    <3> QED
      BY <3>1, <3>2 DEF Sound
  <2>2. CASE e # c
    <3>1. PICK r1 \in ConType : r1 = con[e]
      BY DEF ConTypes
    <3>2. PICK q1 \in Seq(PlaceType) : q1 = queue[e]
      BY DEF ConTypes
    <3>3. PICK k1 \in PlaceType \cup {Never} : k1 = cursor[e]
      BY DEF ConTypes
    <3>4. PICK d1 \in Nat \cup {Never} : d1 = done[e]
      BY DEF ConTypes
    <3>5. PICK t1 \in Nat \cup {Never} : t1 = top[e]
      BY DEF ConTypes
    <3>6. Fits(r1, q1, k1, d1, t1)
      BY <3>1, <3>2, <3>3, <3>4, <3>5 DEF Sound
    <3>7. Fits(r1, q1, k1, d1, t1)'
      BY <3>6, FitsStays
    <3>8. con'[e] = r1 /\ queue'[e] = q1 /\ cursor'[e] = k1 /\ done'[e] = d1 /\ top'[e] = t1
      BY <2>2, <3>1, <3>2, <3>3, <3>4, <3>5 DEF ConTypes
    <3> QED
      BY <3>7, <3>8 DEF Sound
  <2> QED
    BY <2>1, <2>2
<1> QED
  BY <1>1, <1>2

-----------------------------------------------------------------------------
(* The limit on the datagrams that are handled in one go is a number.      *)
LEMMA LimitNumbers == 0 \in Limits /\ Limit \in Limits /\ \A n \in Limits : n - 1 \in Limits
BY BoundsAssumption DEF Limits

(* The steps a consumer can be at.                                         *)
LEMMA PlaceNames ==
  /\ {"exit", "reading", "poll", "missed", "listen", "idle", "udp", "udp+cursor"} \subseteq Places
  /\ {"reading+handle", "poll+handle", "missed+handle"} \subseteq Places
BY DEF Places

(* The variables of a consumer that runs.                                  *)
LEMMA Current ==
  ASSUME ConTypes, NEW c \in Consumer, Sound(c), Up(c)
  PROVE  /\ con[c] \in ConType /\ Runs(con[c]) /\ queue[c] \in Seq(PlaceType)
         /\ cursor[c] \in PlaceType /\ done[c] \in Nat /\ top[c] \in Nat
         /\ Fits(con[c], queue[c], cursor[c], done[c], top[c])
         /\ queue = [queue EXCEPT ![c] = queue[c]] /\ cursor = [cursor EXCEPT ![c] = cursor[c]]
         /\ done = [done EXCEPT ![c] = done[c]] /\ top = [top EXCEPT ![c] = top[c]]
<1>1. cursor[c] # Never /\ done[c] # Never /\ top[c] # Never
  BY DEF Sound, Fits, Counts, Up, Runs
<1> QED
  BY <1>1 DEF ConTypes, Sound, Up, Runs

(* The steps that change neither the place of a consumer nor its counts.   *)
LEMMA QuietStepSound ==
  ASSUME DiskTypes, DiskTypes', ConTypes, Disk, Disk', Grows, \A e \in Consumer : Sound(e),
         NEW c \in Consumer, Listen(c) \/ Poll(c) \/ UdpRead(c) \/ UdpEmpty(c) \/ UdpLow(c)
  PROVE  ConTypes' /\ \A e \in Consumer : Sound(e)'
<1> USE DEF disk, production, consumption, handed, history
<1>1. Up(c)
  BY DEF Listen, Poll, UdpRead, UdpEmpty, UdpLow, Up
<1> PICK r \in ConType : r = con[c]
  BY DEF ConTypes
<1> PICK q \in Seq(PlaceType) : q = queue[c]
  BY DEF ConTypes
<1> PICK k \in PlaceType : k = cursor[c]
  BY <1>1, Current
<1> PICK d \in Nat : d = done[c]
  BY <1>1, Current
<1> PICK t \in Nat : t = top[c]
  BY <1>1, Current
<1>2. Fits(r, q, k, d, t)
  BY DEF Sound
<1>3. ASSUME NEW s \in ConType, NEW p \in Seq(PlaceType),
             con' = [con EXCEPT ![c] = s], queue' = [queue EXCEPT ![c] = p],
             socket' \in [Consumer -> BOOLEAN], UNCHANGED <<cursor, done, top>>,
             s.count = r.count, s.file = r.file, s.idx = r.idx, s.mode = r.mode,
             s.at \in {"idle", "poll", "udp"}, s.at = "poll" => s.file \in Files,
             r.at \in {"listen", "idle", "udp"},
             Len(p) <= QueueMax, \A i \in 1..Len(p) : Behind(p[i])
      PROVE  ConTypes' /\ \A e \in Consumer : Sound(e)'
  <2>1. Behind(r) => Behind(s)
    BY <1>3 DEF Behind
  <2>2. Counts(s, p, k, d, t)
    BY <1>2, <1>3 DEF Fits, Counts, Runs
  <2>3. Redo(s, k, d)
    BY <1>2, <1>3 DEF Fits, Redo, Reads, Handles
  <2>4. Whereabouts(s, k)
    BY <1>2, <1>3, <2>1 DEF Fits, Whereabouts, Reads, Runs
  <2>5. Fits(s, p, k, d, t)
    BY <2>2, <2>3, <2>4 DEF Fits
  <2>6. Leaves(c, s, p, k, d, t)
    BY <1>1, <1>3, Current DEF Leaves
  <2> QED
    BY <1>3, <2>5, <2>6, ConsumerSound
<1>4. queue = [queue EXCEPT ![c] = q]
  BY DEF ConTypes
<1>5. Len(q) <= QueueMax /\ \A i \in 1..Len(q) : Behind(q[i])
  BY <1>2 DEF Fits, Counts
<1>6. socket \in [Consumer -> BOOLEAN]
  BY DEF ConTypes
<1>7. CASE Listen(c)
  <2> DEFINE s == [r EXCEPT !.at = "idle", !.timer = TRUE]
  <2>1. s \in ConType /\ s.count = r.count /\ s.file = r.file /\ s.idx = r.idx
        /\ s.mode = r.mode /\ s.at = "idle"
    BY PlaceNames DEF ConType
  <2>2. PICK p \in Seq(PlaceType) : p = <<>>
    <3>1. <<>> \in Seq(PlaceType)
      OBVIOUS
    <3> QED
      BY <3>1
  <2>3. Len(p) <= QueueMax /\ \A i \in 1..Len(p) : Behind(p[i])
    BY <2>2, BoundsAssumption
  <2>4. con' = [con EXCEPT ![c] = s] /\ queue' = [queue EXCEPT ![c] = p]
        /\ socket' \in [Consumer -> BOOLEAN] /\ UNCHANGED <<cursor, done, top>>
        /\ r.at = "listen"
    BY <1>6, <1>7, <2>2 DEF Listen, Become
  <2> HIDE DEF s
  <2> QED
    BY <1>3, <2>1, <2>3, <2>4
<1>8. CASE Poll(c)
  <2> DEFINE s == [r EXCEPT !.at = "poll", !.timer = FALSE, !.got = FALSE]
  <2>1. s \in ConType /\ s.count = r.count /\ s.file = r.file /\ s.idx = r.idx
        /\ s.mode = r.mode /\ s.at = "poll"
    BY PlaceNames DEF ConType
  <2>2. con' = [con EXCEPT ![c] = s] /\ UNCHANGED <<queue, socket, cursor, done, top>>
        /\ r.at = "idle" /\ r.file \in Files
    BY <1>8 DEF Poll, Become
  <2> HIDE DEF s
  <2> QED
    BY <1>3, <1>4, <1>5, <1>6, <2>1, <2>2
<1>9. CASE UdpRead(c)
  <2> DEFINE s == [r EXCEPT !.at = "udp", !.timer = FALSE, !.limit = Limit]
  <2>1. s \in ConType /\ s.count = r.count /\ s.file = r.file /\ s.idx = r.idx
        /\ s.mode = r.mode /\ s.at = "udp"
    BY PlaceNames, LimitNumbers DEF ConType
  <2>2. con' = [con EXCEPT ![c] = s] /\ UNCHANGED <<queue, socket, cursor, done, top>>
        /\ r.at = "idle"
    BY <1>9 DEF UdpRead, Become
  <2> HIDE DEF s
  <2> QED
    BY <1>3, <1>4, <1>5, <1>6, <2>1, <2>2
<1>10. CASE UdpEmpty(c)
  <2> DEFINE s == [r EXCEPT !.at = "idle", !.timer = TRUE, !.limit = 0, !.got = FALSE]
  <2>1. s \in ConType /\ s.count = r.count /\ s.file = r.file /\ s.idx = r.idx
        /\ s.mode = r.mode /\ s.at = "idle"
    BY PlaceNames, LimitNumbers DEF ConType
  <2>2. con' = [con EXCEPT ![c] = s] /\ UNCHANGED <<queue, socket, cursor, done, top>>
        /\ r.at = "udp"
    BY <1>10 DEF UdpEmpty, Become
  <2> HIDE DEF s
  <2> QED
    BY <1>3, <1>4, <1>5, <1>6, <2>1, <2>2
<1>11. CASE UdpLow(c)
  <2>1. /\ r.at = "udp" /\ q # <<>> /\ queue' = [queue EXCEPT ![c] = Tail(q)]
        /\ UNCHANGED <<con, socket, cursor, done, top>>
    BY <1>11 DEF UdpLow
  <2>2. con = [con EXCEPT ![c] = r]
    BY DEF ConTypes
  <2>3. /\ Tail(q) \in Seq(PlaceType) /\ Len(Tail(q)) = Len(q) - 1 /\ Len(q) \in Nat
        /\ \A i \in 1..Len(Tail(q)) : Tail(q)[i] = q[i + 1]
    BY <2>1, HeadTailProperties
  <2>4. Len(Tail(q)) <= QueueMax /\ \A i \in 1..Len(Tail(q)) : Behind(Tail(q)[i])
    <3>1. \A i \in 1..Len(Tail(q)) : i + 1 \in 1..Len(q) /\ Behind(q[i + 1])
      BY <1>5, <2>3
    <3> QED
      BY <1>5, <2>3, <3>1, BoundsAssumption
  <2> QED
    BY <1>3, <1>6, <2>1, <2>2, <2>3, <2>4
<1> QED
  BY <1>7, <1>8, <1>9, <1>10, <1>11

(* A consumer that has ended knows its cursor file.                        *)
LEMMA FitsIdle ==
  ASSUME DiskTypes, Disk, NEW r \in ConType, NEW q \in Seq(PlaceType), NEW k \in PlaceType,
         NEW d \in Nat, NEW t \in Nat, Fits(r, q, k, d, t), NEW a \in {"down", "exit"},
         a = "exit" => FooterLost \/ prunes > 0
  PROVE  /\ [Idle EXCEPT !.at = a] \in ConType
         /\ Fits([Idle EXCEPT !.at = a], <<>>, k, d, t)
<1>1. PICK s : s = [Idle EXCEPT !.at = a]
  OBVIOUS
<1>2. s.at = a /\ s.file = 0 /\ s.idx = 0 /\ s.mode = "step" /\ s.count = 0 /\ s \in ConType
  <2>1. a \in Places
    BY DEF Places
  <2> QED
    BY <1>1, <2>1, LimitNumbers DEF Idle, ConType, Modes
<1>3. Total \in Nat /\ PerFile \in Nat /\ MaxRecords \in Nat /\ QueueMax \in Nat
  BY FS_CardinalityType, BoundsAssumption DEF Disk, Total
<1>4. PICK p \in Seq(PlaceType) : p = <<>>
  <2>1. <<>> \in Seq(PlaceType)
    OBVIOUS
  <2> QED
    BY <2>1
<1>5. Counts(s, p, k, d, t)
  <2>1. Len(p) = 0
    BY <1>4
  <2> QED
    BY <1>2, <1>3, <2>1 DEF Fits, Counts, Runs
<1>6. Redo(s, k, d)
  BY <1>2 DEF Redo, Handles, Reads
<1>7. Whereabouts(s, k)
  BY <1>2 DEF Fits, Whereabouts, Reads, Runs
<1> QED
  BY <1>1, <1>2, <1>4, <1>5, <1>6, <1>7 DEF Fits

(* A program that follows the log is stopped.                              *)
LEMMA StopSound ==
  ASSUME DiskTypes, DiskTypes', ConTypes, Disk, Disk', Grows, \A e \in Consumer : Sound(e),
         NEW c \in Consumer, StopConsumer(c)
  PROVE  ConTypes' /\ \A e \in Consumer : Sound(e)'
<1>1. Up(c)
  BY DEF StopConsumer
<1> PICK r \in ConType : r = con[c]
  BY DEF ConTypes
<1> PICK q \in Seq(PlaceType) : q = queue[c]
  BY DEF ConTypes
<1> PICK k \in PlaceType : k = cursor[c]
  BY <1>1, Current
<1> PICK d \in Nat : d = done[c]
  BY <1>1, Current
<1> PICK t \in Nat : t = top[c]
  BY <1>1, Current
<1>2. Fits(r, q, k, d, t)
  BY DEF Sound
<1>3. PICK s : s = [Idle EXCEPT !.at = "down"]
  OBVIOUS
<1>4. s = Idle /\ s \in ConType /\ Fits(s, <<>>, k, d, t)
  BY <1>2, <1>3, FitsIdle DEF Idle
<1>5. PICK p \in Seq(PlaceType) : p = <<>>
  <2>1. <<>> \in Seq(PlaceType)
    OBVIOUS
  <2> QED
    BY <2>1
<1>6. Leaves(c, s, p, k, d, t)
  BY <1>1, <1>4, <1>5, Current DEF Leaves, StopConsumer, Become, disk, production, handed, ConTypes
<1> QED
  BY <1>4, <1>5, <1>6, ConsumerSound

(* What is found at a place is what is there.                              *)
LEMMA FoundProperties ==
  ASSUME DiskTypes, NEW r \in ConType, r.mode = "filend" => r.file \in Files
  PROVE  /\ At(r) \in ConType
         /\ At(r).at = r.at /\ At(r).mode = r.mode /\ At(r).count = r.count
         /\ At(r).got = r.got /\ At(r).limit = r.limit /\ At(r).timer = r.timer
         /\ r.mode = "filend" => At(r).file = r.file + 1 /\ At(r).idx = 0
         /\ r.mode # "filend" => At(r).file = r.file /\ At(r).idx = r.idx
         /\ Found(r) \in {"record", "filend", "logend", "error"}
         /\ Found(r) # "error" => At(r).file \in Files
         /\ Found(r) = "record" <=> Found(r) # "error" /\ At(r).idx < Len(file[At(r).file].recs)
         /\ Found(r) = "filend" => file[At(r).file].footed
         /\ Found(r) = "logend" => ~file[At(r).file].footed
         /\ Found(r) = "error" /\ At(r).file \in Files =>
              ~(file[At(r).file].exists /\ file[At(r).file].headed) /\ r.mode # "step"
<1> DEFINE Look(f, i) ==
      IF f \notin Files \/ (r.mode # "step" /\ ~(file[f].exists /\ file[f].headed)) THEN "error"
      ELSE IF i < Len(file[f].recs) THEN "record"
      ELSE IF file[f].footed THEN "filend" ELSE "logend"
<1>0. ASSUME NEW f, NEW i
      PROVE  /\ Look(f, i) \in {"record", "filend", "logend", "error"}
             /\ Look(f, i) # "error" => f \in Files
             /\ Look(f, i) = "record" <=> Look(f, i) # "error" /\ i < Len(file[f].recs)
             /\ Look(f, i) = "filend" => file[f].footed
             /\ Look(f, i) = "logend" => ~file[f].footed
             /\ Look(f, i) = "error" /\ f \in Files =>
                  ~(file[f].exists /\ file[f].headed) /\ r.mode # "step"
  OBVIOUS
<1> HIDE DEF Look
<1>1. CASE r.mode = "filend"
  <2>1. r.file + 1 \in Nat
    BY <1>1, BoundsAssumption DEF Files
  <2>2. PICK s \in ConType : s = [r EXCEPT !.file = @ + 1, !.idx = 0]
    BY <2>1 DEF ConType
  <2>3. /\ At(r) = s /\ s.file = r.file + 1 /\ s.idx = 0
        /\ s.at = r.at /\ s.mode = r.mode /\ s.count = r.count
        /\ s.got = r.got /\ s.limit = r.limit /\ s.timer = r.timer
    BY <1>1, <2>2 DEF At, ConType
  <2>4. Found(r) = Look(s.file, s.idx)
    BY <1>1, <2>3 DEF Found, Look
  <2> QED
    BY <1>1, <1>0, <2>3, <2>4
<1>2. CASE r.mode # "filend"
  <2>1. At(r) = r
    BY <1>2 DEF At
  <2>2. Found(r) = Look(r.file, r.idx)
    BY <1>2 DEF Found, Look
  <2> QED
    BY <1>0, <1>2, <2>1, <2>2
<1> QED
  BY <1>1, <1>2

(* A reader that is at its place stays there when it goes to the next file. *)
LEMMA AtBehind ==
  ASSUME DiskTypes, Disk, prunes = 0, NEW r \in ConType, Behind(r),
         r.mode = "filend" => /\ r.file \in Files /\ file[r.file].footed
                              /\ r.idx = Len(file[r.file].recs)
  PROVE  Behind(At(r)) /\ Found(r) # "error"
<1>1. r.file \in Files /\ r.file \in Nat
  BY DEF Behind, ConType
<1>2. Behind(At(r))
  <2>1. CASE r.mode = "filend"
    <3>1. PICK u \in Nat : u = r.file + 1
      BY <1>1
    <3>2. u \in Files /\ file[u].headed /\ u # 1
      BY <1>1, <2>1, <3>1 DEF Disk, Chained, Files
    <3>3. file[u].base = FinalCount(r.file)
      BY <1>1, <3>1, <3>2 DEF Disk, Chained
    <3>4. FinalCount(r.file) = file[r.file].base + Len(file[r.file].recs)
      BY <1>1, FinalCountIs DEF Disk
    <3>5. file[u].base \in Nat /\ Len(file[u].recs) \in Nat
      BY <3>2, FinalCountIs DEF Disk
    <3>6. At(r).file = u /\ At(r).idx = 0 /\ At(r).count = r.count
      BY <1>1, <2>1, <3>1, FoundProperties
    <3>7. r.count = file[u].base
      BY <2>1, <3>3, <3>4 DEF Behind
    <3> QED
      BY <3>2, <3>5, <3>6, <3>7 DEF Behind
  <2>2. CASE r.mode # "filend"
    BY <2>2 DEF At
  <2> QED
    BY <2>1, <2>2
<1>3. Found(r) # "error"
  <2>1. At(r).file \in Files /\ file[At(r).file].headed
    BY <1>2 DEF Behind
  <2>2. file[At(r).file].exists
    BY <2>1 DEF Disk, Chained
  <2> QED
    BY <1>1, <2>1, <2>2, FoundProperties
<1> QED
  BY <1>2, <1>3

(* What is at a place is no later than the last record.                    *)
LEMMA BehindCount ==
  ASSUME DiskTypes, Disk
  PROVE  /\ \A f \in Files : file[f].headed => FinalCount(f) <= Total
         /\ \A p \in PlaceType : Behind(p) => p.count <= Total /\ p.idx <= PerFile
<1> PICK t \in Files : Newest(t)
  BY DEF Disk
<1>1. ASSUME NEW f \in Files, file[f].headed
      PROVE  FinalCount(f) <= Total
  <2>1. Total = FinalCount(t) /\ f <= t /\ f \in Int /\ t \in Int /\ file[t].headed
    BY <1>1, BoundsAssumption DEF Newest, Files
  <2>2. FinalCount(t) = file[t].base + Len(file[t].recs) /\ FinalCount(t) \in Nat
        /\ FinalCount(f) \in Nat /\ file[t].base \in Nat /\ Len(file[t].recs) \in Nat
    BY FinalCountIs DEF Disk
  <2>3. f < t => FinalCount(f) <= file[t].base
    BY <2>1 DEF Disk, Chained
  <2> QED
    BY <2>1, <2>2, <2>3
<1>2. ASSUME NEW p \in PlaceType, Behind(p)
      PROVE  p.count <= Total /\ p.idx <= PerFile
  <2>1. p.file \in Files /\ file[p.file].headed /\ p.idx <= Len(file[p.file].recs)
        /\ p.count = file[p.file].base + p.idx
    BY <1>2 DEF Behind
  <2>2. FinalCount(p.file) = file[p.file].base + Len(file[p.file].recs)
        /\ FinalCount(p.file) \in Nat
        /\ file[p.file].base \in Nat /\ Len(file[p.file].recs) \in Nat
    BY <2>1, FinalCountIs DEF Disk
  <2>3. Len(file[p.file].recs) <= PerFile
    BY <2>1 DEF Disk, Chained
  <2>4. Total \in Nat /\ PerFile \in Nat /\ p.idx \in Nat
    BY FS_CardinalityType, BoundsAssumption DEF Disk, Total, PlaceType
  <2>5. FinalCount(p.file) <= Total
    BY <1>1, <2>1
  <2>6. PICK n \in Nat : n = Len(file[p.file].recs)
    BY <2>2
  <2>7. PICK b \in Nat : b = file[p.file].base
    BY <2>2
  <2>8. p.idx <= n /\ p.count = b + p.idx /\ b + n <= Total /\ n <= PerFile
    BY <2>1, <2>2, <2>3, <2>5, <2>6, <2>7
  <2> QED
    BY <2>4, <2>8
<1> QED
  BY <1>1, <1>2

(* The handler is called with the record that was read.                     *)
LEMMA HandleSound ==
  ASSUME DiskTypes, DiskTypes', ConTypes, Disk, Disk', Grows, \A e \in Consumer : Sound(e),
         NEW c \in Consumer, Handle(c)
  PROVE  ConTypes' /\ \A e \in Consumer : Sound(e)'
<1> USE DEF disk, production, consumption, handed, history
<1>1. Up(c)
  BY DEF Handle, Up, Handling
<1> PICK r \in ConType : r = con[c]
  BY DEF ConTypes
<1> PICK q \in Seq(PlaceType) : q = queue[c]
  BY DEF ConTypes
<1> PICK k \in PlaceType : k = cursor[c]
  BY <1>1, Current
<1> PICK d \in Nat : d = done[c]
  BY <1>1, Current
<1> PICK t \in Nat : t = top[c]
  BY <1>1, Current
<1>2. Fits(r, q, k, d, t) /\ Runs(r)
  BY <1>1, Current DEF Sound
<1>3. /\ queue = [queue EXCEPT ![c] = q] /\ cursor = [cursor EXCEPT ![c] = k]
      /\ done = [done EXCEPT ![c] = d] /\ top = [top EXCEPT ![c] = t]
      /\ con = [con EXCEPT ![c] = r] /\ socket \in [Consumer -> BOOLEAN]
  BY <1>1, Current DEF ConTypes
<1>4. Total \in Nat /\ MaxRecords \in Nat /\ PerFile \in Nat /\ QueueMax \in Nat
  BY FS_CardinalityType, BoundsAssumption DEF Disk, Total
<1>5. PICK a \in DOMAIN Handling :
        /\ r.at = Handling[a]
        /\ con' = [con EXCEPT ![c] = [r EXCEPT !.at = a, !.limit = IF a = "missed" THEN @ - 1 ELSE @]]
  BY DEF Handle, Become
<1>6. a \in Reads /\ r.at \in Handles /\ a \in Places
  BY <1>5, PlaceNames DEF Handling, Reads, Handles
<1>7. PICK l \in Limits : l = IF a = "missed" THEN r.limit - 1 ELSE r.limit
  BY LimitNumbers DEF ConType
<1>8. PICK s \in ConType : s = [r EXCEPT !.at = a, !.limit = l]
  BY <1>6 DEF ConType
<1>9. s.at = a /\ s.file = r.file /\ s.idx = r.idx /\ s.mode = r.mode /\ s.count = r.count
      /\ s.got = r.got /\ con' = [con EXCEPT ![c] = s]
  BY <1>5, <1>7, <1>8 DEF ConType
<1>10. PICK m \in Nat : m = IF r.count > t THEN r.count ELSE t
  BY DEF ConType
<1>11. r.count = k.count + 1 /\ r.mode = "step" /\ r.got /\ r.count \in Nat /\ k.count \in Nat
  BY <1>2, <1>6 DEF Fits, Redo, ConType, PlaceType
<1>12. Counts(s, q, k, r.count, m)
  <2>1. r.count # Never /\ m # Never
    BY <1>11, NeverAssumption
  <2>2. Runs(s)
    BY <1>6, <1>9 DEF Runs, Reads
  <2>3. k # Never
    BY NeverAssumption DEF PlaceType
  <2> QED
    BY SMTT(60), <1>2, <1>4, <1>9, <1>10, <1>11, <2>1, <2>2, <2>3 DEF Fits, Counts
<1>13. Redo(s, k, r.count)
  BY <1>6, <1>9, <1>11 DEF Redo, Reads, Handles
<1>14. Whereabouts(s, k)
  <2>1. Behind(r) => Behind(s)
    BY <1>9 DEF Behind
  <2> QED
    BY <1>2, <1>6, <1>9, <1>11, <2>1 DEF Fits, Whereabouts, Reads
<1>15. Leaves(c, s, q, k, r.count, m)
  BY <1>3, <1>9, <1>10 DEF Handle, Hand, Leaves
<1>16. Fits(s, q, k, r.count, m) /\ r.count \in Nat
  BY <1>11, <1>12, <1>13, <1>14 DEF Fits
<1> QED
  BY <1>15, <1>16, ConsumerSound

(* The footer of a file is read.                                            *)
LEMMA ReadFooterSound ==
  ASSUME DiskTypes, DiskTypes', ConTypes, Disk, Disk', Grows, \A e \in Consumer : Sound(e),
         NEW c \in Consumer, ReadFooter(c)
  PROVE  ConTypes' /\ \A e \in Consumer : Sound(e)'
<1> USE DEF disk, production, consumption, handed, history
<1>1. Up(c)
  BY DEF ReadFooter, Up, Reading, Handling
<1> PICK r \in ConType : r = con[c]
  BY DEF ConTypes
<1> PICK q \in Seq(PlaceType) : q = queue[c]
  BY DEF ConTypes
<1> PICK k \in PlaceType : k = cursor[c]
  BY <1>1, Current
<1> PICK d \in Nat : d = done[c]
  BY <1>1, Current
<1> PICK t \in Nat : t = top[c]
  BY <1>1, Current
<1>2. Fits(r, q, k, d, t) /\ Runs(r)
  BY <1>1, Current DEF Sound
<1>3. /\ queue = [queue EXCEPT ![c] = q] /\ cursor = [cursor EXCEPT ![c] = k]
      /\ done = [done EXCEPT ![c] = d] /\ top = [top EXCEPT ![c] = t]
      /\ con = [con EXCEPT ![c] = r] /\ socket \in [Consumer -> BOOLEAN]
  BY <1>1, Current DEF ConTypes
<1>4. Total \in Nat /\ MaxRecords \in Nat /\ PerFile \in Nat /\ QueueMax \in Nat
  BY FS_CardinalityType, BoundsAssumption DEF Disk, Total
<1>5. r.at \in Reads /\ Found(r) = "filend"
  BY DEF ReadFooter, Reading, Handling, Reads
<1>6. r.mode = "filend" => r.file \in Files
  BY <1>2, <1>5 DEF Fits, Whereabouts
<1>7. PICK a \in ConType : a = At(r)
  BY <1>6, FoundProperties
<1>8. /\ a.at = r.at /\ a.count = r.count /\ a.got = r.got /\ a.file \in Files
      /\ file[a.file].footed /\ ~(a.idx < Len(file[a.file].recs))
      /\ r.mode = "filend" => a.idx = 0
      /\ r.mode # "filend" => a.idx = r.idx
  BY <1>5, <1>6, <1>7, FoundProperties
<1>9. PICK s \in ConType : s = [a EXCEPT !.mode = "filend"]
  BY DEF ConType, Modes
<1>10. s.at = r.at /\ s.file = a.file /\ s.idx = a.idx /\ s.mode = "filend" /\ s.count = r.count
       /\ s.got = r.got
  BY <1>8, <1>9 DEF ConType
<1>11. a.file \in Nat /\ 1 <= a.file /\ a.file <= MaxRecords + 3 /\ a.idx \in Nat /\ a.idx <= PerFile
  <2>1. r.idx <= PerFile /\ a.idx \in Nat
    BY <1>2 DEF Fits, Counts, ConType
  <2> QED
    BY <1>4, <1>8, <2>1 DEF Files
<1>12. Counts(s, q, k, d, t)
  BY <1>2, <1>4, <1>10, <1>11 DEF Fits, Counts, Runs
<1>13. Redo(s, k, d)
  BY <1>2, <1>5, <1>10 DEF Fits, Redo, Reads, Handles
<1>14. Whereabouts(s, k)
  <2>1. prunes = 0 => Behind(s) /\ s.idx = Len(file[s.file].recs)
    <3> SUFFICES ASSUME prunes = 0
                 PROVE  Behind(s) /\ s.idx = Len(file[s.file].recs)
      OBVIOUS
    <3>1. Behind(r) /\ (r.mode = "filend" => /\ r.file \in Files /\ file[r.file].footed
                                             /\ r.idx = Len(file[r.file].recs))
      BY <1>2 DEF Fits, Whereabouts
    <3>2. Behind(a) /\ a.count = r.count
      BY <1>7, <1>8, <3>1, AtBehind
    <3>3. Len(file[a.file].recs) \in Nat
      BY <1>8 DEF DiskTypes, FileType
    <3> QED
      BY <1>8, <1>10, <1>11, <3>2, <3>3 DEF Behind
  <2> QED
    BY <1>2, <1>5, <1>8, <1>10, <2>1 DEF Fits, Whereabouts, Reads
<1>15. Leaves(c, s, q, k, d, t)
  BY <1>3, <1>7, <1>9 DEF ReadFooter, Become, Leaves
<1>16. Fits(s, q, k, d, t)
  BY <1>12, <1>13, <1>14 DEF Fits
<1> QED
  BY <1>15, <1>16, ConsumerSound

(* A file that can be written is among those a consumer can look for.      *)
LEMMA FileNumbers ==
  ASSUME NEW f \in Files
  PROVE  1 <= f /\ f <= MaxRecords + 3 /\ f \in 1..(MaxRecords + 3)
BY BoundsAssumption DEF Files

(* A record is not counted beyond the last of its file.                     *)
LEMMA SumsInOrder ==
  ASSUME NEW n \in Nat, NEW b \in Nat, NEW u \in Nat, NEW m \in Nat, NEW w \in Nat,
         b + m <= w, n = b + u, u <= m
  PROVE  n <= w
OBVIOUS

(* A record is read, and the cursor file written.                            *)
LEMMA ReadRecordSound ==
  ASSUME DiskTypes, DiskTypes', ConTypes, Disk, Disk', Grows, \A e \in Consumer : Sound(e),
         NEW c \in Consumer, ReadRecord(c)
  PROVE  ConTypes' /\ \A e \in Consumer : Sound(e)'
<1> USE DEF disk, production, consumption, handed, history
<1>1. Up(c)
  BY SMTT(60) DEF ReadRecord, Up, Reading, Handling
<1> PICK r \in ConType : r = con[c]
  BY DEF ConTypes
<1> PICK q \in Seq(PlaceType) : q = queue[c]
  BY DEF ConTypes
<1> PICK k \in PlaceType : k = cursor[c]
  BY <1>1, Current
<1> PICK d \in Nat : d = done[c]
  BY <1>1, Current
<1> PICK t \in Nat : t = top[c]
  BY <1>1, Current
<1>2. Fits(r, q, k, d, t) /\ Runs(r)
  BY <1>1, Current DEF Sound
<1>3. /\ queue = [queue EXCEPT ![c] = q] /\ cursor = [cursor EXCEPT ![c] = k]
      /\ done = [done EXCEPT ![c] = d] /\ top = [top EXCEPT ![c] = t]
      /\ con = [con EXCEPT ![c] = r] /\ socket \in [Consumer -> BOOLEAN]
  BY <1>1, Current DEF ConTypes
<1>4. Total \in Nat /\ MaxRecords \in Nat /\ PerFile \in Nat /\ QueueMax \in Nat
  BY FS_CardinalityType, BoundsAssumption DEF Disk, Total
<1>5. r.at \in Reads /\ Found(r) = "record"
  BY DEF ReadRecord, Reading, Handling, Reads
<1>6. r.mode = "filend" => r.file \in Files
  BY <1>2, <1>5 DEF Fits, Whereabouts
<1>7. PICK a \in ConType : a = At(r)
  BY <1>6, FoundProperties
<1>8. /\ a.at = r.at /\ a.count = r.count /\ a.got = r.got /\ a.file \in Files
      /\ a.idx < Len(file[a.file].recs)
  BY <1>5, <1>6, <1>7, FoundProperties
<1> PICK f \in Files : f = a.file
  BY <1>8
<1> PICK i \in Nat : i = a.idx
  BY DEF ConType
<1> PICK u \in Nat : u = i + 1
  OBVIOUS
<1>9. f \in Nat /\ 1 <= f /\ f <= MaxRecords + 3
  BY <1>4 DEF Files
<1> PICK m \in Nat : m = Len(file[f].recs)
  BY DEF DiskTypes, FileType
<1> PICK b \in Nat : b = file[f].base
  BY DEF DiskTypes, FileType
<1>10. u \in 1..m /\ m <= PerFile /\ u <= PerFile /\ i <= PerFile
  <2>1. m <= PerFile
    BY DEF Disk, Chained
  <2>2. i < m
    BY <1>8
  <2> QED
    BY SMTT(60), <1>4, <2>1, <2>2
<1> PICK n \in Nat : n = file[f].recs[u]
  <2>1. file[f].recs \in Seq(Nat)
    BY DEF DiskTypes, FileType
  <2> QED
    BY SMTT(60), <1>10, <2>1
<1>11. n = b + u /\ file[f].headed
  <2>1. file[f].recs # <<>>
    BY <1>10
  <2> QED
    BY <1>10, <2>1 DEF Disk, Chained
<1>12. n <= Total
  <2> PICK w \in Nat : w = Total
    BY <1>4
  <2>1. FinalCount(f) <= w
    BY <1>11, BehindCount
  <2>2. FinalCount(f) = b + m
    BY FinalCountIs DEF Disk
  <2>3. u <= m
    BY <1>10
  <2>4. b + m <= w /\ n = b + u
    BY <1>11, <2>1, <2>2
  <2>5. n <= w
    BY SMTT(60), <2>3, <2>4, SumsInOrder
  <2> QED
    BY <2>5
<1> PICK n0 \in Nat : n0 = r.count
  BY DEF ConType
<1>13. PICK j \in PlaceType : j = [file |-> f, idx |-> i, count |-> n0]
  BY ZenonT(40), <1>9 DEF PlaceType
<1>14. j.file = f /\ j.idx = i /\ j.count = n0 /\ cursor' = [cursor EXCEPT ![c] = j]
  BY ZenonT(40), <1>7, <1>8, <1>13 DEF ReadRecord, ReadCursor, CursorOf
<1>15. /\ n0 <= d /\ t <= n0 + 2 /\ d <= t /\ t <= Total /\ n0 <= Total
       /\ d # Never /\ t # Never /\ j # Never
  <2>1. j # Never /\ k # Never /\ d # Never /\ t # Never
    BY NeverAssumption DEF PlaceType
  <2>2. PICK k0 \in Nat : k0 = k.count
    BY DEF PlaceType
  <2>3. k0 <= n0 /\ n0 <= d
    BY <1>2, <1>5, <2>2 DEF Fits, Redo
  <2>4. t <= k0 + 2 /\ d <= t /\ t <= Total /\ n0 <= Total
    BY <1>2, <2>1, <2>2 DEF Fits, Counts
  <2> QED
    BY <2>1, <2>3, <2>4
<1>16. prunes = 0 => Behind(j) /\ n = n0 + 1
  <2> SUFFICES ASSUME prunes = 0
               PROVE  Behind(j) /\ n = n0 + 1
    OBVIOUS
  <2>1. Behind(r) /\ (r.mode = "filend" => /\ r.file \in Files /\ file[r.file].footed
                                           /\ r.idx = Len(file[r.file].recs))
    BY <1>2 DEF Fits, Whereabouts
  <2>2. Behind(a)
    BY <1>7, <2>1, AtBehind
  <2>3. n0 = b + i /\ i <= m
    BY <1>8, <2>2 DEF Behind
  <2> QED
    BY SMTT(60), <1>11, <1>14, <2>3 DEF Behind
<1>17. r.at \in DOMAIN Handling /\ Handling[r.at] \in Handles /\ Handling[r.at] \in Places
  BY SMTT(60), <1>5, PlaceNames DEF Handling, Reads, Handles
<1>18. Len(q) <= QueueMax /\ \A z \in 1..Len(q) : Behind(q[z])
  BY <1>2 DEF Fits, Counts
<1>19. CASE n = n0 + 1
  <2>0. PICK v \in ConType : v = [a EXCEPT !.mode = "step", !.idx = u]
    BY DEF ConType, Modes
  <2>1. PICK s \in ConType : s = [v EXCEPT !.count = n, !.got = TRUE, !.at = Handling[r.at]]
    BY <1>17 DEF ConType
  <2>01. v.at = r.at /\ v = [a EXCEPT !.mode = "step", !.idx = @ + 1]
    BY <1>8, <2>0 DEF ConType
  <2>2. /\ s.at = Handling[r.at] /\ s.file = f /\ s.idx = u /\ s.mode = "step"
        /\ s.count = n /\ s.got
    BY SMTT(60), <1>8, <2>0, <2>1 DEF ConType
  <2>3. con' = [con EXCEPT ![c] = s]
    BY ZenonT(40), <1>7, <1>8, <1>19, <2>01, <2>1 DEF ReadRecord, Become
  <2>4. queue' = [queue EXCEPT ![c] = q]
    <3>1. con'[c].at # "exit"
      BY <1>17, <2>2, <2>3 DEF ConTypes, Handles
    <3> QED
      BY ZenonT(40), <3>1 DEF ReadRecord
  <2>5. Counts(s, q, j, d, t)
    <3>1. f \in 1..(MaxRecords + 3)
      BY FileNumbers
    <3>2. s.count <= Total /\ s.idx <= PerFile /\ s.file <= MaxRecords + 3 /\ s.file >= 1
      BY <1>9, <1>10, <1>12, <2>2
    <3>3. j.file \in 1..(MaxRecords + 3) /\ j.idx <= PerFile /\ j.count <= d /\ t <= j.count + 2
      BY <1>10, <1>14, <1>15, <3>1
    <3> QED
      BY <1>15, <1>18, <3>2, <3>3 DEF Counts
  <2>6. Redo(s, j, d)
    BY <1>14, <1>17, <1>19, <2>2 DEF Redo, Reads, Handles
  <2>7. Whereabouts(s, j)
    <3>1. prunes = 0 => Behind(s)
      BY <1>10, <1>11, <2>2 DEF Behind
    <3> QED
      BY <1>16, <1>17, <2>2, <3>1 DEF Whereabouts, Reads, Handles
  <2>8. Leaves(c, s, q, j, d, t)
    BY ZenonT(40), <1>3, <1>14, <2>3, <2>4 DEF ReadRecord, Leaves
  <2>9. Fits(s, q, j, d, t)
    BY <2>5, <2>6, <2>7 DEF Fits
  <2> QED
    BY <2>8, <2>9, ConsumerSound
<1>20. CASE n # n0 + 1 /\ r.at = "reading"
  <2>1. PICK s \in ConType : s = [a EXCEPT !.mode = "step", !.idx = u]
    BY DEF ConType, Modes
  <2>2. /\ s.at = "reading" /\ s.file = f /\ s.idx = u /\ s.mode = "step"
        /\ s.count = n0
    BY <1>8, <1>20, <2>1 DEF ConType
  <2>3. con' = [con EXCEPT ![c] = s]
    BY <1>7, <1>8, <1>20, <2>1 DEF ReadRecord, Become
  <2>4. queue' = [queue EXCEPT ![c] = q]
    <3>1. con'[c].at # "exit"
      BY <2>2, <2>3 DEF ConTypes
    <3> QED
      BY ZenonT(40), <3>1 DEF ReadRecord
  <2>5. Counts(s, q, j, d, t)
    BY SMTT(60), <1>4, <1>9, <1>10, <1>14, <1>15, <1>18, <2>2 DEF Counts
  <2>6. Redo(s, j, d)
    BY SMTT(60), <1>14, <1>15, <2>2 DEF Redo, Reads, Handles
  <2>7. Whereabouts(s, j)
    BY <1>16, <1>20, <2>2 DEF Whereabouts, Reads
  <2>8. Leaves(c, s, q, j, d, t)
    BY ZenonT(40), <1>3, <1>14, <2>3, <2>4 DEF ReadRecord, Leaves
  <2>9. Fits(s, q, j, d, t)
    BY <2>5, <2>6, <2>7 DEF Fits
  <2> QED
    BY <2>8, <2>9, ConsumerSound
<1>21. CASE n # n0 + 1 /\ r.at # "reading"
  <2>1. PICK s : s = [Idle EXCEPT !.at = "exit"]
    OBVIOUS
  <2>2. PICK p \in Seq(PlaceType) : p = <<>>
    <3>1. <<>> \in Seq(PlaceType)
      OBVIOUS
    <3> QED
      BY <3>1
  <2>3. prunes > 0
    BY <1>16, <1>21 DEF DiskTypes
  <2>4. s \in ConType /\ s.at = "exit"
    BY <1>2, <2>1, <2>3, FitsIdle DEF Idle
  <2>5. con' = [con EXCEPT ![c] = s]
    BY SMTT(60), <1>7, <1>8, <1>21, <2>1 DEF ReadRecord, Become
  <2>6. queue' = [queue EXCEPT ![c] = p]
    <3>1. con'[c].at = "exit"
      BY <2>4, <2>5 DEF ConTypes
    <3> QED
      BY ZenonT(40), <2>2, <3>1 DEF ReadRecord
  <2>7. s.file = 0 /\ s.idx = 0 /\ s.mode = "step" /\ s.count = 0
    BY <2>1 DEF Idle
  <2>8. Fits(s, p, j, d, t)
    <3>1. Len(p) = 0
      BY <2>2
    <3>2. Counts(s, p, j, d, t)
      <4>1. ~Runs(s)
        BY <2>4 DEF Runs
      <4>2. s.count <= Total /\ s.idx <= PerFile /\ s.file <= MaxRecords + 3
        BY <1>4, <2>7
      <4>3. Len(p) <= QueueMax /\ \A z \in 1..Len(p) : Behind(p[z])
        BY <1>4, <3>1
      <4> QED
        BY <1>9, <1>10, <1>14, <1>15, <4>1, <4>2, <4>3 DEF Counts
    <3>3. Redo(s, j, d)
      BY <2>4 DEF Redo, Reads, Handles
    <3>4. Whereabouts(s, j)
      BY SMTT(60), <2>3, <2>4 DEF Whereabouts, Reads
    <3> QED
      BY <3>2, <3>3, <3>4 DEF Fits
  <2>9. Leaves(c, s, p, j, d, t)
    BY ZenonT(40), <1>3, <1>14, <2>5, <2>6 DEF ReadRecord, Leaves
  <2> QED
    BY <2>4, <2>8, <2>9, ConsumerSound
<1> QED
  BY SMTT(60), <1>19, <1>20, <1>21

(* A consumer comes to the end of the log.  One that looks for a record it  
   has missed does not, unless a footer was lost or a file removed.         *)
LEMMA ReadEndSound ==
  ASSUME DiskTypes, DiskTypes', ConTypes, Disk, Disk', Grows, \A e \in Consumer : Sound(e),
         NEW c \in Consumer, ReadEnd(c)
  PROVE  ConTypes' /\ \A e \in Consumer : Sound(e)'
<1> USE DEF disk, production, consumption, handed, history
<1>1. Up(c)
  BY DEF ReadEnd, Up, Reading, Handling
<1> PICK r \in ConType : r = con[c]
  BY DEF ConTypes
<1> PICK q \in Seq(PlaceType) : q = queue[c]
  BY DEF ConTypes
<1> PICK k \in PlaceType : k = cursor[c]
  BY <1>1, Current
<1> PICK d \in Nat : d = done[c]
  BY <1>1, Current
<1> PICK t \in Nat : t = top[c]
  BY <1>1, Current
<1>2. Fits(r, q, k, d, t) /\ Runs(r)
  BY <1>1, Current DEF Sound
<1>3. /\ queue = [queue EXCEPT ![c] = q] /\ cursor = [cursor EXCEPT ![c] = k]
      /\ done = [done EXCEPT ![c] = d] /\ top = [top EXCEPT ![c] = t]
      /\ con = [con EXCEPT ![c] = r] /\ socket \in [Consumer -> BOOLEAN]
  BY <1>1, Current DEF ConTypes
<1>4. Total \in Nat /\ MaxRecords \in Nat /\ PerFile \in Nat /\ QueueMax \in Nat
  BY FS_CardinalityType, BoundsAssumption DEF Disk, Total
<1>5. r.at \in Reads /\ Found(r) \in {"logend", "error"}
  BY DEF ReadEnd, Reading, Handling, Reads
<1>6. r.mode = "filend" => r.file \in Files
  BY <1>2, <1>5 DEF Fits, Whereabouts
<1>7. PICK a \in ConType : a = At(r)
  BY <1>6, FoundProperties
<1>8. PICK m \in Modes : m = IF Found(r) = "logend" THEN "logend" ELSE r.mode
  BY <1>7 DEF ConType, Modes
<1>9. PICK b \in ConType : b = [a EXCEPT !.mode = m]
  BY DEF ConType
<1>10. /\ b.at = r.at /\ b.file = a.file /\ b.idx = a.idx /\ b.mode = m /\ b.count = r.count
       /\ b.got = r.got
       /\ a.at = r.at /\ a.count = r.count /\ a.mode = r.mode
  BY <1>6, <1>7, <1>9, FoundProperties DEF ConType
<1>11. b = [At(con[c]) EXCEPT !.mode = IF Found(con[c]) = "logend" THEN "logend" ELSE @]
  BY <1>7, <1>8, <1>9, <1>10
<1>12. /\ a.file \in Nat /\ 1 <= a.file /\ a.file <= MaxRecords + 3
       /\ a.idx \in Nat /\ a.idx <= PerFile
  <2>1. r.idx <= PerFile /\ r.file \in Nat /\ r.idx \in Nat /\ r.file <= MaxRecords + 3 /\ 1 <= r.file
    BY <1>2 DEF Fits, Counts, ConType
  <2>2. r.mode = "filend" => a.file = r.file + 1 /\ a.idx = 0 /\ r.file <= MaxRecords + 2
    BY <1>4, <1>6, <1>7, FoundProperties DEF Files
  <2>3. r.mode # "filend" => a.file = r.file /\ a.idx = r.idx
    BY <1>6, <1>7, FoundProperties
  <2> QED
    BY <1>4, <2>1, <2>2, <2>3
<1>13. prunes = 0 => /\ Behind(a) /\ m = "logend" /\ Found(r) = "logend"
  <2> SUFFICES ASSUME prunes = 0
               PROVE  Behind(a) /\ m = "logend" /\ Found(r) = "logend"
    OBVIOUS
  <2>1. Behind(r) /\ (r.mode = "filend" => /\ r.file \in Files /\ file[r.file].footed
                                           /\ r.idx = Len(file[r.file].recs))
    BY <1>2 DEF Fits, Whereabouts
  <2>2. Behind(a) /\ Found(r) # "error"
    BY <1>7, <2>1, AtBehind
  <2> QED
    BY <1>5, <1>8, <2>2
<1>14. ASSUME NEW s \in ConType, s.at \in {"listen", "idle", "udp"},
              s.file = a.file, s.idx = a.idx, s.mode = m, s.count = r.count,
              con' = [con EXCEPT ![c] = s], UNCHANGED queue
       PROVE  ConTypes' /\ \A e \in Consumer : Sound(e)'
  <2>1. Counts(s, q, k, d, t)
    BY <1>2, <1>12, <1>14 DEF Fits, Counts, Runs
  <2>2. Redo(s, k, d)
    BY <1>2, <1>5, <1>14 DEF Fits, Redo, Reads, Handles
  <2>3. Whereabouts(s, k)
    <3>1. prunes = 0 => Behind(s) /\ s.mode = "logend"
      BY <1>10, <1>13, <1>14 DEF Behind
    <3> QED
      BY <1>2, <1>14, <3>1 DEF Fits, Whereabouts, Reads
  <2>4. Leaves(c, s, q, k, d, t)
    BY <1>3, <1>14 DEF ReadEnd, Leaves
  <2>5. Fits(s, q, k, d, t)
    BY <2>1, <2>2, <2>3 DEF Fits
  <2> QED
    BY <1>14, <2>4, <2>5, ConsumerSound
<1>15. CASE /\ r.at = "reading"
            /\ con' = [con EXCEPT ![c] = [b EXCEPT !.at = "listen", !.got = FALSE]]
            /\ UNCHANGED queue
  <2>1. PICK s \in ConType : s = [b EXCEPT !.at = "listen", !.got = FALSE]
    BY PlaceNames DEF ConType
  <2> QED
    BY <1>10, <1>14, <1>15, <2>1 DEF ConType
<1>16. CASE /\ r.at = "poll"
            /\ con' = [con EXCEPT ![c] = [b EXCEPT !.at = "idle", !.timer = TRUE, !.got = FALSE]]
            /\ UNCHANGED queue
  <2>1. PICK s \in ConType : s = [b EXCEPT !.at = "idle", !.timer = TRUE, !.got = FALSE]
    BY PlaceNames DEF ConType
  <2> QED
    BY <1>10, <1>14, <1>16, <2>1 DEF ConType
<1>17. CASE /\ r.at = "missed"
            /\ con' = [con EXCEPT ![c] = [b EXCEPT !.at = "udp"]]
            /\ UNCHANGED queue
  <2>1. PICK s \in ConType : s = [b EXCEPT !.at = "udp"]
    BY PlaceNames DEF ConType
  <2> QED
    BY <1>10, <1>14, <1>17, <2>1 DEF ConType
<1>18. CASE /\ r.at = "missed" /\ ~r.got
            /\ con' = [con EXCEPT ![c] = [Idle EXCEPT !.at = "exit"]]
            /\ queue' = [queue EXCEPT ![c] = <<>>]
  <2>1. FooterLost \/ prunes > 0
    <3> SUFFICES ASSUME prunes = 0, ~FooterLost
                 PROVE  FALSE
      BY DEF DiskTypes
    <3> PICK u \in Files : Newest(u)
      BY DEF Disk
    <3>1. /\ Behind(a) /\ a.file \in Files /\ ~file[a.file].footed
          /\ ~(a.idx < Len(file[a.file].recs))
      BY <1>6, <1>7, <1>13, FoundProperties
    <3>2. FinalCount(a.file) = file[a.file].base + Len(file[a.file].recs)
          /\ file[a.file].base \in Nat /\ Len(file[a.file].recs) \in Nat
      BY <3>1, FinalCountIs DEF Disk
    <3>3. r.count = FinalCount(a.file)
      BY <1>10, <1>12, <3>1, <3>2 DEF Behind
    <3>4. r.count < Total
      BY <1>2, <1>18 DEF Fits, Whereabouts
    <3>5. Total = FinalCount(u) /\ u \in Int /\ 1 <= u
      BY <1>4 DEF Newest, Files
    <3>6. a.file < u
      <4>1. a.file <= u
        BY <3>1 DEF Newest, Behind
      <4>2. a.file # u
        <5>1. r.count \in Nat /\ Total \in Nat
          BY <1>4 DEF ConType
        <5> QED
          BY <3>3, <3>4, <3>5, <5>1
      <4> QED
        BY <1>12, <3>5, <4>1, <4>2
    <3>7. PICK g \in Nat : g = a.file + 1
      BY <1>12
    <3>8. g \in Files /\ file[g].headed /\ g # 1
      <4>1. 1 < g /\ g <= u /\ u <= MaxRecords + 2
        BY <1>4, <1>12, <3>5, <3>6, <3>7 DEF Files
      <4>2. g \in Files
        BY <1>4, <4>1 DEF Files
      <4> QED
        BY <4>1, <4>2 DEF Newest
    <3>9. writer.at = "footer" /\ writer.file = g
      BY <3>1, <3>7, <3>8 DEF FooterLost
    <3>10. u = g /\ file[u].recs = <<>>
      BY <3>9 DEF Newest, WriterAt
    <3>11. FinalCount(u) = file[u].base
      BY <3>10 DEF FinalCount
    <3>12. file[g].base = FinalCount(a.file)
      <4>1. g - 1 = a.file
        BY <1>12, <3>7
      <4> QED
        BY <3>8, <4>1 DEF Disk, Chained
    <3> QED
      BY <1>4, <3>3, <3>4, <3>5, <3>10, <3>11, <3>12
  <2>2. PICK s : s = [Idle EXCEPT !.at = "exit"]
    OBVIOUS
  <2>3. s \in ConType /\ Fits(s, <<>>, k, d, t)
    BY <1>2, <2>1, <2>2, FitsIdle
  <2>4. PICK p \in Seq(PlaceType) : p = <<>>
    <3>1. <<>> \in Seq(PlaceType)
      OBVIOUS
    <3> QED
      BY <3>1
  <2>5. Leaves(c, s, p, k, d, t)
    BY <1>3, <1>18, <2>2, <2>4 DEF ReadEnd, Leaves
  <2> QED
    BY <2>3, <2>4, <2>5, ConsumerSound
<1> QED
  BY <1>10, <1>11, <1>15, <1>16, <1>17, <1>18 DEF ReadEnd, Become

(* A datagram tells of a record that was missed.                             *)
LEMMA UdpHighSound ==
  ASSUME DiskTypes, DiskTypes', ConTypes, Disk, Disk', Grows, \A e \in Consumer : Sound(e),
         NEW c \in Consumer, UdpHigh(c)
  PROVE  ConTypes' /\ \A e \in Consumer : Sound(e)'
<1> USE DEF disk, production, consumption, handed, history
<1>1. Up(c)
  BY DEF UdpHigh, Up
<1> PICK r \in ConType : r = con[c]
  BY DEF ConTypes
<1> PICK q \in Seq(PlaceType) : q = queue[c]
  BY DEF ConTypes
<1> PICK k \in PlaceType : k = cursor[c]
  BY <1>1, Current
<1> PICK d \in Nat : d = done[c]
  BY <1>1, Current
<1> PICK t \in Nat : t = top[c]
  BY <1>1, Current
<1>2. Fits(r, q, k, d, t) /\ Runs(r)
  BY <1>1, Current DEF Sound
<1>3. /\ queue = [queue EXCEPT ![c] = q] /\ cursor = [cursor EXCEPT ![c] = k]
      /\ done = [done EXCEPT ![c] = d] /\ top = [top EXCEPT ![c] = t]
      /\ con = [con EXCEPT ![c] = r] /\ socket \in [Consumer -> BOOLEAN]
  BY <1>1, Current DEF ConTypes
<1>4. Total \in Nat /\ MaxRecords \in Nat /\ PerFile \in Nat /\ QueueMax \in Nat
  BY FS_CardinalityType, BoundsAssumption DEF Disk, Total
<1>5. r.at = "udp" /\ q # <<>>
  BY DEF UdpHigh
<1>6. /\ Head(q) \in PlaceType /\ Behind(Head(q))
      /\ Tail(q) \in Seq(PlaceType) /\ Len(Tail(q)) <= QueueMax
      /\ \A z \in 1..Len(Tail(q)) : Behind(Tail(q)[z])
  <2>1. Len(q) <= QueueMax /\ \A z \in 1..Len(q) : Behind(q[z])
    BY <1>2 DEF Fits, Counts
  <2>2. /\ Head(q) = q[1] /\ Head(q) \in PlaceType /\ Tail(q) \in Seq(PlaceType)
        /\ Len(Tail(q)) = Len(q) - 1 /\ Len(q) \in Nat /\ Len(q) # 0
        /\ \A z \in 1..Len(Tail(q)) : Tail(q)[z] = q[z + 1]
    BY <1>5, HeadTailProperties
  <2>3. \A z \in 1..Len(Tail(q)) : z + 1 \in 1..Len(q)
    BY <2>2
  <2> QED
    BY <1>4, <2>1, <2>2, <2>3
<1> PICK g \in PlaceType : g = Head(q)
  BY <1>6
<1> PICK m \in Nat : m = g.count
  BY DEF PlaceType
<1> PICK n \in Nat : n = r.count
  BY DEF ConType
<1>7. m <= Total /\ n <= Total /\ g.idx <= PerFile /\ Total <= MaxRecords
  BY <1>2, <1>6, BehindCount DEF Disk, Fits, Counts
<1>8. n < m
  <2>1. CountCompare(Wire(m), Wire(n)) = 1
    BY DEF UdpHigh, Ahead
  <2>2. m \in 0..(MaxRecords + 1) /\ n \in 0..(MaxRecords + 1)
    BY SMTT(60), <1>4, <1>7
  <2> QED
    BY <2>1, <2>2, WireProperties
<1>9. CASE r.mode = "logend"
  <2>1. PICK s \in ConType : s = [r EXCEPT !.at = "missed", !.got = FALSE]
    BY PlaceNames DEF ConType
  <2>2. /\ s.at = "missed" /\ s.file = r.file /\ s.idx = r.idx /\ s.mode = "logend"
        /\ s.count = n
    BY <1>9, <2>1 DEF ConType
  <2> PICK p \in Seq(PlaceType) : p = Tail(q)
    BY <1>6
  <2>3. Counts(s, p, k, d, t)
    BY <1>2, <1>5, <1>6, <2>2 DEF Fits, Counts, Runs
  <2>4. Redo(s, k, d)
    BY <1>2, <1>5, <2>2 DEF Fits, Redo, Reads, Handles
  <2>5. Whereabouts(s, k)
    <3>1. n < Total
      BY <1>4, <1>7, <1>8
    <3>2. Behind(r) => Behind(s)
      BY <2>2 DEF Behind
    <3> QED
      BY <1>2, <1>5, <2>2, <3>1, <3>2 DEF Fits, Whereabouts, Reads, Runs
  <2>6. Leaves(c, s, p, k, d, t)
    BY <1>3, <1>9, <2>1 DEF UdpHigh, Become, Leaves
  <2>7. Fits(s, p, k, d, t)
    BY <2>3, <2>4, <2>5 DEF Fits
  <2> QED
    BY <2>6, <2>7, ConsumerSound
<1>10. CASE r.mode # "logend"
  <2>1. prunes > 0
    BY <1>2, <1>5, <1>10 DEF Fits, Whereabouts, DiskTypes
  <2>2. PICK s : s = [Idle EXCEPT !.at = "exit"]
    OBVIOUS
  <2>3. s \in ConType /\ Fits(s, <<>>, k, d, t)
    BY <1>2, <2>1, <2>2, FitsIdle
  <2>4. PICK p \in Seq(PlaceType) : p = <<>>
    <3>1. <<>> \in Seq(PlaceType)
      OBVIOUS
    <3> QED
      BY <3>1
  <2>5. Leaves(c, s, p, k, d, t)
    BY <1>3, <1>10, <2>2, <2>4 DEF UdpHigh, Become, Leaves
  <2> QED
    BY <2>3, <2>4, <2>5, ConsumerSound
<1> QED
  BY <1>9, <1>10

(* Counts of records are among those WireProperties speaks of.             *)
LEMMA InRange ==
  ASSUME NEW m \in Nat, NEW n \in Nat, NEW w \in Nat, NEW b \in Nat, m <= w, n <= w, w <= b
  PROVE  m \in 0..(b + 1) /\ n + 1 \in 0..(b + 1)
OBVIOUS

(* The counts of a consumer that is handed the record n + 1, or h if that   *)
(* was handed before, with a cursor file at j.                             *)
OneMore(n, m, j, t, d, w, h) ==
  /\ m = n + 1 /\ h = (IF m > t THEN m ELSE t)
  /\ j <= n /\ n <= j + 1 /\ t <= j + 2 /\ d <= t /\ n <= d /\ m <= w /\ t <= w

JustAhead(m, j, w, h) ==
  m <= w /\ h <= w /\ h <= j + 2 /\ j <= m /\ m <= h /\ m \in j..(j + 2)

(* It is not more than two records ahead of its cursor file.               *)
LEMMA NextCounts ==
  ASSUME NEW n \in Nat, NEW m \in Nat, NEW j \in Nat, NEW t \in Nat, NEW d \in Nat, NEW w \in Nat,
         NEW h \in Nat, OneMore(n, m, j, t, d, w, h)
  PROVE  JustAhead(m, j, w, h)
BY DEF OneMore, JustAhead

(* A structure that is moved behind a record.                              *)
Moved(r, m, f, i) == [r EXCEPT !.at = "udp+cursor", !.count = m, !.file = f, !.idx = i]

MovedTo(s, o, m, f, i) ==
  s.at = "udp+cursor" /\ s.file = f /\ s.idx = i /\ s.mode = o /\ s.count = m

(* It keeps its mode.                                                      *)
LEMMA MovedType ==
  ASSUME NEW r \in ConType, NEW m \in Nat, NEW f \in Nat, NEW i \in Nat,
         NEW s, s = Moved(r, m, f, i)
  PROVE  s \in ConType /\ MovedTo(s, r.mode, m, f, i)
<1> PICK v \in ConType : v = [r EXCEPT !.at = "udp+cursor", !.count = m]
  BY PlaceNames DEF ConType
<1>1. v.at = "udp+cursor" /\ v.mode = r.mode /\ v.count = m
  BY DEF ConType
<1>2. s = [v EXCEPT !.file = f, !.idx = i]
  BY DEF Moved
<1> QED
  BY <1>1, <1>2 DEF ConType, MovedTo

(* The arithmetic of it: the later place cannot be in the earlier file.    *)
LEMMA Overtaken ==
  ASSUME NEW b \in Nat, NEW l \in Nat, NEW e \in Nat, NEW ri \in Nat, NEW gi \in Nat,
         b + l <= e, gi <= l, b + gi > e + ri
  PROVE  FALSE
OBVIOUS

(* Of two places behind successive records the first is not in the later   *)
(* file.                                                                   *)
LEMMA NotBefore ==
  ASSUME DiskTypes, Disk, NEW r, NEW g, Behind(r), Behind(g),
         r.idx \in Nat, g.idx \in Nat, g.count > r.count
  PROVE  FileAfter(r, g) = g.file
<1>1. r.file \in Files /\ g.file \in Files
  BY DEF Behind
<1> PICK x \in Files : x = r.file
  BY <1>1
<1> PICK y \in Files : y = g.file
  BY <1>1
<1>2. x \in Int /\ y \in Int
  BY DEF Files
<1>3. CASE y < x
  <2>1. FinalCount(y) <= file[x].base
    BY <1>3 DEF Disk, Chained, Behind
  <2> PICK b \in Nat : b = file[y].base
    BY FinalCountIs DEF Disk
  <2> PICK l \in Nat : l = Len(file[y].recs)
    BY FinalCountIs DEF Disk
  <2> PICK e \in Nat : e = file[x].base
    BY FinalCountIs DEF Disk
  <2> PICK ri \in Nat : ri = r.idx
    OBVIOUS
  <2> PICK gi \in Nat : gi = g.idx
    OBVIOUS
  <2>2. b + l <= e
    BY <2>1, FinalCountIs DEF Disk
  <2>3. r.count = e + ri /\ g.count = b + gi /\ gi <= l
    BY DEF Behind
  <2>4. b + gi > e + ri
    BY <2>3
  <2>5. FALSE
    BY <2>2, <2>3, <2>4, Overtaken
  <2> QED
    BY <2>5
<1>4. CASE ~(y < x)
  BY <1>2, <1>4 DEF FileAfter
<1> QED
  BY <1>3, <1>4

(* The datagram that is taken for the next record is that of the next      *)
(* record.                                                                 *)
LEMMA HeadIsNext ==
  ASSUME DiskTypes, ConTypes, Disk, NEW c \in Consumer, Sound(c), UdpHandle(c)
  PROVE  /\ Head(queue[c]) \in PlaceType /\ Behind(Head(queue[c]))
         /\ Head(queue[c]).count <= Total /\ Head(queue[c]).count = con[c].count + 1
<1> PICK r \in ConType : r = con[c]
  BY DEF ConTypes
<1> PICK q \in Seq(PlaceType) : q = queue[c]
  BY DEF ConTypes
<1>1. Fits(r, q, cursor[c], done[c], top[c])
  BY DEF Sound
<1>2. q # <<>>
  BY DEF UdpHandle
<1>3. Head(q) \in PlaceType /\ Behind(Head(q))
  <2>1. \A z \in 1..Len(q) : Behind(q[z])
    BY <1>1 DEF Fits, Counts
  <2>2. Head(q) = q[1] /\ Head(q) \in PlaceType /\ Len(q) \in Nat /\ Len(q) # 0
    BY <1>2, HeadTailProperties
  <2> QED
    BY <2>1, <2>2
<1> PICK g \in PlaceType : g = Head(q)
  BY <1>3
<1> PICK m \in Nat : m = g.count
  BY DEF PlaceType
<1> PICK n \in Nat : n = r.count
  BY DEF ConType
<1> PICK w \in Nat : w = Total
  BY FS_CardinalityType DEF Disk, Total
<1>4. m <= w /\ n <= w /\ w <= MaxRecords /\ MaxRecords \in Nat
  BY <1>1, <1>3, BehindCount, BoundsAssumption DEF Disk, Fits, Counts
<1>5. Wire(m) = Wire(n + 1)
  BY DEF UdpHandle, NextInLine
<1>6. m \in 0..(MaxRecords + 1) /\ n + 1 \in 0..(MaxRecords + 1)
  BY <1>4, InRange
<1>7. m = n + 1
  BY <1>5, <1>6, WireProperties
<1> QED
  BY <1>3, <1>4, <1>7

(* The handler is called with the next record, from its datagram.            *)
LEMMA UdpHandleSound ==
  ASSUME DiskTypes, DiskTypes', ConTypes, Disk, Disk', Grows, \A e \in Consumer : Sound(e),
         NEW c \in Consumer, UdpHandle(c)
  PROVE  ConTypes' /\ \A e \in Consumer : Sound(e)'
<1> USE DEF disk, production, consumption, handed, history
<1>1. Up(c)
  BY DEF UdpHandle, Up
<1> PICK r \in ConType : r = con[c]
  BY DEF ConTypes
<1> PICK q \in Seq(PlaceType) : q = queue[c]
  BY DEF ConTypes
<1> PICK k \in PlaceType : k = cursor[c]
  BY <1>1, Current
<1> PICK d \in Nat : d = done[c]
  BY <1>1, Current
<1> PICK t \in Nat : t = top[c]
  BY <1>1, Current
<1>2. Fits(r, q, k, d, t) /\ Runs(r)
  BY <1>1, Current DEF Sound
<1>3. /\ queue = [queue EXCEPT ![c] = q] /\ cursor = [cursor EXCEPT ![c] = k]
      /\ done = [done EXCEPT ![c] = d] /\ top = [top EXCEPT ![c] = t]
      /\ con = [con EXCEPT ![c] = r] /\ socket \in [Consumer -> BOOLEAN]
  BY <1>1, Current DEF ConTypes
<1>4. Total \in Nat /\ MaxRecords \in Nat /\ PerFile \in Nat /\ QueueMax \in Nat
  BY FS_CardinalityType, BoundsAssumption DEF Disk, Total
<1>5. r.at = "udp" /\ q # <<>>
  BY DEF UdpHandle
<1>6. /\ Head(q) \in PlaceType /\ Behind(Head(q))
      /\ Tail(q) \in Seq(PlaceType) /\ Len(Tail(q)) <= QueueMax
      /\ \A z \in 1..Len(Tail(q)) : Behind(Tail(q)[z])
  <2>1. Len(q) <= QueueMax /\ \A z \in 1..Len(q) : Behind(q[z])
    BY <1>2 DEF Fits, Counts
  <2>2. /\ Head(q) = q[1] /\ Head(q) \in PlaceType /\ Tail(q) \in Seq(PlaceType)
        /\ Len(Tail(q)) = Len(q) - 1 /\ Len(q) \in Nat /\ Len(q) # 0
        /\ \A z \in 1..Len(Tail(q)) : Tail(q)[z] = q[z + 1]
    BY <1>5, HeadTailProperties
  <2>3. \A z \in 1..Len(Tail(q)) : z + 1 \in 1..Len(q)
    BY <2>2
  <2> QED
    BY <1>4, <2>1, <2>2, <2>3
<1> PICK g \in PlaceType : g = Head(q)
  BY <1>6
<1> PICK m \in Nat : m = g.count
  BY DEF PlaceType
<1> PICK n \in Nat : n = r.count
  BY DEF ConType
<1>7. m <= Total /\ n <= Total /\ g.idx <= PerFile /\ Total <= MaxRecords
  BY <1>2, <1>6, BehindCount DEF Disk, Fits, Counts
<1>8. m = n + 1
  BY HeadIsNext
<1> PICK f \in Nat : f = FileAfter(r, g)
  BY DEF FileAfter, ConType, PlaceType
<1> PICK i \in Nat : i = g.idx
  BY DEF PlaceType
<1>9. PICK s : s = Moved(r, m, f, i)
  OBVIOUS
<1>10. /\ s \in ConType /\ s.at = "udp+cursor"
       /\ s.file = f /\ s.idx = i /\ s.mode = r.mode /\ s.count = m
  <2>1. s \in ConType /\ MovedTo(s, r.mode, m, f, i)
    BY <1>9, MovedType
  <2> QED
    BY <2>1 DEF MovedTo
<1> PICK p \in Seq(PlaceType) : p = Tail(q)
  BY <1>6
<1> PICK h \in Nat : h = IF m > t THEN m ELSE t
  OBVIOUS
<1> PICK j \in Nat : j = k.count
  BY DEF PlaceType
<1>11. j <= n /\ n <= j + 1 /\ t <= j + 2 /\ d <= t /\ t <= Total /\ n <= d
  <2>1. k # Never
    BY NeverAssumption DEF PlaceType
  <2> QED
    BY <1>2, <1>5, <2>1 DEF Fits, Counts, Redo
<1>12. 1 <= f /\ f <= MaxRecords + 3
  <2>1. 1 <= r.file /\ r.file <= MaxRecords + 3
    BY <1>2 DEF Fits, Counts
  <2>2. g.file \in Files
    BY <1>6 DEF Behind
  <2>3. 1 <= g.file /\ g.file <= MaxRecords + 3
    BY <2>2, FileNumbers
  <2> QED
    BY <2>1, <2>3 DEF FileAfter
<1> PICK w \in Nat : w = Total
  BY <1>4
<1>18. m <= w /\ h <= w /\ h <= j + 2 /\ j <= m /\ m <= h /\ m \in j..(j + 2)
  <2>1. m <= w /\ t <= w
    BY <1>7, <1>11
  <2> QED
    <3>1. OneMore(n, m, j, t, d, w, h)
      BY <1>8, <1>11, <2>1 DEF OneMore
    <3>2. JustAhead(m, j, w, h)
      BY <3>1, NextCounts
    <3> QED
      BY <3>2 DEF JustAhead
<1>13. Counts(s, p, k, m, h)
  <2>1. k # Never /\ m # Never /\ h # Never
    BY NeverAssumption DEF PlaceType
  <2>2. k.file \in 1..(MaxRecords + 3) /\ k.idx <= PerFile
    BY <1>2, <2>1 DEF Fits, Counts
  <2> QED
    BY <1>6, <1>7, <1>10, <1>12, <1>18, <2>1, <2>2 DEF Counts
<1>14. Redo(s, k, m)
  BY <1>10, <1>18 DEF Redo, Reads, Handles
<1>15. Whereabouts(s, k)
  <2>1. ASSUME prunes = 0
        PROVE  Behind(s)
    <3>1. Behind(r) /\ Behind(g)
      BY <1>2, <1>6, <2>1 DEF Fits, Whereabouts
    <3>2. r.idx \in Nat /\ g.idx \in Nat
      BY DEF ConType, PlaceType
    <3>3. g.count > r.count
      BY SMTT(60), <1>8
    <3>4. f = g.file
      BY <3>1, <3>2, <3>3, NotBefore
    <3> QED
      BY <1>10, <3>1, <3>4 DEF Behind
  <2> QED
    BY <1>2, <1>5, <1>10, <2>1 DEF Fits, Whereabouts, Reads
<1>16. Leaves(c, s, p, k, m, h)
  BY <1>3, <1>9 DEF UdpHandle, Become, Hand, Leaves, Moved
<1>17. Fits(s, p, k, m, h)
  BY <1>13, <1>14, <1>15 DEF Fits
<1> QED
  BY <1>10, <1>16, <1>17, ConsumerSound

(* The counts when the cursor file at j is replaced by one at n.            *)
Rewritten(n, j, t, d, w, f, b) ==
  d = n /\ j <= n /\ t <= j + 2 /\ d <= t /\ n <= w /\ t <= w /\ 1 <= f /\ f <= b + 3

Close(n, t, d, w, f, b) ==
  t <= w /\ n <= w /\ n <= d /\ t <= n + 2 /\ d <= t /\ f \in 1..(b + 3) /\ n \in n..(n + 1)

(* What was handed goes on being little ahead of it.                       *)
LEMMA CursorCounts ==
  ASSUME NEW n \in Nat, NEW j \in Nat, NEW t \in Nat, NEW d \in Nat, NEW w \in Nat,
         NEW f \in Nat, NEW b \in Nat, Rewritten(n, j, t, d, w, f, b)
  PROVE  Close(n, t, d, w, f, b)
BY DEF Rewritten, Close

(* The cursor file is written after a record from a datagram.               *)
LEMMA UdpCursorSound ==
  ASSUME DiskTypes, DiskTypes', ConTypes, Disk, Disk', Grows, \A e \in Consumer : Sound(e),
         NEW c \in Consumer, UdpCursor(c)
  PROVE  ConTypes' /\ \A e \in Consumer : Sound(e)'
<1> USE DEF disk, production, consumption, handed, history
<1>1. Up(c)
  BY DEF UdpCursor, Up
<1> PICK r \in ConType : r = con[c]
  BY DEF ConTypes
<1> PICK q \in Seq(PlaceType) : q = queue[c]
  BY DEF ConTypes
<1> PICK k \in PlaceType : k = cursor[c]
  BY <1>1, Current
<1> PICK d \in Nat : d = done[c]
  BY <1>1, Current
<1> PICK t \in Nat : t = top[c]
  BY <1>1, Current
<1>2. Fits(r, q, k, d, t) /\ Runs(r)
  BY <1>1, Current DEF Sound
<1>3. /\ queue = [queue EXCEPT ![c] = q] /\ cursor = [cursor EXCEPT ![c] = k]
      /\ done = [done EXCEPT ![c] = d] /\ top = [top EXCEPT ![c] = t]
      /\ con = [con EXCEPT ![c] = r] /\ socket \in [Consumer -> BOOLEAN]
  BY <1>1, Current DEF ConTypes
<1>4. Total \in Nat /\ MaxRecords \in Nat /\ PerFile \in Nat /\ QueueMax \in Nat
  BY FS_CardinalityType, BoundsAssumption DEF Disk, Total
<1>5. r.at = "udp+cursor"
  BY DEF UdpCursor
<1> PICK a \in {"idle", "udp"} : a = IF r.limit <= 1 THEN "idle" ELSE "udp"
  OBVIOUS
<1> PICK b \in BOOLEAN : b = (r.limit <= 1)
  <2>1. (r.limit <= 1) \in BOOLEAN
    OBVIOUS
  <2> QED
    BY <2>1
<1> PICK l \in Limits : l = IF r.limit <= 1 THEN 0 ELSE r.limit - 1
  BY LimitNumbers DEF ConType
<1>6. PICK s \in ConType : s = [r EXCEPT !.at = a, !.timer = b, !.limit = l]
  BY PlaceNames DEF ConType
<1>7. s.at = a /\ s.file = r.file /\ s.idx = r.idx /\ s.mode = r.mode /\ s.count = r.count
  BY <1>6 DEF ConType
<1>8. con' = [con EXCEPT ![c] = s]
  BY <1>6 DEF UdpCursor, Become
<1> PICK n \in Nat : n = r.count
  BY DEF ConType
<1> PICK f \in Nat : f = r.file
  BY DEF ConType
<1> PICK i \in Nat : i = r.idx
  BY DEF ConType
<1>9. PICK g \in PlaceType : g = [file |-> f, idx |-> i, count |-> n]
  BY DEF PlaceType
<1>10. g.file = f /\ g.idx = i /\ g.count = n /\ cursor' = [cursor EXCEPT ![c] = g]
  BY <1>9 DEF UdpCursor, CursorOf
<1> PICK j \in Nat : j = k.count
  BY DEF PlaceType
<1>11. /\ j <= n /\ d = n /\ t <= j + 2 /\ d <= t /\ t <= Total /\ n <= Total
       /\ 1 <= f /\ f <= MaxRecords + 3 /\ i <= PerFile
  <2>1. k # Never
    BY NeverAssumption DEF PlaceType
  <2> QED
    BY <1>2, <1>5, <2>1 DEF Fits, Counts, Redo
<1> PICK w \in Nat : w = Total
  BY <1>4
<1>17. t <= w /\ n <= w /\ n <= d /\ t <= n + 2 /\ d <= t /\ f \in 1..(MaxRecords + 3)
       /\ n \in n..(n + 1)
  <2>1. t <= w /\ n <= w
    BY <1>11
  <2> QED
    <3>1. Rewritten(n, j, t, d, w, f, MaxRecords)
      BY <1>11, <2>1 DEF Rewritten
    <3>2. Close(n, t, d, w, f, MaxRecords)
      BY <1>4, <3>1, CursorCounts
    <3> QED
      BY <3>2 DEF Close
<1>12. Counts(s, q, g, d, t)
  <2>1. g # Never /\ d # Never /\ t # Never
    BY NeverAssumption DEF PlaceType
  <2>2. Len(q) <= QueueMax /\ \A z \in 1..Len(q) : Behind(q[z])
    BY <1>2 DEF Fits, Counts
  <2> QED
    BY <1>7, <1>10, <1>11, <1>17, <2>1, <2>2 DEF Counts
<1>13. Redo(s, g, d)
  <2>1. s.at \in {"idle", "udp"}
    BY <1>7
  <2>2. s.count \in g.count..(g.count + 1) /\ s.count <= d
    BY <1>7, <1>10, <1>17
  <2> QED
    BY <2>1, <2>2 DEF Redo, Reads, Handles
<1>14. Whereabouts(s, g)
  <2>1. Behind(r) => Behind(s) /\ Behind(g)
    BY <1>7, <1>10 DEF Behind
  <2> QED
    BY <1>2, <1>5, <1>7, <2>1 DEF Fits, Whereabouts, Reads
<1>15. Leaves(c, s, q, g, d, t)
  BY <1>3, <1>8, <1>10 DEF UdpCursor, Leaves
<1>16. Fits(s, q, g, d, t)
  BY <1>12, <1>13, <1>14 DEF Fits
<1> QED
  BY <1>15, <1>16, ConsumerSound

(* A program that follows the log is started, from its cursor file if      *)
(* there is one.                                                           *)
StartsAt(c, g, d, t, o) ==
  /\ g.file \in 1..(MaxRecords + 3) /\ g.idx <= PerFile /\ g.count <= d /\ d <= t
  /\ t <= g.count + 2 /\ t <= Total /\ (prunes = 0 => Behind(g))
  /\ con' = [con EXCEPT ![c] = [Idle EXCEPT !.at = "reading", !.file = g.file,
                                   !.idx = g.idx, !.count = g.count, !.mode = o]]
  /\ cursor' = [cursor EXCEPT ![c] = g] /\ done' = [done EXCEPT ![c] = d]
  /\ top' = [top EXCEPT ![c] = t]

(* It starts at a place that is in the log.                                *)
LEMMA OpenStarts ==
  ASSUME DiskTypes, ConTypes, Disk, NEW c \in Consumer, Sound(c), Open(c)
  PROVE  \E g \in PlaceType, d \in Nat, t \in Nat, o \in {"step", "logend"} :
           StartsAt(c, g, d, t, o)
<1> USE DEF disk, production, consumption, handed, history
<1>1. Fits(con[c], queue[c], cursor[c], done[c], top[c])
  BY DEF Sound
<1>2. Total \in Nat /\ MaxRecords \in Nat /\ PerFile \in Nat
  BY FS_CardinalityType, BoundsAssumption DEF Disk, Total
<1>3. done = [done EXCEPT ![c] = done[c]] /\ top = [top EXCEPT ![c] = top[c]]
  BY DEF ConTypes
<1>4. CASE cursor[c] # Never
  <2> PICK k \in PlaceType : k = cursor[c]
    BY <1>4 DEF ConTypes
  <2> PICK d \in Nat : d = done[c]
    BY <1>1, <1>4 DEF Fits, Counts, ConTypes
  <2> PICK t \in Nat : t = top[c]
    BY <1>1, <1>4 DEF Fits, Counts, ConTypes
  <2>1. /\ k.file \in 1..(MaxRecords + 3) /\ k.idx <= PerFile
        /\ k.count <= d /\ t <= k.count + 2 /\ d <= t /\ t <= Total
    BY <1>1, <1>4 DEF Fits, Counts
  <2>2. prunes = 0 => Behind(k)
    BY <1>1, <1>4 DEF Fits, Whereabouts
  <2>3. /\ con' = [con EXCEPT ![c] = [Idle EXCEPT !.at = "reading", !.file = k.file,
                                        !.idx = k.idx, !.count = k.count, !.mode = "logend"]]
        /\ cursor' = [cursor EXCEPT ![c] = k]
        /\ done' = [done EXCEPT ![c] = d] /\ top' = [top EXCEPT ![c] = t]
    BY <1>3, <1>4 DEF Open, Become
  <2>4. StartsAt(c, k, d, t, "logend")
    BY <2>1, <2>2, <2>3 DEF StartsAt
  <2> QED
    BY <2>4
<1>5. CASE cursor[c] = Never
  <2>1. link \in Files /\ file[link].headed
    BY <1>2, <1>5 DEF Open, DiskTypes, Files
  <2> PICK b \in Nat : b = file[link].base
    BY <2>1 DEF DiskTypes, FileType
  <2> PICK f \in Nat : f = link
    BY <2>1 DEF DiskTypes
  <2>2. PICK g \in PlaceType : g = [file |-> f, idx |-> 0, count |-> b]
    BY DEF PlaceType
  <2>3. g.file = f /\ g.idx = 0 /\ g.count = b
    BY <2>2
  <2>4. Behind(g)
    <3>1. Len(file[f].recs) \in Nat
      BY <2>1 DEF DiskTypes, FileType
    <3> QED
      BY <2>1, <2>3, <3>1 DEF Behind
  <2>5. b <= Total
    BY <2>3, <2>4, BehindCount
  <2>6. f \in 1..(MaxRecords + 3)
    BY <2>1, FileNumbers
  <2>7. /\ con' = [con EXCEPT ![c] = [Idle EXCEPT !.at = "reading", !.file = g.file,
                                        !.idx = g.idx, !.count = g.count, !.mode = "step"]]
        /\ cursor' = [cursor EXCEPT ![c] = g]
        /\ done' = [done EXCEPT ![c] = b] /\ top' = [top EXCEPT ![c] = b]
    BY <1>5, <2>2, <2>3 DEF Open, Become
  <2>8. /\ g.file \in 1..(MaxRecords + 3) /\ g.idx <= PerFile /\ g.count <= b /\ b <= b
        /\ b <= g.count + 2
    BY <1>2, <2>3, <2>6
  <2>9. StartsAt(c, g, b, b, "step")
    BY <2>4, <2>5, <2>7, <2>8 DEF StartsAt
  <2> QED
    BY <2>9
<1> QED
  BY <1>4, <1>5

(* Starting it keeps what is known of every consumer.                      *)
LEMMA OpenSound ==
  ASSUME DiskTypes, DiskTypes', ConTypes, Disk, Disk', Grows, \A e \in Consumer : Sound(e),
         NEW c \in Consumer, Open(c)
  PROVE  ConTypes' /\ \A e \in Consumer : Sound(e)'
<1> USE DEF disk, production, consumption, handed, history
<1> PICK q \in Seq(PlaceType) : q = queue[c]
  BY DEF ConTypes
<1>1. Len(q) <= QueueMax /\ \A z \in 1..Len(q) : Behind(q[z])
  BY DEF Sound, Fits, Counts
<1>2. Total \in Nat /\ MaxRecords \in Nat /\ PerFile \in Nat /\ QueueMax \in Nat
  BY FS_CardinalityType, BoundsAssumption DEF Disk, Total
<1>3. queue = [queue EXCEPT ![c] = q] /\ socket \in [Consumer -> BOOLEAN]
  BY DEF ConTypes
<1>4. PICK g \in PlaceType, d \in Nat, t \in Nat, o \in {"step", "logend"} :
        StartsAt(c, g, d, t, o)
  BY OpenStarts
<1>5. /\ g.file \in 1..(MaxRecords + 3) /\ g.idx <= PerFile /\ g.count <= d /\ d <= t
      /\ t <= g.count + 2 /\ t <= Total /\ (prunes = 0 => Behind(g))
      /\ cursor' = [cursor EXCEPT ![c] = g] /\ done' = [done EXCEPT ![c] = d]
      /\ top' = [top EXCEPT ![c] = t]
  BY <1>4 DEF StartsAt
<1> PICK f \in Nat : f = g.file
  BY DEF PlaceType
<1> PICK i \in Nat : i = g.idx
  BY DEF PlaceType
<1> PICK n \in Nat : n = g.count
  BY DEF PlaceType
<1>6. PICK s : s = [Idle EXCEPT !.at = "reading", !.file = f, !.idx = i, !.count = n, !.mode = o]
  OBVIOUS
<1>7. s \in ConType /\ s.at = "reading" /\ s.file = f /\ s.idx = i /\ s.count = n /\ s.mode = o
  BY <1>6, PlaceNames, LimitNumbers DEF Idle, ConType, Modes
<1>8. con' = [con EXCEPT ![c] = s]
  BY <1>4, <1>6 DEF StartsAt
<1>9. Counts(s, q, g, d, t)
  <2>1. g # Never /\ d # Never /\ t # Never
    BY NeverAssumption DEF PlaceType
  <2>2. f \in 1..(MaxRecords + 3) /\ i <= PerFile
    BY <1>5
  <2>3. n <= Total
    <3> PICK w \in Nat : w = Total
      BY <1>2
    <3>1. n <= d /\ d <= t /\ t <= w
      BY <1>5
    <3>2. n <= w
      BY <3>1
    <3> QED
      BY <3>2
  <2> QED
    BY <1>1, <1>2, <1>5, <1>7, <2>1, <2>2, <2>3 DEF Counts
<1>10. Redo(s, g, d)
  BY <1>5, <1>7 DEF Redo, Reads, Handles
<1>11. Whereabouts(s, g)
  <2>1. Behind(g) => Behind(s)
    BY <1>7 DEF Behind
  <2> QED
    BY <1>5, <1>7, <2>1 DEF Whereabouts, Reads
<1>12. Leaves(c, s, q, g, d, t)
  BY <1>3, <1>5, <1>8 DEF Open, Leaves
<1>13. Fits(s, q, g, d, t)
  BY <1>9, <1>10, <1>11 DEF Fits
<1> QED
  BY <1>7, <1>12, <1>13, ConsumerSound

-----------------------------------------------------------------------------
(* The steps that leave the consumers alone.                               *)
LEMMA OthersStay ==
  ASSUME DiskTypes, DiskTypes', ConTypes, Disk, Disk', Grows, \A e \in Consumer : Sound(e),
         UNCHANGED consumption
  PROVE  ConTypes' /\ \A e \in Consumer : Sound(e)'
<1>1. UNCHANGED <<con, queue, cursor, socket, done, top>>
  BY DEF consumption
<1>2. ConTypes'
  BY <1>1 DEF ConTypes
<1>3. ASSUME NEW e \in Consumer
      PROVE  Sound(e)'
  <2> PICK r \in ConType : r = con[e]
    BY DEF ConTypes
  <2> PICK q \in Seq(PlaceType) : q = queue[e]
    BY DEF ConTypes
  <2> PICK k \in PlaceType \cup {Never} : k = cursor[e]
    BY DEF ConTypes
  <2> PICK d \in Nat \cup {Never} : d = done[e]
    BY DEF ConTypes
  <2> PICK t \in Nat \cup {Never} : t = top[e]
    BY DEF ConTypes
  <2>1. Fits(r, q, k, d, t)
    BY DEF Sound
  <2>2. Fits(r, q, k, d, t)'
    BY <2>1, FitsStays
  <2>3. con'[e] = r /\ queue'[e] = q /\ cursor'[e] = k /\ done'[e] = d /\ top'[e] = t
    BY <1>1
  <2> QED
    BY <2>2, <2>3 DEF Sound
<1> QED
  BY <1>2, <1>3

(* A datagram names the place behind the newest record.                    *)
LEMMA DatagramBehind ==
  ASSUME DiskTypes, Disk, writer.at = "send"
  PROVE  Datagram \in PlaceType /\ Behind(Datagram)
<1> PICK t \in Files : Newest(t)
  BY DEF Disk
<1>1. writer.file = t /\ writer.count = FinalCount(t) /\ file[t].headed
  BY DEF Newest, WriterAt, Files
<1> PICK n \in Nat : n = Len(file[t].recs)
  BY FinalCountIs DEF Disk
<1> PICK b \in Nat : b = file[t].base
  BY FinalCountIs DEF Disk
<1>2. writer.count = b + n
  BY <1>1, FinalCountIs DEF Disk
<1>3. t \in Nat
  BY DEF Files
<1> PICK m \in Nat : m = b + n
  OBVIOUS
<1>4. PICK g \in PlaceType : g = [file |-> t, idx |-> n, count |-> m]
  BY <1>3 DEF PlaceType
<1>5. g = Datagram
  BY <1>1, <1>2, <1>4 DEF Datagram
<1>6. Behind(g)
  BY <1>1, <1>4 DEF Behind
<1> QED
  BY <1>5, <1>6

(* It may be added to what waits in a socket.                              *)
LEMMA QueueGrows ==
  ASSUME NEW r \in ConType, NEW q \in Seq(PlaceType), NEW k \in PlaceType \cup {Never},
         NEW d \in Nat \cup {Never}, NEW t \in Nat \cup {Never}, Fits(r, q, k, d, t),
         NEW g \in PlaceType, Behind(g), Len(q) < QueueMax
  PROVE  Append(q, g) \in Seq(PlaceType) /\ Fits(r, Append(q, g), k, d, t)
<1> PICK p \in Seq(PlaceType) : p = Append(q, g)
  BY AppendProperties
<1>1. /\ Len(q) \in Nat /\ Len(p) = Len(q) + 1 /\ p[Len(q) + 1] = g
      /\ \A i \in 1..Len(q) : p[i] = q[i]
  BY AppendProperties
<1>2. \A i \in 1..Len(p) : Behind(p[i])
  <2>1. \A i \in 1..Len(q) : Behind(q[i])
    BY DEF Fits, Counts
  <2>2. \A i \in 1..Len(p) : i \in 1..Len(q) \/ i = Len(q) + 1
    BY <1>1
  <2> QED
    BY <1>1, <2>1, <2>2
<1>3. Len(p) <= QueueMax
  BY <1>1, BoundsAssumption
<1>4. Counts(r, p, k, d, t)
  BY <1>2, <1>3 DEF Fits, Counts
<1> QED
  BY <1>4 DEF Fits

(* The datagrams of a record reach those that can take them.               *)
LEMMA SendSound ==
  ASSUME DiskTypes, DiskTypes', ConTypes, Disk, Disk', Grows, \A e \in Consumer : Sound(e), Send
  PROVE  ConTypes' /\ \A e \in Consumer : Sound(e)'
<1>1. /\ UNCHANGED <<con, cursor, socket, done, top>> /\ writer.at = "send"
      /\ queue' = [c \in Consumer |-> IF c \in registered /\ Accepts(c)
                                      THEN Append(queue[c], Datagram) ELSE queue[c]]
  BY DEF Send, Step, handed
<1> PICK g \in PlaceType : g = Datagram
  BY <1>1, DatagramBehind
<1>2. Behind(g)
  BY <1>1, DatagramBehind
<1>3. ASSUME NEW e \in Consumer
      PROVE  queue'[e] \in Seq(PlaceType) /\ Sound(e)'
  <2> PICK r \in ConType : r = con[e]
    BY DEF ConTypes
  <2> PICK q \in Seq(PlaceType) : q = queue[e]
    BY DEF ConTypes
  <2> PICK k \in PlaceType \cup {Never} : k = cursor[e]
    BY DEF ConTypes
  <2> PICK d \in Nat \cup {Never} : d = done[e]
    BY DEF ConTypes
  <2> PICK t \in Nat \cup {Never} : t = top[e]
    BY DEF ConTypes
  <2>1. Fits(r, q, k, d, t)
    BY DEF Sound
  <2>2. con'[e] = r /\ cursor'[e] = k /\ done'[e] = d /\ top'[e] = t
    BY <1>1
  <2>3. PICK p \in Seq(PlaceType) : p = queue'[e] /\ Fits(r, p, k, d, t)
    <3>1. CASE e \in registered /\ Accepts(e)
      <4>1. Len(q) < QueueMax /\ queue'[e] = Append(q, g)
        BY <1>1, <3>1 DEF Accepts
      <4> QED
        BY <1>2, <2>1, <4>1, QueueGrows
    <3>2. CASE ~(e \in registered /\ Accepts(e))
      BY <1>1, <2>1, <3>2
    <3> QED
      BY <3>1, <3>2
  <2>4. Fits(r, p, k, d, t)'
    BY <2>3, FitsStays
  <2> QED
    BY <2>2, <2>3, <2>4 DEF Sound
<1>4. ConTypes'
  <2>1. queue' \in [Consumer -> Seq(PlaceType)]
    BY <1>1, <1>3
  <2> QED
    BY <1>1, <2>1 DEF ConTypes
<1> QED
  BY <1>3, <1>4

(* The directory that nbMsgLogInitialize made.                             *)
LEMMA LogInit == Init => LogInv
<1> SUFFICES ASSUME Init
             PROVE  LogInv
  OBVIOUS
<1>1. /\ MaxRecords \in Nat /\ PerFile \in Nat /\ QueueMax \in Nat
      /\ 1 \in Files /\ \A f \in Files : f \in Int /\ f >= 1
  BY BoundsAssumption DEF Files
<1>3. <<>> \in Seq(Nat) /\ Len(<<>>) = 0
  OBVIOUS
<1> PICK e \in Seq(Nat) : e = <<>>
  BY <1>3
<1> PICK z \in FileType : z = NoFile
  <2>1. NoFile = [exists |-> FALSE, headed |-> FALSE, base |-> 0, recs |-> e, footed |-> FALSE]
    BY DEF NoFile
  <2> QED
    BY <2>1 DEF FileType
<1>2. ~z.headed /\ z.base = 0 /\ z.recs = <<>> /\ ~z.footed
  BY DEF NoFile
<1> PICK y \in FileType : y = [z EXCEPT !.exists = TRUE, !.headed = TRUE]
  BY DEF FileType
<1>4. /\ FirstFile = y /\ y.exists /\ y.headed /\ y.base = 0 /\ y.recs = <<>> /\ ~y.footed
  BY <1>2 DEF FirstFile, FileType
<1>5. \A f \in Files :
        /\ file[f].recs = <<>> /\ file[f].base = 0 /\ ~file[f].footed
        /\ file[f].headed <=> f = 1
        /\ f = 1 => file[f].exists
  BY <1>2, <1>4 DEF Init
<1>6. DiskTypes
  <2>1. file \in [Files -> FileType]
    BY <1>4 DEF Init
  <2> QED
    BY <1>1, <2>1 DEF Init, DiskTypes, WriterType
<1>7. Idle \in ConType
  BY PlaceNames, LimitNumbers DEF Idle, ConType, Modes, Places
<1>8. ConTypes
  <2>1. <<>> \in Seq(PlaceType)
    OBVIOUS
  <2> QED
    BY <1>7, <2>1 DEF Init, ConTypes
<1>9. Stored = {}
  <2>1. \A f \in Files : 1..Len(file[f].recs) = {}
    BY <1>3, <1>5
  <2> QED
    BY <2>1 DEF Stored
<1>10. IsFiniteSet(Stored) /\ Total = 0
  BY <1>9, FS_EmptySet DEF Total
<1>11. Consecutive
  <2>1. 1..0 = {}
    OBVIOUS
  <2> QED
    BY <1>9, <1>10, <2>1 DEF Consecutive, Total
<1>12. \A f \in Files : FinalCount(f) = 0
  BY <1>5 DEF FinalCount
<1>13. Chained
  <2>1. \A f \in Files :
          /\ Len(file[f].recs) <= PerFile
          /\ \A i \in 1..Len(file[f].recs) : file[f].recs[i] = file[f].base + i
          /\ file[f].headed => f - 1 <= file[f].base
          /\ ~file[f].headed => file[f].recs = <<>> /\ file[f].base = 0
          /\ file[f].headed /\ prunes = 0 => file[f].exists
          /\ file[f].footed => f + 1 \in Files /\ file[f + 1].headed
    BY <1>1, <1>3, <1>5
  <2>2. \A f \in Files \ {1} : file[f].headed => file[f].base = FinalCount(f - 1)
    BY <1>5
  <2>3. \A f, g \in Files : f < g /\ file[g].headed => FinalCount(f) <= file[g].base
    BY <1>5, <1>12
  <2> QED
    BY <1>1, <1>5, <2>1, <2>2, <2>3 DEF Chained
<1>14. Newest(1)
  <2>1. WriterAt(1)
    BY DEF Init, WriterAt
  <2>2. \A f \in Files : f = 1 <=> f <= 1
    BY <1>1
  <2> QED
    BY <1>1, <1>5, <1>10, <1>12, <2>1, <2>2 DEF Newest
<1>15. Disk
  BY <1>1, <1>10, <1>11, <1>13, <1>14 DEF Disk
<1>16. ASSUME NEW c \in Consumer
       PROVE  Sound(c)
  <2> PICK r \in ConType : r = con[c]
    BY <1>8 DEF ConTypes
  <2>1. r.at = "down" /\ r.file = 0 /\ r.idx = 0 /\ r.mode = "step" /\ r.count = 0
    BY DEF Init, Idle
  <2>2. queue[c] = <<>> /\ cursor[c] = Never /\ done[c] = Never /\ top[c] = Never
    BY DEF Init
  <2>3. Counts(r, <<>>, Never, Never, Never)
    BY <1>1, <1>3, <1>10, <2>1 DEF Counts, Runs
  <2>4. Redo(r, Never, Never)
    BY <2>1 DEF Redo, Handles, Reads
  <2>5. Whereabouts(r, Never)
    BY <2>1 DEF Whereabouts, Reads, Runs
  <2> QED
    BY <2>2, <2>3, <2>4, <2>5 DEF Sound, Fits
<1> QED
  BY <1>6, <1>8, <1>15, <1>16 DEF LogInv

(* Every step keeps it.                                                    *)
LEMMA LogNext == LogInv /\ [Next]_vars => LogInv'
<1> SUFFICES ASSUME LogInv, [Next]_vars
             PROVE  LogInv'
  OBVIOUS
<1>1. DiskTypes /\ ConTypes /\ Disk /\ \A e \in Consumer : Sound(e)
  BY DEF LogInv
<1>2. DiskTypes' /\ Disk' /\ Grows
  BY <1>1, DiskNext
<1>3. SUFFICES ConTypes' /\ \A e \in Consumer : Sound(e)'
  BY <1>2 DEF LogInv
<1>4. CASE UNCHANGED consumption
  BY <1>1, <1>2, <1>4, OthersStay
<1>5. CASE Send
  BY <1>1, <1>2, <1>5, SendSound
<1>6. ASSUME NEW c \in Consumer, Open(c) \/ ConsumerStep(c) \/ StopConsumer(c)
      PROVE  ConTypes' /\ \A e \in Consumer : Sound(e)'
  <2>1. CASE Listen(c) \/ Poll(c) \/ UdpRead(c) \/ UdpEmpty(c) \/ UdpLow(c)
    BY <1>1, <1>2, <2>1, QuietStepSound
  <2>2. CASE Open(c)
    BY <1>1, <1>2, <2>2, OpenSound
  <2>3. CASE StopConsumer(c)
    BY <1>1, <1>2, <2>3, StopSound
  <2>4. CASE ReadRecord(c)
    BY <1>1, <1>2, <2>4, ReadRecordSound
  <2>5. CASE Handle(c)
    BY <1>1, <1>2, <2>5, HandleSound
  <2>6. CASE ReadFooter(c)
    BY <1>1, <1>2, <2>6, ReadFooterSound
  <2>7. CASE ReadEnd(c)
    BY <1>1, <1>2, <2>7, ReadEndSound
  <2>8. CASE UdpHigh(c)
    BY <1>1, <1>2, <2>8, UdpHighSound
  <2>9. CASE UdpHandle(c)
    BY <1>1, <1>2, <2>9, UdpHandleSound
  <2>10. CASE UdpCursor(c)
    BY <1>1, <1>2, <2>10, UdpCursorSound
  <2> QED
    BY <1>6, <2>1, <2>2, <2>3, <2>4, <2>5, <2>6, <2>7, <2>8, <2>9, <2>10 DEF ConsumerStep
<1>7. CASE Produce \/ StopProducer \/ \E f \in Files \ {1} : Prune(f)
  BY <1>4, <1>7 DEF Produce, StopProducer, Prune
<1>8. CASE ProducerStep
  <2>1. CASE Write \/ CreateFile \/ RemoveLink \/ MakeLink \/ WriteHeader \/ WriteFooter
             \/ WriteRecord \/ \E c \in Consumer : Register(c)
    BY <1>4, <2>1 DEF Write, CreateFile, RemoveLink, MakeLink, WriteHeader, WriteFooter,
                      WriteRecord, Register
  <2> QED
    BY <1>5, <1>8, <2>1 DEF ProducerStep
<1>9. CASE UNCHANGED vars
  BY <1>4, <1>9 DEF vars, consumption
<1> QED
  BY <1>6, <1>7, <1>8, <1>9 DEF Next

-----------------------------------------------------------------------------
(* What LogSound says of the directory and the producer.                   *)
LEMMA DiskBounds ==
  ASSUME DiskTypes, Disk
  PROVE  /\ file \in [Files -> [exists : BOOLEAN, headed : BOOLEAN, base : 0..MaxRecords,
                                recs : UNION {[1..n -> 1..MaxRecords] : n \in 0..PerFile},
                                footed : BOOLEAN]]
         /\ writer.file \in 0..(MaxRecords + 2) /\ writer.count \in 0..MaxRecords
<1> PICK t \in Files : Newest(t)
  BY DEF Disk
<1>1. Total \in Nat /\ MaxRecords \in Nat /\ PerFile \in Nat /\ Total <= MaxRecords
  BY FS_CardinalityType, BoundsAssumption DEF Disk, Total
<1>2. ASSUME NEW f \in Files
      PROVE  /\ file[f].base \in 0..MaxRecords
             /\ file[f].recs \in UNION {[1..n -> 1..MaxRecords] : n \in 0..PerFile}
  <2>1. CASE file[f].headed
    <3> PICK b \in Nat : b = file[f].base
      BY FinalCountIs DEF Disk
    <3> PICK l \in Nat : l = Len(file[f].recs)
      BY FinalCountIs DEF Disk
    <3> PICK w \in Nat : w = Total
      BY <1>1
    <3>1. b + l <= w /\ w <= MaxRecords
      BY <1>1, <2>1, BehindCount, FinalCountIs DEF Disk
    <3>2. l <= PerFile /\ \A i \in 1..l : file[f].recs[i] = b + i
      BY DEF Disk, Chained
    <3>3. \A i \in 1..l : file[f].recs[i] \in 1..MaxRecords
      BY SMTT(60), <1>1, <3>1, <3>2
    <3>4. file[f].recs \in [1..l -> 1..MaxRecords]
      <4>1. file[f].recs \in Seq(Nat)
        BY FinalCountIs DEF Disk
      <4>2. file[f].recs \in [1..l -> Nat]
        BY <4>1
      <4> QED
        BY <3>3, <4>2
    <3>5. l \in 0..PerFile
      BY <1>1, <3>2
    <3>6. b \in 0..MaxRecords
      BY <1>1, <3>1
    <3> QED
      BY <3>4, <3>5, <3>6
  <2>2. CASE ~file[f].headed
    <3>1. file[f].recs = <<>> /\ file[f].base = 0
      BY <2>2 DEF Disk, Chained
    <3>2. <<>> \in [1..0 -> 1..MaxRecords]
      OBVIOUS
    <3>3. 0 \in 0..PerFile /\ 0 \in 0..MaxRecords
      BY <1>1
    <3> QED
      BY <3>1, <3>2, <3>3
  <2> QED
    BY <2>1, <2>2
<1>3. file \in [Files -> [exists : BOOLEAN, headed : BOOLEAN, base : 0..MaxRecords,
                          recs : UNION {[1..n -> 1..MaxRecords] : n \in 0..PerFile},
                          footed : BOOLEAN]]
  <2> DEFINE R == UNION {[1..n -> 1..MaxRecords] : n \in 0..PerFile}
             B == 0..MaxRecords
  <2>1. \A f \in Files : file[f].recs \in R /\ file[f].base \in B
    BY <1>2
  <2> HIDE DEF R, B
  <2>2. file \in [Files -> [exists : BOOLEAN, headed : BOOLEAN, base : B, recs : R,
                            footed : BOOLEAN]]
    <3>1. \A f \in Files : file[f] \in [exists : BOOLEAN, headed : BOOLEAN, base : B, recs : R,
                                        footed : BOOLEAN]
      BY <2>1 DEF DiskTypes, FileType
    <3> QED
      BY <3>1 DEF DiskTypes
  <2> QED
    BY <2>2 DEF R, B
<1>4. writer.count \in 0..MaxRecords
  BY <1>1 DEF Newest, WriterAt
<1>5. writer.file \in 0..(MaxRecords + 2)
  <2>1. CASE writer.at \in {"down", "ready", "create", "footer", "record", "send"}
    BY <1>1, <2>1 DEF Newest, WriterAt, Files
  <2>2. CASE writer.at \in {"unlink", "symlink", "header"}
    <3> PICK b \in Nat : b = file[t].base
      BY FinalCountIs DEF Disk
    <3> PICK l \in Nat : l = Len(file[t].recs)
      BY FinalCountIs DEF Disk
    <3>1. t - 1 <= b /\ t \in Int /\ 1 <= t
      BY DEF Disk, Chained, Newest, Files
    <3>2. b + l < MaxRecords
      BY <2>2, FinalCountIs DEF Newest, WriterAt, Disk
    <3>3. writer.file = t + 1
      BY <2>2 DEF Newest, WriterAt
    <3> QED
      BY <1>1, <3>1, <3>2, <3>3
  <2> QED
    BY <2>1, <2>2 DEF DiskTypes, WriterType
<1> QED
  BY <1>3, <1>4, <1>5

(* What it says of the consumers.                                          *)
LEMMA ConsumerBounds ==
  ASSUME ConTypes, Disk, NEW c \in Consumer, Sound(c)
  PROVE  /\ con[c].at \in Places /\ con[c].mode \in {"step", "logend", "filend"}
         /\ con[c].count \in 0..MaxRecords
         /\ done[c] \in 0..MaxRecords \cup {Never} /\ top[c] \in 0..MaxRecords \cup {Never}
         /\ con[c].timer \in BOOLEAN /\ con[c].got \in BOOLEAN
         /\ Len(queue[c]) <= QueueMax
         /\ cursor[c] \in Position \cup {Never}
         /\ con[c].at = "exit" => FooterLost \/ prunes > 0
<1>1. Fits(con[c], queue[c], cursor[c], done[c], top[c])
  BY DEF Sound
<1>2. Total \in Nat /\ MaxRecords \in Nat /\ PerFile \in Nat /\ Total <= MaxRecords
  BY FS_CardinalityType, BoundsAssumption DEF Disk, Total
<1> PICK w \in Nat : w = Total
  BY <1>2
<1>3. /\ con[c].at \in Places /\ con[c].mode \in {"step", "logend", "filend"}
      /\ con[c].timer \in BOOLEAN /\ con[c].got \in BOOLEAN /\ con[c].count \in Nat
  BY DEF ConTypes, ConType, Modes
<1>4. con[c].count \in 0..MaxRecords /\ Len(queue[c]) <= QueueMax
  <2> PICK n \in Nat : n = con[c].count
    BY <1>3
  <2>1. n <= w
    BY <1>1 DEF Fits, Counts
  <2> QED
    BY <1>1, <1>2, <2>1 DEF Fits, Counts
<1>5. con[c].at = "exit" => FooterLost \/ prunes > 0
  BY <1>1 DEF Fits, Whereabouts
<1>6. CASE cursor[c] = Never
  <2>1. done[c] = Never /\ top[c] = Never
    BY <1>1, <1>6 DEF Fits, Counts
  <2> QED
    BY <1>3, <1>4, <1>5, <1>6, <2>1
<1>7. CASE cursor[c] # Never
  <2> PICK k \in PlaceType : k = cursor[c]
    BY <1>7 DEF ConTypes
  <2> PICK d \in Nat : d = done[c]
    BY <1>1, <1>7 DEF Fits, Counts, ConTypes
  <2> PICK t \in Nat : t = top[c]
    BY <1>1, <1>7 DEF Fits, Counts, ConTypes
  <2> PICK f \in Nat : f = k.file
    BY DEF PlaceType
  <2> PICK i \in Nat : i = k.idx
    BY DEF PlaceType
  <2> PICK n \in Nat : n = k.count
    BY DEF PlaceType
  <2>1. f \in 1..(MaxRecords + 3) /\ i <= PerFile /\ n <= d /\ d <= t /\ t <= w
    BY <1>1, <1>7 DEF Fits, Counts
  <2>2. f \in 1..(MaxRecords + 4) /\ i \in 0..PerFile
    BY <1>2, <2>1
  <2>3. n \in 0..MaxRecords /\ d \in 0..MaxRecords /\ t \in 0..MaxRecords
    BY <1>2, <2>1
  <2>4. k \in Position
    BY <2>2, <2>3 DEF PlaceType, Position
  <2> QED
    BY <1>3, <1>4, <1>5, <2>3, <2>4
<1> QED
  BY <1>6, <1>7

(* The files hold every record once and in order, and no consumer that     *)
(* finds a footer behind every file that was ended, and no file removed,   *)
(* ever takes the log for broken, whenever the producer and the consumers  *)
(* stop (nbMsgLogWrite, nbMsgLogFileCreate, nbMsgLogRead, nbMsgUdpRead).   *)
THEOREM LogIsSound == Spec => []LogSound
<1>1. LogInv => LogSound
  <2> SUFFICES ASSUME LogInv
               PROVE  LogSound
    OBVIOUS
  <2>1. DiskTypes /\ ConTypes /\ Disk /\ \A c \in Consumer : Sound(c)
    BY DEF LogInv
  <2>2. TypeOK
    <3>1. link \in 0..(MaxRecords + 2) /\ registered \subseteq Consumer /\ request \subseteq Consumer
          /\ writer.at \in {"down", "ready", "create", "unlink", "symlink", "header", "footer",
                             "record", "send"}
      BY <2>1 DEF DiskTypes, WriterType
    <3> QED
      BY <2>1, <3>1, DiskBounds, ConsumerBounds DEF TypeOK
  <2>3. NoConsumerExits
    BY <2>1, ConsumerBounds DEF NoConsumerExits
  <2> QED
    BY <2>1, <2>2, <2>3 DEF LogSound, Disk
<1> QED
  BY <1>1, LogInit, LogNext, PTL DEF Spec

-----------------------------------------------------------------------------
(* A record that is read from a file and handed to the handler.            *)
LEMMA HandleHands ==
  ASSUME DiskTypes, ConTypes, Disk, NEW c \in Consumer, Sound(c), Handle(c), Total' = Total
  PROVE  Stream!Hand(c)
<1>1. Up(c)
  BY DEF Handle, Up, Handling
<1> PICK r \in ConType : r = con[c]
  BY DEF ConTypes
<1> PICK k \in PlaceType : k = cursor[c]
  BY <1>1, Current
<1> PICK d \in Nat : d = done[c]
  BY <1>1, Current
<1> PICK t \in Nat : t = top[c]
  BY <1>1, Current
<1> PICK n \in Nat : n = r.count
  BY DEF ConType
<1> PICK j \in Nat : j = k.count
  BY DEF PlaceType
<1> PICK w \in Nat : w = Total
  BY FS_CardinalityType DEF Disk, Total
<1>2. Fits(r, queue[c], k, d, t)
  BY DEF Sound
<1>3. r.at \in Handles
  BY DEF Handle, Handling, Handles
<1>4. k # Never /\ d # Never
  BY NeverAssumption DEF PlaceType
<1>5. n = j + 1 /\ n <= w /\ j <= d /\ t <= j + 2
  BY <1>2, <1>3, <1>4 DEF Fits, Redo, Counts
<1>6. n \in 1..w /\ t - 2 < n /\ n <= d + 1
  BY <1>5
<1>7. done' = [done EXCEPT ![c] = n] /\ top' = [top EXCEPT ![c] = IF n > @ THEN n ELSE @]
  BY DEF Handle, Hand
<1> QED
  BY <1>4, <1>6, <1>7 DEF Stream!Hand, Total

(* A record that is handed from its datagram.                              *)
LEMMA UdpHandleHands ==
  ASSUME DiskTypes, ConTypes, Disk, NEW c \in Consumer, Sound(c), UdpHandle(c), Total' = Total
  PROVE  Stream!Hand(c)
<1>1. Up(c) /\ con[c].at = "udp"
  BY DEF UdpHandle, Up
<1> PICK r \in ConType : r = con[c]
  BY DEF ConTypes
<1> PICK k \in PlaceType : k = cursor[c]
  BY <1>1, Current
<1> PICK d \in Nat : d = done[c]
  BY <1>1, Current
<1> PICK t \in Nat : t = top[c]
  BY <1>1, Current
<1> PICK l \in Nat : l = r.count
  BY DEF ConType
<1> PICK j \in Nat : j = k.count
  BY DEF PlaceType
<1> PICK w \in Nat : w = Total
  BY FS_CardinalityType DEF Disk, Total
<1>2. Fits(r, queue[c], k, d, t)
  BY DEF Sound
<1> PICK n \in Nat : n = l + 1
  OBVIOUS
<1>3. Head(queue[c]).count = n /\ n <= w
  BY HeadIsNext
<1>4. k # Never /\ d # Never
  BY NeverAssumption DEF PlaceType
<1>5. l \in j..(j + 1) /\ l <= d /\ t <= j + 2
  BY <1>1, <1>2, <1>4 DEF Fits, Redo, Counts
<1>6. n \in 1..w /\ t - 2 < n /\ n <= d + 1
  BY <1>3, <1>5
<1>7. done' = [done EXCEPT ![c] = n] /\ top' = [top EXCEPT ![c] = IF n > @ THEN n ELSE @]
  BY <1>3 DEF UdpHandle, Hand
<1> QED
  BY <1>4, <1>6, <1>7 DEF Stream!Hand, Total

(* A consumer that is started for the first time.                          *)
LEMMA OpenJoins ==
  ASSUME DiskTypes, ConTypes, Disk, NEW c \in Consumer, Sound(c), Open(c), Total' = Total
  PROVE  Stream!Join(c) \/ UNCHANGED <<done, top>>
<1>1. CASE cursor[c] # Never
  BY <1>1 DEF Open, handed
<1>2. CASE cursor[c] = Never
  <2>1. done[c] = Never
    BY <1>2 DEF Sound, Fits, Counts
  <2>2. link \in Files /\ file[link].headed
    BY <1>2, BoundsAssumption DEF Open, DiskTypes, Files
  <2> PICK b \in Nat : b = file[link].base
    BY <2>2, FinalCountIs DEF Disk
  <2> PICK l \in Nat : l = Len(file[link].recs)
    BY <2>2, FinalCountIs DEF Disk
  <2> PICK w \in Nat : w = Total
    BY FS_CardinalityType DEF Disk, Total
  <2>3. b + l <= w
    BY <2>2, FinalCountIs, BehindCount DEF Disk
  <2>4. b \in 0..w
    BY <2>3
  <2>5. done' = [done EXCEPT ![c] = b] /\ top' = [top EXCEPT ![c] = b]
    BY <1>2 DEF Open
  <2> QED
    BY <2>1, <2>4, <2>5 DEF Stream!Join, Total
<1> QED
  BY <1>1, <1>2

(* Each step of the log is a step of the stream, or none of its business.  *)
LEMMA LogNextIsStreamNext == LogInv /\ [Next]_vars => [Stream!Next]_(Stream!vars)
<1> SUFFICES ASSUME LogInv, [Next]_vars
             PROVE  Stream!Next \/ (Total' = Total /\ UNCHANGED <<done, top>>)
  BY DEF Stream!vars, Total
<1> USE DEF disk, production, consumption, handed, history
<1>1. DiskTypes /\ ConTypes /\ Disk /\ \A e \in Consumer : Sound(e)
  BY DEF LogInv
<1>2. WriteRecord \/ Total' = Total
  BY <1>1, DiskNext
<1>3. CASE WriteRecord
  <2>1. DiskTypes'
    BY <1>1, <1>3, DiskNext
  <2>2. Total' = Total + 1
    BY <1>1, <1>3, <2>1, DiskRecord
  <2>3. UNCHANGED <<done, top>>
    BY <1>3 DEF WriteRecord
  <2> QED
    BY <2>2, <2>3 DEF Stream!Next, Stream!Produce, Total
<1>4. CASE Total' = Total
  <2>1. CASE Produce \/ StopProducer \/ \E f \in Files \ {1} : Prune(f)
    BY <1>4, <2>1 DEF Produce, StopProducer, Prune
  <2>2. CASE ProducerStep
    BY <1>4, <2>2 DEF ProducerStep, Write, CreateFile, RemoveLink, MakeLink, WriteHeader,
                      WriteFooter, WriteRecord, Send, Register
  <2>3. ASSUME NEW c \in Consumer, Open(c) \/ ConsumerStep(c) \/ StopConsumer(c)
        PROVE  UNCHANGED <<done, top>> \/ Stream!Join(c) \/ Stream!Hand(c)
    <3>1. CASE Open(c)
      BY <1>1, <1>4, <3>1, OpenJoins
    <3>2. CASE Handle(c)
      BY <1>1, <1>4, <3>2, HandleHands
    <3>3. CASE UdpHandle(c)
      BY <1>1, <1>4, <3>3, UdpHandleHands
    <3>4. CASE ReadRecord(c) \/ ReadFooter(c) \/ ReadEnd(c) \/ Listen(c) \/ Poll(c)
      BY <3>4 DEF ReadRecord, ReadFooter, ReadEnd, Listen, Poll
    <3>5. CASE UdpRead(c) \/ UdpEmpty(c) \/ UdpLow(c) \/ UdpHigh(c) \/ UdpCursor(c)
               \/ StopConsumer(c)
      BY <3>5 DEF UdpRead, UdpEmpty, UdpLow, UdpHigh, UdpCursor, StopConsumer
    <3> QED
      BY <2>3, <3>1, <3>2, <3>3, <3>4, <3>5 DEF ConsumerStep
  <2>4. CASE UNCHANGED vars
    BY <1>4, <2>4 DEF vars
  <2> QED
    BY <1>4, <2>1, <2>2, <2>3, <2>4 DEF Next, Stream!Next
<1> QED
  BY <1>2, <1>3, <1>4

(* Whatever files, cursors and datagrams it is made of, and whoever stops  *)
(* when, the log hands every consumer consecutive records, none before it  *)
(* is stored, none left out, and at most two again when it is restarted.   *)
THEOREM LogImplementsStream == Spec => ImplementsStream
<1>1. Init => Stream!Init
  <2> SUFFICES ASSUME Init
               PROVE  Stream!Init
    OBVIOUS
  <2>1. Stored = {}
    <3>1. \A f \in Files : Len(file[f].recs) = 0
      BY DEF Init, FirstFile, NoFile
    <3> QED
      BY <3>1 DEF Stored
  <2> QED
    BY <2>1, FS_EmptySet DEF Init, Stream!Init
<1>2. LogInv /\ [Next]_vars => [Stream!Next]_(Stream!vars)
  BY LogNextIsStreamNext
<1> QED
  BY <1>1, <1>2, LogInit, LogNext, PTL DEF Spec, ImplementsStream, Stream!Spec
=============================================================================
