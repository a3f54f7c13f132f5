---------------------- MODULE ArtifactLifecycleProofs ----------------------
(***************************************************************************)
(* The safety of ArtifactLifecycle for any dumps, any number of pages, any *)
(* stores that a spoiled file may be read as, and any number of crashes,   *)
(* full disks, recomputations, cleared directories and replaced dumps.     *)
(*                                                                         *)
(* Six inductive invariants: Types, and on top of it Unspoiled (a store    *)
(* nobody opened for writing while another had it open is not mixed, and   *)
(* no loader finds it changing), InitialIds (which ids a store has),       *)
(* IndexSaved (where the index in memory is the one in its file),          *)
(* ServerWrites (where the server has the store open for writing) and      *)
(* OfOneDump (what there is before the dump is replaced).                  *)
(***************************************************************************)
EXTENDS ArtifactLifecycle, FiniteSetTheorems, SequenceTheorems, TLAPS

-----------------------------------------------------------------------------
(* What a step can do to a file.                                           *)

IsContent(c) ==
  c = [state |-> c.state, data |-> c.data] /\ c.state \in {"absent", "torn", "poison", "whole"}

IsFile(file) ==
  /\ file = [content |-> file.content, writers |-> file.writers,
             readers |-> file.readers, mixed |-> file.mixed]
  /\ IsContent(file.content)
  /\ file.writers \subseteq Programs /\ file.readers \subseteq Programs
  /\ file.mixed \in BOOLEAN

\* Only the store is written by two programs.
OneWriter(f) == disk[f].writers \subseteq {"server"} /\ ~disk[f].mixed

AreFiles ==
  /\ DOMAIN disk = Files /\ \A f \in Files : IsFile(disk[f])
  /\ OneWriter("index") /\ OneWriter("links")

\* What can be in the store beside what a program has saved.
Spoiled(f, c) == f = "store" /\ disk[f].mixed /\ c \in Mixtures

\* No program puts data into the file: what it has then it had before, or it is torn,
\* absent or spoiled.
NotSaved(f) ==
  \/ Has(f)' = Has(f) \/ Has(f)' = Torn \/ Has(f)' = Absent
  \/ Spoiled(f, Has(f)')

\* If a file is whole after a step, it was so before, with the same data.
NotWritten(f) == Whole(f)' => Whole(f) /\ Has(f)'.data = Has(f).data

LEMMA ContentParts ==
  ASSUME NEW s, NEW d
  PROVE  Content(s, d).state = s /\ Content(s, d).data = d
  BY DEF Content

LEMMA ContentsAre ==
  /\ IsContent(Torn) /\ IsContent(Absent) /\ IsContent(Poison)
  /\ Torn.state = "torn" /\ Absent.state = "absent" /\ Poison.state = "poison"
  /\ \A d : IsContent(Content("whole", d)) /\ Content("whole", d).state = "whole"
            /\ Content("whole", d).data = d
  BY DEF IsContent, Torn, Absent, Poison, Content

LEMMA MixturesAre ==
  ASSUME NEW c \in Mixtures
  PROVE  IsContent(c) /\ (c.state = "whole" => c.data \in Garbled)
<1>1. CASE c = Torn \/ c = Poison
  BY <1>1, ContentsAre
<1>2. CASE \E s \in Garbled : c = Content("whole", s)
  BY <1>2, ContentsAre
<1> QED  BY <1>1, <1>2 DEF Mixtures

\* Opening a file tears it, and touches no other.
LEMMA OpenTears ==
  ASSUME AreFiles, NEW w \in Programs, NEW f \in Files, w = "server" \/ f = "store",
         OpenFile(w, f)
  PROVE  /\ AreFiles' /\ Has(f)' = Torn
         /\ \A g \in Files \ {f} : disk'[g] = disk[g]
         /\ disk'[f].mixed => overlapped'
         /\ overlapped \in BOOLEAN => overlapped' \in BOOLEAN
         /\ overlapped => overlapped'
<1>1. IsFile(disk[f]) /\ "store" # "index" /\ "store" # "links"
  BY DEF AreFiles
<1>2. /\ DOMAIN disk' = Files
      /\ disk'[f] = [content |-> Torn, writers |-> disk[f].writers \cup {w},
                     readers |-> disk[f].readers, mixed |-> disk[f].writers \ {w} # {}]
      /\ \A g \in Files \ {f} : disk'[g] = disk[g]
  BY DEF OpenFile, AreFiles
<1>3. /\ disk'[f].content = Torn /\ disk'[f].writers = disk[f].writers \cup {w}
      /\ disk'[f].readers = disk[f].readers /\ disk'[f].mixed = (disk[f].writers \ {w} # {})
  BY <1>2
<1>4. IsFile(disk[f])'
  BY <1>1, <1>2, <1>3, ContentsAre DEF IsFile
<1>5. ASSUME NEW g \in Files PROVE IsFile(disk[g])'
  <2>1. CASE g = f
    BY <1>4, <2>1
  <2>2. CASE g # f
    BY <1>2, <2>2 DEF AreFiles, IsFile
  <2> QED  BY <2>1, <2>2
<1>6. OneWriter("index")' /\ OneWriter("links")'
  <2> SUFFICES ASSUME NEW g \in {"index", "links"} PROVE OneWriter(g)'
    OBVIOUS
  <2>1. OneWriter(g) /\ g # "store"
    BY DEF AreFiles
  <2>2. CASE g = f
    BY <1>3, <2>1, <2>2 DEF OneWriter
  <2>3. CASE g # f
    BY <1>2, <2>1, <2>3 DEF OneWriter, Files
  <2> QED  BY <2>2, <2>3
<1>7. AreFiles'
  BY <1>2, <1>5, <1>6 DEF AreFiles
<1> QED  BY <1>2, <1>3, <1>7 DEF Has, OpenFile

\* A program that lets go of a file leaves what it wrote, or what two have mixed up.
LEMMA ReleasedIsFile ==
  ASSUME AreFiles, NEW w \in Programs, NEW f \in Files, NEW c, IsContent(c)
  PROVE  /\ IsFile(Released(w, f, c)) /\ Released(w, f, c).content = c
         /\ Released(w, f, c).writers \subseteq disk[f].writers
         /\ Released(w, f, c).mixed => disk[f].mixed
<1>1. IsFile(disk[f])
  BY DEF AreFiles
<1> QED  BY <1>1 DEF IsFile, Released

LEMMA EndsAre ==
  ASSUME AreFiles, NEW w \in Programs, NEW f \in Files, NEW alone, IsContent(alone),
         NEW c \in Ends(w, f, alone)
  PROVE  IsContent(c) /\ (c = Has(f) \/ c = alone \/ Spoiled(f, c))
<1>1. IsContent(Has(f)) /\ (disk[f].mixed => f = "store")
  BY DEF AreFiles, IsFile, Has, OneWriter, Files
<1> QED  BY <1>1, MixturesAre DEF Ends, Spoiled

LEMMA LeaveWrites ==
  ASSUME AreFiles, NEW w \in Programs, NEW f \in Files, NEW alone, IsContent(alone),
         LeaveFile(w, f, alone)
  PROVE  /\ AreFiles' /\ UNCHANGED <<view, overlapped>>
         /\ Has(f)' = Has(f) \/ Has(f)' = alone \/ Spoiled(f, Has(f)')
         /\ \A g \in Files \ {f} : disk'[g] = disk[g]
         /\ disk'[f].mixed => disk[f].mixed
<1>1. PICK c \in Ends(w, f, alone) : disk' = [disk EXCEPT ![f] = Released(w, f, c)]
  BY DEF LeaveFile
<1>2. IsContent(c) /\ (c = Has(f) \/ c = alone \/ Spoiled(f, c))
  BY EndsAre
<1>3. /\ DOMAIN disk' = Files /\ disk'[f] = Released(w, f, c)
      /\ \A g \in Files \ {f} : disk'[g] = disk[g]
  BY <1>1 DEF AreFiles
<1>4. /\ IsFile(disk'[f]) /\ disk'[f].content = c
      /\ disk'[f].writers \subseteq disk[f].writers /\ (disk'[f].mixed => disk[f].mixed)
  BY <1>2, <1>3, ReleasedIsFile
<1>5. ASSUME NEW g \in Files PROVE IsFile(disk[g])'
  BY <1>3, <1>4 DEF AreFiles, IsFile
<1>6. OneWriter("index")' /\ OneWriter("links")'
  <2> SUFFICES ASSUME NEW g \in {"index", "links"} PROVE OneWriter(g)'
    OBVIOUS
  <2>1. OneWriter(g) /\ g \in Files
    BY DEF AreFiles, Files
  <2>2. CASE g = f
    <3>1. IsFile(disk[f])' /\ IsFile(disk[f])
      BY <1>5 DEF AreFiles
    <3> QED  BY <1>4, <2>1, <2>2, <3>1 DEF OneWriter, IsFile
  <2>3. CASE g # f
    BY <1>3, <2>1, <2>3 DEF OneWriter
  <2> QED  BY <2>2, <2>3
<1>7. AreFiles'
  BY <1>3, <1>5, <1>6 DEF AreFiles
<1> QED  BY <1>2, <1>3, <1>4, <1>7 DEF Has, LeaveFile

\* Saving leaves the data, or a file cut short.
LEMMA SaveWrites ==
  ASSUME AreFiles, NEW w \in Programs, NEW f \in Files, NEW data, SaveFile(w, f, data)
  PROVE  /\ AreFiles' /\ UNCHANGED <<view, overlapped>>
         /\ UNCHANGED left \/ Happens("disk_full")
         /\ NotSaved(f) \/ Has(f)' = Content("whole", data)
         /\ \A g \in Files \ {f} : disk'[g] = disk[g]
         /\ disk'[f].mixed => disk[f].mixed
  BY LeaveWrites, ContentsAre DEF SaveFile, NotSaved

\* A process that dies leaves its files as they are, or spoiled.
LEMMA AbandonWrites ==
  ASSUME AreFiles, NEW w \in Programs, Abandon(w)
  PROVE  /\ AreFiles' /\ UNCHANGED overlapped
         /\ Has("index")' = Has("index") /\ Has("links")' = Has("links")
         /\ NotSaved("store")
         /\ disk'["store"].mixed => disk["store"].mixed
<1> DEFINE C(f, c) == IF f = "store" THEN c ELSE Has(f)
<1>1. PICK c \in Ends(w, "store", Torn) : disk' = [f \in Files |-> Released(w, f, C(f, c))]
  BY DEF Abandon
<1>2. "store" \in Files /\ "index" \in Files /\ "links" \in Files
  BY DEF Files
<1>3. IsContent(c) /\ (c = Has("store") \/ c = Torn \/ Spoiled("store", c))
  BY <1>2, EndsAre, ContentsAre
<1>4. \A f \in Files : IsContent(C(f, c))
  BY <1>3 DEF AreFiles, IsFile, Has
<1> HIDE DEF C
<1>5. ASSUME NEW f \in Files
      PROVE  /\ IsFile(disk'[f]) /\ disk'[f].content = C(f, c)
             /\ disk'[f].writers \subseteq disk[f].writers /\ (disk'[f].mixed => disk[f].mixed)
  <2>1. disk'[f] = Released(w, f, C(f, c)) /\ IsContent(C(f, c))
    BY <1>1, <1>4
  <2> QED  BY <2>1, ReleasedIsFile
<1>6. OneWriter("index")' /\ OneWriter("links")'
  <2> SUFFICES ASSUME NEW g \in {"index", "links"} PROVE OneWriter(g)'
    OBVIOUS
  <2>1. OneWriter(g) /\ g \in Files
    BY DEF AreFiles, Files
  <2>2. IsFile(disk'[g])
    BY <1>5, <2>1
  <2> QED  BY <1>5, <2>1, <2>2 DEF OneWriter, IsFile
<1>7. AreFiles'
  <2>1. DOMAIN disk' = Files
    BY <1>1
  <2>2. \A f \in Files : IsFile(disk[f])'
    BY <1>5
  <2> QED  BY <1>6, <2>1, <2>2 DEF AreFiles
<1>8. /\ Has("index")' = Has("index") /\ Has("links")' = Has("links")
      /\ Has("store")' = c
  BY <1>2, <1>5 DEF C, Has
<1> QED  BY <1>2, <1>3, <1>5, <1>7, <1>8 DEF NotSaved, Abandon

\* A reader changes nothing but who reads.
LEMMA ReadersWriteNothing ==
  ASSUME AreFiles, NEW readers \in SUBSET Programs,
         disk' = [disk EXCEPT !["store"].readers = readers]
  PROVE  /\ AreFiles' /\ \A f \in Files : Has(f)' = Has(f)
         /\ disk'["store"].mixed = disk["store"].mixed
<1>1. "store" \in Files /\ IsFile(disk["store"])
  BY DEF AreFiles, Files
<1>2. /\ DOMAIN disk' = Files
      /\ disk'["store"] = [disk["store"] EXCEPT !.readers = readers]
      /\ \A f \in Files \ {"store"} : disk'[f] = disk[f]
  BY <1>1 DEF AreFiles
<1>3. disk'["store"] = [content |-> disk["store"].content, writers |-> disk["store"].writers,
                        readers |-> readers, mixed |-> disk["store"].mixed]
  BY <1>1, <1>2 DEF IsFile
<1>4. ASSUME NEW f \in Files PROVE IsFile(disk[f])' /\ Has(f)' = Has(f)
  <2>1. CASE f = "store"
    BY <1>1, <1>3, <2>1 DEF IsFile, Has
  <2>2. CASE f # "store"
    BY <1>2, <2>2 DEF AreFiles, IsFile, Has
  <2> QED  BY <2>1, <2>2
<1>5. OneWriter("index")' /\ OneWriter("links")'
  BY <1>2 DEF AreFiles, OneWriter, Files
<1> QED  BY <1>2, <1>3, <1>4, <1>5 DEF AreFiles

LEMMA StartWritesNothing ==
  ASSUME AreFiles, NEW p \in Programs, StartReading(p)
  PROVE  /\ AreFiles' /\ \A f \in Files : Has(f)' = Has(f)
         /\ disk'["store"].mixed = disk["store"].mixed
<1>1. disk["store"].readers \subseteq Programs
  BY DEF AreFiles, IsFile, Files
<1>2. PICK r \in SUBSET Programs : disk' = [disk EXCEPT !["store"].readers = r]
  BY <1>1 DEF StartReading
<1> QED  BY <1>2, ReadersWriteNothing

LEMMA StopWritesNothing ==
  ASSUME AreFiles, NEW p \in Programs, StopReading(p)
  PROVE  /\ AreFiles' /\ \A f \in Files : Has(f)' = Has(f)
         /\ disk'["store"].mixed = disk["store"].mixed
<1>1. disk["store"].readers \subseteq Programs
  BY DEF AreFiles, IsFile, Files
<1>2. PICK r \in SUBSET Programs : disk' = [disk EXCEPT !["store"].readers = r]
  BY <1>1 DEF StopReading
<1> QED  BY <1>2, ReadersWriteNothing

LEMMA ClearWritesNothing ==
  ASSUME disk' = [f \in Files |-> NoFile]
  PROVE  AreFiles' /\ \A f \in Files : Has(f)' = Absent /\ ~disk'[f].mixed
  BY ContentsAre DEF AreFiles, OneWriter, IsFile, NoFile, Has, Files

-----------------------------------------------------------------------------
(* What a step can do to the files, and to what a reader finds.            *)

LEMMA StepKinds ==
  ASSUME [Next]_vars
  PROVE  \/ FilesIdle
         \/ \E f \in Files : OpenFile("server", f)
         \/ OpenFile("tool", "store")
         \/ server = "save_links" /\ SaveFile("server", "links", <<Ingested>>)
         \/ server = "save_index" /\ SaveIndex /\ SaveFile("server", "index", index)
         \/ server = "save_store" /\ SaveFile("server", "store", store)
         \/ tool = "save_store" /\ SaveFile("tool", "store", tool_store)
         \/ \E p \in Programs : Abandon(p) \/ StartReading(p) \/ StopReading(p)
         \/ disk' = [f \in Files |-> NoFile] /\ UNCHANGED <<view, overlapped>>
<1> USE DEF ServerGoes, ToolGoes, Programs, Files
<1>1. CASE \/ Boot \/ Probe \/ LoadIndex \/ Ingest \/ Rank \/ OpenFails \/ IngestFails
           \/ ToolStarts \/ ToolRanks \/ ToolOutOfBounds \/ ToolOpenFails \/ ReplaceDump
  BY <1>1
     DEF Boot, Probe, LoadIndex, Ingest, Rank, OpenFails, IngestFails, ToolStarts,
         ToolRanks, ToolOutOfBounds, ToolOpenFails, ReplaceDump
<1>2. CASE UNCHANGED vars
  BY <1>2 DEF vars, FilesIdle
<1>3. CASE OpenLinks \/ OpenIndex \/ OpenStore \/ ToolOpensStore
  BY <1>3 DEF OpenLinks, OpenIndex, OpenStore, OpenToSave, ToolOpensStore
<1>4. CASE SaveLinks \/ SaveIndex \/ SaveStore \/ ToolSavesStore
  BY <1>4 DEF SaveLinks, SaveIndex, SaveStore, ToolSavesStore
<1>5. CASE OpenStoreCache \/ LoadStore \/ LoadThrows \/ ServerDies
  BY <1>5 DEF OpenStoreCache, LoadStore, LoadThrows, ServerDies
<1>6. CASE ToolOpensCache \/ ToolLoadsStore \/ ToolLoadThrows \/ ToolDies
  BY <1>6 DEF ToolOpensCache, ToolLoadsStore, ToolLoadThrows, ToolDies
<1>7. CASE Clear
  BY <1>7 DEF Clear
<1> QED
  BY <1>1, <1>2, <1>3, <1>4, <1>5, <1>6, <1>7 DEF Next, Server, Tool, Serving

\* Who writes what: a file that has data after a step which it had not before is the
\* one its writer has just saved, from its memory, or one that two had mixed up.
LEMMA FileStep ==
  ASSUME AreFiles, [Next]_vars
  PROVE  /\ AreFiles'
         /\ \/ NotSaved("index")
            \/ server = "save_index" /\ SaveIndex /\ Has("index")' = Content("whole", index)
         /\ \/ NotSaved("links")
            \/ server = "save_links" /\ Has("links")' = Content("whole", <<Ingested>>)
         /\ \/ NotSaved("store")
            \/ server = "save_store" /\ Has("store")' = Content("whole", store)
            \/ tool = "save_store" /\ Has("store")' = Content("whole", tool_store)
         /\ disk'["store"].mixed => disk["store"].mixed \/ overlapped'
         /\ overlapped \in BOOLEAN => overlapped' \in BOOLEAN
         /\ overlapped => overlapped'
<1>a. /\ "server" \in Programs /\ "tool" \in Programs
      /\ "index" \in Files /\ "links" \in Files /\ "store" \in Files
  BY DEF Programs, Files
<1>1. CASE FilesIdle
  <2>1. AreFiles'
    BY <1>1 DEF FilesIdle, AreFiles, IsFile, OneWriter
  <2> QED  BY <1>1, <2>1 DEF FilesIdle, NotSaved, Has
<1>2. CASE \E f \in Files : OpenFile("server", f)
  <2>1. PICK f \in Files : OpenFile("server", f)
    BY <1>2
  <2>2. /\ AreFiles' /\ Has(f)' = Torn
        /\ \A g \in Files \ {f} : disk'[g] = disk[g]
        /\ disk'[f].mixed => overlapped'
        /\ overlapped \in BOOLEAN => overlapped' \in BOOLEAN
        /\ overlapped => overlapped'
    BY <1>a, <2>1, OpenTears
  <2> QED  BY <1>a, <2>2 DEF NotSaved, Has
<1>3. CASE OpenFile("tool", "store")
  <2>1. /\ AreFiles' /\ Has("store")' = Torn
        /\ \A g \in Files \ {"store"} : disk'[g] = disk[g]
        /\ disk'["store"].mixed => overlapped'
        /\ overlapped \in BOOLEAN => overlapped' \in BOOLEAN
        /\ overlapped => overlapped'
    BY <1>a, <1>3, OpenTears
  <2> QED  BY <1>a, <2>1 DEF NotSaved, Has, Files
<1>4. ASSUME NEW w \in Programs, NEW f \in Files, NEW data, SaveFile(w, f, data)
      PROVE  /\ AreFiles' /\ UNCHANGED overlapped
             /\ NotSaved(f) \/ Has(f)' = Content("whole", data)
             /\ \A g \in Files \ {f} : NotSaved(g) /\ disk'[g] = disk[g]
             /\ disk'[f].mixed => disk[f].mixed
  BY <1>4, SaveWrites DEF NotSaved, Has
<1>5. CASE server = "save_links" /\ SaveFile("server", "links", <<Ingested>>)
  BY <1>a, <1>4, <1>5 DEF Files
<1>6. CASE server = "save_index" /\ SaveIndex /\ SaveFile("server", "index", index)
  BY <1>a, <1>4, <1>6 DEF Files
<1>7. CASE server = "save_store" /\ SaveFile("server", "store", store)
  BY <1>a, <1>4, <1>7 DEF Files
<1>8. CASE tool = "save_store" /\ SaveFile("tool", "store", tool_store)
  BY <1>a, <1>4, <1>8 DEF Files
<1>9. ASSUME NEW p \in Programs, Abandon(p) \/ StartReading(p) \/ StopReading(p)
      PROVE  /\ AreFiles' /\ UNCHANGED overlapped
             /\ NotSaved("index") /\ NotSaved("links") /\ NotSaved("store")
             /\ disk'["store"].mixed => disk["store"].mixed
  <2>1. CASE Abandon(p)
    BY <2>1, AbandonWrites DEF NotSaved
  <2>2. CASE StartReading(p)
    BY <1>a, <2>2, StartWritesNothing DEF NotSaved, StartReading
  <2>3. CASE StopReading(p)
    BY <1>a, <2>3, StopWritesNothing DEF NotSaved, StopReading
  <2> QED  BY <1>9, <2>1, <2>2, <2>3
<1>10. CASE disk' = [f \in Files |-> NoFile] /\ UNCHANGED <<view, overlapped>>
  BY <1>a, <1>10, ClearWritesNothing DEF NotSaved
<1> QED
  BY StepKinds, <1>1, <1>2, <1>3, <1>5, <1>6, <1>7, <1>8, <1>9, <1>10

\* What a reader finds is what it found before, or what it found when it opened the
\* file, or anything, and then two had the store open at once.
LEMMA ViewStep ==
  ASSUME DOMAIN view = Programs, [Next]_vars
  PROVE  /\ DOMAIN view' = Programs
         /\ \A p \in Programs :
              \/ view'[p] = view[p] \/ view'[p] = Absent \/ view'[p] = Has("store")
              \/ view'[p] = Changing /\ (disk["store"].mixed \/ overlapped')
<1>1. ASSUME UNCHANGED view PROVE DOMAIN view' = Programs /\ \A p \in Programs : view'[p] = view[p]
  BY <1>1
<1>2. ASSUME NEW w, NEW f \in Files, OpenFile(w, f)
      PROVE  /\ DOMAIN view' = Programs
             /\ \A p \in Programs : view'[p] = view[p] \/ (view'[p] = Changing /\ overlapped')
  <2>1. PICK hit \in SUBSET disk[f].readers :
          view' = [p \in Programs |-> IF p \in hit THEN Changing ELSE view[p]]
    BY <1>2 DEF OpenFile
  <2>2. hit # {} => overlapped'
    BY <1>2 DEF OpenFile
  <2> QED  BY <2>1, <2>2
<1>3. ASSUME NEW w, NEW f, NEW data, SaveFile(w, f, data) PROVE UNCHANGED view
  BY <1>3 DEF SaveFile, LeaveFile
<1>4. ASSUME NEW p \in Programs, Abandon(p) \/ StartReading(p) \/ StopReading(p)
      PROVE  /\ DOMAIN view' = Programs
             /\ \A q \in Programs :
                  \/ view'[q] = view[q] \/ view'[q] = Absent \/ view'[q] = Has("store")
                  \/ view'[q] = Changing /\ disk["store"].mixed
  <2>1. PICK c : view' = [view EXCEPT ![p] = c]
    BY <1>4 DEF Abandon, StartReading, StopReading
  <2>2. \/ view' = [view EXCEPT ![p] = Absent] \/ view' = [view EXCEPT ![p] = Has("store")]
        \/ view' = [view EXCEPT ![p] = Changing] /\ disk["store"].mixed
    BY <1>4 DEF Abandon, StartReading, StopReading
  <2> QED  BY <2>2
<1> QED
  BY <1>1, <1>2, <1>3, <1>4, StepKinds DEF FilesIdle, Files

-----------------------------------------------------------------------------
(* Types.                                                                  *)

IsView(v) ==
  /\ v.state \in {"absent", "torn", "poison", "whole", "changing"}
  /\ v.state = "whole" => IsStore(v.data)

FilesHaveTypes ==
  /\ AreFiles /\ \A f \in Files : HasItsType(f)
  /\ DOMAIN view = Programs /\ \A p \in Programs : IsView(view[p])
  /\ overlapped \in BOOLEAN

Loading == {"down", "probe", "load_index", "load_store", "read_store", "ingest"}

MemoryHasTypes ==
  /\ server \in ServerLabels /\ tool \in ToolLabels
  /\ index \in Seq(Dumps)
  /\ server \notin Loading => index # << >>
  /\ IsStore(store) /\ IsStore(tool_store)
  /\ loaded_from_cache \in BOOLEAN
  /\ dump \in Dumps
  /\ left \in [Events -> Nat]

Types == MemoryHasTypes /\ FilesHaveTypes

LEMMA TypesOK == Types => TypeOK
<1> SUFFICES ASSUME Types PROVE TypeOK
  OBVIOUS
<1>1. ASSUME NEW f \in Files
      PROVE  /\ Has(f).state \in {"absent", "torn", "poison", "whole"} /\ HasItsType(f)
             /\ disk[f].writers \subseteq Programs /\ disk[f].readers \subseteq Programs
             /\ disk[f].mixed \in BOOLEAN
  BY DEF Types, FilesHaveTypes, AreFiles, IsFile, IsContent, Has
<1> QED  BY <1>1 DEF Types, MemoryHasTypes, FilesHaveTypes, AreFiles, IsView, TypeOK, Loading

\* What a file may hold.
Fits(f, data) ==
  CASE f = "index" -> IsIndex(data)
    [] f = "store" -> IsStore(data)
    [] f = "links" -> \E d \in Dumps : data = <<d>>

LEMMA NotSavedFits ==
  ASSUME AreFiles, NEW f \in Files, HasItsType(f), NotSaved(f)
  PROVE  HasItsType(f)'
<1>1. CASE Has(f)' = Has(f)
  BY <1>1 DEF HasItsType, Whole
<1>2. CASE Has(f)' = Torn \/ Has(f)' = Absent
  BY <1>2, ContentsAre DEF HasItsType, Whole
<1>3. CASE Spoiled(f, Has(f)')
  <2>1. f = "store" /\ (Has(f)'.state = "whole" => Has(f)'.data \in Garbled)
    BY <1>3, MixturesAre DEF Spoiled
  <2> QED  BY <2>1, LifecycleAssumption DEF HasItsType, Whole
<1> QED  BY <1>1, <1>2, <1>3 DEF NotSaved

LEMMA SavedFits ==
  ASSUME NEW f \in Files, NEW data, Fits(f, data), Has(f)' = Content("whole", data)
  PROVE  HasItsType(f)'
<1>1. Has(f)'.data = data
  BY ContentsAre
<1> QED  BY <1>1 DEF HasItsType, Fits, Files

\* The stores that the operations make.
LEMMA WithPagesIsStore ==
  ASSUME NEW s, IsStore(s), NEW d \in Dumps
  PROVE  IsStore(WithPages(s, d)) /\ DOMAIN WithPages(s, d) = DOMAIN s \cup Ids(d)
  BY LifecycleAssumption DEF IsStore, WithPages, Docs, Ids

LEMMA WithRanksIsStore ==
  ASSUME NEW s, IsStore(s), NEW ids, NEW kind \in {"none", "partial", "full"}
  PROVE  IsStore(WithRanks(s, ids, kind)) /\ DOMAIN WithRanks(s, ids, kind) = DOMAIN s
<1>1. DOMAIN WithRanks(s, ids, kind) = DOMAIN s
  BY DEF WithRanks
<1>2. ASSUME NEW id \in DOMAIN s PROVE WithRanks(s, ids, kind)[id] \in Docs
  <2>1. s[id] \in Docs /\ [s[id] EXCEPT !.rank = kind] \in Docs
    BY DEF IsStore, Docs
  <2> QED  BY <2>1 DEF WithRanks
<1> QED  BY <1>1, <1>2 DEF IsStore

LEMMA NoStoreIsStore == IsStore(NoStore) /\ DOMAIN NoStore = {}
  BY DEF IsStore, NoStore

\* What a load may give.
LEMMA ResultsAre ==
  ASSUME FilesHaveTypes, NEW p \in Programs, NEW r \in Results(p)
  PROVE  /\ r.ok \in BOOLEAN /\ IsStore(r.store)
         /\ view[p].state # "changing" =>
              \/ r.ok /\ view[p].state = "whole" /\ r.store = view[p].data
              \/ ~r.ok /\ view[p].state # "whole" /\ r.store = NoStore
<1>a. \A s : Loaded(s).ok /\ Loaded(s).store = s
  BY DEF Loaded
<1>b. ~NotLoaded.ok /\ NotLoaded.store = NoStore /\ NotLoaded.ok \in BOOLEAN
  BY DEF NotLoaded
<1>c. IsView(view[p])
  BY DEF FilesHaveTypes
<1>1. CASE view[p].state = "whole"
  <2>1. r = Loaded(view[p].data)
    BY <1>1 DEF Results
  <2> QED  BY <1>1, <1>a, <1>c, <2>1 DEF IsView
<1>2. CASE view[p].state = "poison"
  BY <1>2 DEF Results
<1>3. CASE view[p].state = "changing"
  <2>1. \/ r = NotLoaded
        \/ \E s \in Garbled : r = Loaded(s)
        \/ Whole("store") /\ r = Loaded(Has("store").data)
    BY <1>3 DEF Results
  <2>2. CASE r = NotLoaded
    BY <1>3, <1>b, <2>2, NoStoreIsStore
  <2>3. CASE \E s \in Garbled : r = Loaded(s)
    BY <1>3, <1>a, <2>3, LifecycleAssumption
  <2>4. CASE Whole("store") /\ r = Loaded(Has("store").data)
    <3>1. IsStore(Has("store").data)
      BY <2>4 DEF FilesHaveTypes, HasItsType, Files
    <3> QED  BY <1>3, <1>a, <2>4, <3>1
  <2> QED  BY <2>1, <2>2, <2>3, <2>4
<1>4. CASE view[p].state \in {"absent", "torn"}
  <2>1. r = NotLoaded
    BY <1>4 DEF Results
  <2> QED  BY <1>4, <1>b, <2>1, NoStoreIsStore
<1> QED  BY <1>1, <1>2, <1>3, <1>4, <1>c DEF IsView

LEMMA TypesInit == Init => Types
<1> SUFFICES ASSUME Init PROVE Types
  OBVIOUS
<1>1. AreFiles /\ \A f \in Files : Has(f) = Absent
  BY ContentsAre DEF Init, AreFiles, OneWriter, IsFile, NoFile, Has, Files
<1>2. FilesHaveTypes
  BY <1>1, ContentsAre DEF Init, FilesHaveTypes, HasItsType, Whole, IsView
<1>3. IsStore(store) /\ IsStore(tool_store) /\ loaded_from_cache \in BOOLEAN
  BY NoStoreIsStore DEF Init
<1>4. MemoryHasTypes
  BY <1>3, LifecycleAssumption
     DEF Init, MemoryHasTypes, ServerLabels, ToolLabels, Loading
<1> QED  BY <1>2, <1>4 DEF Types

LEMMA FilesStep == Types /\ [Next]_vars => FilesHaveTypes'
<1> SUFFICES ASSUME Types, [Next]_vars PROVE FilesHaveTypes'
  OBVIOUS
<1>a. MemoryHasTypes /\ FilesHaveTypes /\ AreFiles
  BY DEF Types, FilesHaveTypes
<1>b. "index" \in Files /\ "links" \in Files /\ "store" \in Files
  BY DEF Files
<1>1. HasItsType("index")'
  <2>1. CASE NotSaved("index")
    BY <1>a, <1>b, <2>1, NotSavedFits DEF FilesHaveTypes
  <2>2. CASE server = "save_index" /\ Has("index")' = Content("whole", index)
    <3>1. Fits("index", index)
      BY <1>a, <2>2 DEF Fits, IsIndex, MemoryHasTypes, Loading
    <3> QED  BY <1>b, <2>2, <3>1, SavedFits
  <2> QED  BY <1>a, <2>1, <2>2, FileStep
<1>2. HasItsType("links")'
  <2>1. CASE NotSaved("links")
    BY <1>a, <1>b, <2>1, NotSavedFits DEF FilesHaveTypes
  <2>2. CASE server = "save_links" /\ Has("links")' = Content("whole", <<Ingested>>)
    <3>1. Ingested \in Dumps
      BY <1>a, <2>2 DEF Ingested, MemoryHasTypes, Loading
    <3>2. Fits("links", <<Ingested>>)
      BY <3>1 DEF Fits
    <3> QED  BY <1>b, <2>2, <3>2, SavedFits
  <2> QED  BY <1>a, <2>1, <2>2, FileStep
<1>3. HasItsType("store")'
  <2>1. CASE NotSaved("store")
    BY <1>a, <1>b, <2>1, NotSavedFits DEF FilesHaveTypes
  <2>2. ASSUME NEW s, IsStore(s), Has("store")' = Content("whole", s) PROVE HasItsType("store")'
    <3>1. Fits("store", s)
      BY <2>2 DEF Fits
    <3> QED  BY <1>b, <2>2, <3>1, SavedFits
  <2> QED  BY <1>a, <2>1, <2>2, FileStep DEF MemoryHasTypes
<1>4. DOMAIN view' = Programs /\ \A p \in Programs : IsView(view[p])'
  <2>1. IsView(Absent) /\ IsView(Changing)
    BY ContentsAre DEF IsView, Changing, Content
  <2>2. IsView(Has("store"))
    BY <1>a, <1>b DEF FilesHaveTypes, AreFiles, IsFile, IsContent, IsView, HasItsType, Whole, Has
  <2>3. DOMAIN view = Programs /\ \A p \in Programs : IsView(view[p])
    BY <1>a DEF FilesHaveTypes
  <2>4. DOMAIN view' = Programs
    BY <2>3, ViewStep
  <2>5. ASSUME NEW p \in Programs PROVE IsView(view'[p])
    <3>1. view'[p] = view[p] \/ view'[p] = Absent \/ view'[p] = Has("store") \/ view'[p] = Changing
      BY <2>3, ViewStep
    <3>2. IsView(view[p])
      BY <2>3
    <3> QED  BY <2>1, <2>2, <3>1, <3>2
  <2> QED  BY <2>4, <2>5
<1>5. AreFiles' /\ overlapped' \in BOOLEAN
  BY <1>a, FileStep DEF FilesHaveTypes
<1> QED  BY <1>1, <1>2, <1>3, <1>4, <1>5 DEF FilesHaveTypes, Files

\* One event more: the budget stays one.
LEMMA EventsLeft ==
  ASSUME NEW event \in Events, left \in [Events -> Nat], Happens(event)
  PROVE  /\ left' \in [Events -> Nat] /\ left'[event] < left[event]
         /\ \A e \in Events \ {event} : left'[e] = left[e]
  BY DEF Happens

\* Of the events of one kind as many are left as before, or one less, and the steps
\* that take one are these.
LEMMA LeftStep ==
  ASSUME left \in [Events -> Nat], [Next]_vars
  PROVE  /\ left' \in [Events -> Nat]
         /\ \A e \in Events : left'[e] <= left[e]
         /\ left'["no_open"] = left["no_open"] \/ OpenFails \/ ToolOpenFails
         /\ left'["replace"] = left["replace"] \/ ReplaceDump
<1> USE DEF Events
<1>1. ASSUME UNCHANGED left
      PROVE  left' \in [Events -> Nat] /\ \A e \in Events : left'[e] = left[e]
  BY <1>1
<1>2. ASSUME NEW event \in Events, Happens(event)
      PROVE  /\ left' \in [Events -> Nat] /\ \A e \in Events : left'[e] <= left[e]
             /\ event # "no_open" => left'["no_open"] = left["no_open"]
             /\ event # "replace" => left'["replace"] = left["replace"]
  BY <1>2, EventsLeft
<1>3. ASSUME NEW w, NEW f, NEW data, SaveFile(w, f, data)
      PROVE  /\ left' \in [Events -> Nat] /\ \A e \in Events : left'[e] <= left[e]
             /\ left'["no_open"] = left["no_open"] /\ left'["replace"] = left["replace"]
  BY <1>1, <1>2, <1>3 DEF SaveFile
<1>4. CASE SaveLinks \/ SaveIndex \/ SaveStore \/ ToolSavesStore
  BY <1>3, <1>4 DEF SaveLinks, SaveIndex, SaveStore, ToolSavesStore
<1>5. CASE \/ OpenFails \/ IngestFails \/ ServerDies \/ ToolStarts \/ ToolOpenFails \/ ToolDies
           \/ Clear \/ ReplaceDump
  BY <1>2, <1>5
     DEF OpenFails, IngestFails, ServerDies, ToolStarts, ToolOpenFails, ToolDies, Clear,
         ReplaceDump
<1>6. CASE \/ Boot \/ Probe \/ LoadIndex \/ OpenStoreCache \/ LoadStore \/ LoadThrows \/ Ingest
           \/ OpenLinks \/ Rank \/ OpenIndex \/ OpenStore \/ Serving
           \/ ToolOpensCache \/ ToolLoadsStore \/ ToolLoadThrows \/ ToolRanks
           \/ ToolOutOfBounds \/ ToolOpensStore \/ UNCHANGED vars
  <2>1. UNCHANGED left
    BY <1>6
       DEF Boot, Probe, LoadIndex, OpenStoreCache, LoadStore, LoadThrows, Ingest, OpenLinks,
           Rank, OpenIndex, OpenStore, OpenToSave, Serving, ToolOpensCache, ToolLoadsStore,
           ToolLoadThrows, ToolRanks, ToolOutOfBounds, ToolOpensStore, vars
  <2> QED  BY <2>1
<1> QED  BY <1>4, <1>5, <1>6 DEF Next, Server, Tool

\* The memory of a server that has ended.
EndedMemory == index' \in Seq(Dumps) /\ IsStore(store') /\ loaded_from_cache' \in BOOLEAN

LEMMA EndedMemoryFits == ServerEnds => server' = "down" /\ EndedMemory
<1>1. << >> \in Seq(Dumps)
  OBVIOUS
<1>2. ServerEnds => index' = << >> /\ store' = NoStore /\ loaded_from_cache' = FALSE
  BY DEF ServerEnds
<1> QED  BY <1>1, <1>2, NoStoreIsStore DEF EndedMemory, ServerEnds

LEMMA ServerMemory == Types /\ Server => MemoryHasTypes'
<1> SUFFICES ASSUME Types, Server PROVE MemoryHasTypes'
  OBVIOUS
<1> USE DEF ServerGoes, ToolIdle, ServerLabels, Loading
<1>a. MemoryHasTypes /\ FilesHaveTypes /\ left' \in [Events -> Nat] /\ "server" \in Programs
  BY LeftStep DEF Types, MemoryHasTypes, Programs, Next
<1>b. IsStore(NoStore)
  BY NoStoreIsStore
<1>1. CASE Boot \/ Probe
  BY <1>a, <1>1 DEF Boot, Probe, MemoryHasTypes
<1>2. CASE LoadIndex
  <2>1. index' \in Seq(Dumps)
    BY <1>a, <1>2 DEF LoadIndex, MemoryHasTypes, FilesHaveTypes, HasItsType, IsIndex, Files
  <2> QED  BY <1>a, <1>2, <2>1 DEF LoadIndex, MemoryHasTypes
<1>3. CASE OpenStoreCache
  BY <1>a, <1>3 DEF OpenStoreCache, MemoryHasTypes
<1>4. CASE LoadStore
  <2>1. PICK r \in Results("server") :
          /\ ServerGoes("read_store", IF CacheLoaded(r.ok) THEN "ready" ELSE Rebuild)
          /\ store' = r.store
          /\ loaded_from_cache' = CacheLoaded(r.ok)
    BY <1>4 DEF LoadStore
  <2>2. r.ok \in BOOLEAN /\ IsStore(store')
    BY <1>a, <2>1, ResultsAre
  <2>3. loaded_from_cache' \in BOOLEAN
    BY <2>1, <2>2 DEF CacheLoaded
  <2>4. server' \in ServerLabels /\ (server' \notin Loading => index # << >>)
    BY <2>1, <2>2 DEF CacheLoaded, Rebuild
  <2> QED  BY <1>a, <1>4, <2>2, <2>3, <2>4 DEF LoadStore, MemoryHasTypes
<1>5. CASE LoadThrows
  <2>1. server' = "down" /\ EndedMemory
    BY <1>5, EndedMemoryFits DEF LoadThrows
  <2>2. UNCHANGED <<tool, tool_store, dump, left>>
    BY <1>5 DEF LoadThrows
  <2> QED  BY <1>a, <2>1, <2>2 DEF EndedMemory, MemoryHasTypes
<1>6. CASE Ingest
  <2>1. IsStore(store')
    BY <1>a, <1>6, WithPagesIsStore DEF Ingest, MemoryHasTypes
  <2>2. index' \in Seq(Dumps) /\ index' # << >>
    BY <1>a, <1>6, AppendProperties DEF Ingest, MemoryHasTypes
  <2> QED  BY <1>a, <1>6, <2>1, <2>2 DEF Ingest, MemoryHasTypes
<1>7. CASE OpenLinks \/ OpenIndex \/ OpenStore
  BY <1>a, <1>7 DEF OpenLinks, OpenIndex, OpenStore, OpenToSave, MemoryHasTypes
<1>8. CASE SaveLinks \/ SaveIndex \/ SaveStore
  BY <1>a, <1>8 DEF SaveLinks, SaveIndex, SaveStore, MemoryHasTypes
<1>9. CASE Rank
  <2>1. IsStore(store')
    BY <1>a, <1>9, WithRanksIsStore DEF Rank, MemoryHasTypes
  <2> QED  BY <1>a, <1>9, <2>1 DEF Rank, MemoryHasTypes
<1> QED
  BY <1>1, <1>2, <1>3, <1>4, <1>5, <1>6, <1>7, <1>8, <1>9 DEF Server

LEMMA ToolMemory ==
  Types /\ (Tool \/ ToolStarts \/ ToolOpenFails \/ ToolDies) => MemoryHasTypes'
<1> SUFFICES ASSUME Types, Tool \/ ToolStarts \/ ToolOpenFails \/ ToolDies
             PROVE  MemoryHasTypes'
  OBVIOUS
<1> USE DEF ToolGoes, ServerIdle, ToolLabels
<1>a. MemoryHasTypes /\ FilesHaveTypes /\ left' \in [Events -> Nat] /\ "tool" \in Programs
  BY LeftStep DEF Types, MemoryHasTypes, Programs, Next
<1>b. IsStore(NoStore)
  BY NoStoreIsStore
<1>1. CASE ToolStarts \/ ToolOpensCache \/ ToolOpensStore
  BY <1>a, <1>1 DEF ToolStarts, ToolOpensCache, ToolOpensStore, MemoryHasTypes
<1>2. CASE ToolLoadsStore
  <2>1. PICK r \in Results("tool") :
          /\ ToolGoes("read_store", IF r.ok THEN "load_links" ELSE "off")
          /\ tool_store' = r.store
    BY <1>2 DEF ToolLoadsStore
  <2>2. IsStore(tool_store') /\ tool' \in ToolLabels
    BY <1>a, <2>1, ResultsAre
  <2> QED  BY <1>a, <1>2, <2>2 DEF ToolLoadsStore, MemoryHasTypes
<1>3. CASE ToolRanks
  <2>1. IsStore(tool_store')
    BY <1>a, <1>b, <1>3, WithRanksIsStore DEF ToolRanks, MemoryHasTypes
  <2> QED  BY <1>a, <1>3, <2>1 DEF ToolRanks, MemoryHasTypes
<1>4. CASE ToolLoadThrows \/ ToolOutOfBounds \/ ToolOpenFails \/ ToolSavesStore \/ ToolDies
  BY <1>a, <1>b, <1>4
     DEF ToolLoadThrows, ToolOutOfBounds, ToolOpenFails, ToolSavesStore, ToolDies, ToolEnds,
         MemoryHasTypes
<1> QED  BY <1>1, <1>2, <1>3, <1>4 DEF Tool

\* What goes wrong with the server, and the operator.
LEMMA TroubleMemory ==
  Types /\ (OpenFails \/ IngestFails \/ ServerDies \/ Clear \/ ReplaceDump) => MemoryHasTypes'
<1> SUFFICES ASSUME Types, OpenFails \/ IngestFails \/ ServerDies \/ Clear \/ ReplaceDump
             PROVE  MemoryHasTypes'
  OBVIOUS
<1> USE DEF ServerGoes, ToolIdle, ServerLabels, Loading
<1>a. MemoryHasTypes /\ left' \in [Events -> Nat] /\ IsStore(NoStore)
  BY LeftStep, NoStoreIsStore DEF Types, MemoryHasTypes, Next
<1>1. CASE OpenFails
  BY <1>a, <1>1 DEF OpenFails, MemoryHasTypes
<1>2. CASE IngestFails \/ ServerDies
  <2>1. server' = "down" /\ EndedMemory
    BY <1>2, EndedMemoryFits DEF IngestFails, ServerDies
  <2>2. UNCHANGED <<tool, tool_store, dump>>
    BY <1>2 DEF IngestFails, ServerDies
  <2> QED  BY <1>a, <2>1, <2>2 DEF EndedMemory, MemoryHasTypes
<1>3. CASE Clear \/ ReplaceDump
  BY <1>a, <1>3 DEF Clear, ReplaceDump, MemoryHasTypes
<1> QED  BY <1>1, <1>2, <1>3

LEMMA TypesStep == Types /\ [Next]_vars => Types'
<1>1. Types /\ UNCHANGED vars => MemoryHasTypes'
  BY DEF vars, Types, MemoryHasTypes
<1> QED
  BY <1>1, FilesStep, ServerMemory, ToolMemory, TroubleMemory DEF Next, Serving, Types

LEMMA TypesHold == Spec => []Types
<1> QED  BY TypesInit, TypesStep, PTL DEF Spec

\* Every variable keeps its type: what the server has parsed or loaded is an index
\* and a store, whatever was interrupted, and a file that loads holds what its
\* reader expects.
THEOREM TypeCorrect == Spec => []TypeOK
<1> QED  BY TypesHold, TypesOK, PTL

-----------------------------------------------------------------------------
(* A store that nobody opened for writing while another had it open.       *)

Unspoiled ==
  ~overlapped =>
    /\ ~disk["store"].mixed /\ ~Poisoned("store")
    /\ \A p \in Programs : view[p].state \notin {"changing", "poison"}

LEMMA UnspoiledInit == Init => Unspoiled
  BY ContentsAre DEF Init, Unspoiled, NoFile, Poisoned, Has, Files

LEMMA UnspoiledStep == Types /\ Unspoiled /\ [Next]_vars => Unspoiled'
<1> SUFFICES ASSUME Types, Unspoiled, [Next]_vars, ~overlapped'
             PROVE  /\ ~disk'["store"].mixed /\ ~Poisoned("store")'
                    /\ \A p \in Programs : view'[p].state \notin {"changing", "poison"}
  BY DEF Unspoiled
<1>1. AreFiles /\ DOMAIN view = Programs
  BY DEF Types, FilesHaveTypes
<1>2. /\ ~overlapped /\ ~disk["store"].mixed /\ ~Poisoned("store")
      /\ \A p \in Programs : view[p].state \notin {"changing", "poison"}
  BY <1>1, FileStep DEF Unspoiled
<1>3. ~disk'["store"].mixed
  BY <1>1, <1>2, FileStep
<1>4. ~Poisoned("store")'
  BY <1>1, <1>2, FileStep, ContentsAre DEF NotSaved, Spoiled, Poisoned
<1>5. ASSUME NEW p \in Programs PROVE view'[p].state \notin {"changing", "poison"}
  <2>1. view'[p] = view[p] \/ view'[p] = Absent \/ view'[p] = Has("store")
    BY <1>1, <1>2, ViewStep
  <2>2. Has("store").state \notin {"changing", "poison"}
    BY <1>1, <1>2 DEF AreFiles, IsFile, IsContent, Has, Poisoned, Files
  <2> QED  BY <1>2, <2>1, <2>2, ContentsAre
<1> QED  BY <1>3, <1>4, <1>5

LEMMA UnspoiledHolds == Spec => []Unspoiled
<1> QED  BY UnspoiledInit, UnspoiledStep, TypesHold, PTL DEF Spec

\* Of such a store a load gives what is in the file that was opened, or nothing.
LEMMA UnspoiledResults ==
  ASSUME Types, Unspoiled, ~overlapped, NEW p \in Programs, NEW r \in Results(p)
  PROVE  \/ r.ok /\ view[p].state = "whole" /\ r.store = view[p].data
         \/ ~r.ok /\ r.store = NoStore
  BY ResultsAre DEF Types, Unspoiled

\* And what is in the file is what a program has saved, or what was there.
LEMMA UnspoiledStore ==
  ASSUME Types, Unspoiled, [Next]_vars, ~overlapped'
  PROVE  /\ ~overlapped
         /\ \/ NotWritten("store")
            \/ server = "save_store" /\ Has("store")'.data = store
            \/ tool = "save_store" /\ Has("store")'.data = tool_store
         /\ \A p \in Programs :
              view'[p].state = "whole" =>
                \/ view[p].state = "whole" /\ view'[p].data = view[p].data
                \/ Whole("store") /\ view'[p].data = Has("store").data
<1>1. AreFiles /\ DOMAIN view = Programs
  BY DEF Types, FilesHaveTypes
<1>2. ~overlapped /\ ~disk["store"].mixed
  BY <1>1, FileStep DEF Unspoiled
<1>3. NotSaved("store") => NotWritten("store")
  BY <1>2, ContentsAre DEF NotSaved, NotWritten, Spoiled, Whole
<1>4. ASSUME NEW p \in Programs, view'[p].state = "whole"
      PROVE  \/ view[p].state = "whole" /\ view'[p].data = view[p].data
             \/ Whole("store") /\ view'[p].data = Has("store").data
  <2>1. view'[p] = view[p] \/ view'[p] = Absent \/ view'[p] = Has("store")
    BY <1>1, <1>2, ViewStep
  <2> QED  BY <1>4, <2>1, ContentsAre DEF Whole
<1> QED  BY <1>1, <1>2, <1>3, <1>4, FileStep, ContentsAre

\* No step but a server's puts data into the index file.
LEMMA IndexFileStep ==
  ASSUME Types, [Next]_vars
  PROVE  \/ NotWritten("index")
         \/ server = "save_index" /\ SaveIndex /\ Has("index")'.data = index
<1>1. AreFiles
  BY DEF Types, FilesHaveTypes
<1>2. NotSaved("index") => NotWritten("index")
  BY ContentsAre DEF NotSaved, NotWritten, Spoiled, Whole
<1> QED  BY <1>1, <1>2, FileStep, ContentsAre

-----------------------------------------------------------------------------
(* The stores in memory: the steps that change them.                       *)

LEMMA StoreStep ==
  ASSUME [Next]_vars
  PROVE  \/ store' = store
         \/ store' = NoStore /\ server' = "down"
         \/ LoadStore /\ \E r \in Results("server") : store' = r.store
         \/ Ingest \/ Rank
<1>1. CASE LoadThrows \/ IngestFails \/ ServerDies
  BY <1>1 DEF LoadThrows, IngestFails, ServerDies, ServerEnds
<1>2. CASE LoadStore
  BY <1>2 DEF LoadStore
<1>3. ASSUME ~LoadThrows, ~IngestFails, ~ServerDies, ~LoadStore, ~Ingest, ~Rank
      PROVE  store' = store
  BY <1>3
     DEF Next, Server, Boot, Probe, LoadIndex, OpenStoreCache, OpenLinks, OpenIndex, OpenStore,
         OpenToSave, SaveLinks, SaveIndex, SaveStore, OpenFails, Serving, Tool, ToolStarts,
         ToolOpensCache, ToolLoadsStore, ToolLoadThrows, ToolRanks, ToolOutOfBounds,
         ToolOpensStore, ToolSavesStore, ToolOpenFails, ToolDies, ServerIdle, Clear,
         ReplaceDump, vars
<1> QED  BY <1>1, <1>2, <1>3

\* Where the recomputation has a store in memory.
HasStore == {"load_links", "open_store", "save_store"}

LEMMA ToolStoreStep ==
  ASSUME [Next]_vars
  PROVE  \/ /\ tool_store' = tool_store
            /\ tool' \in HasStore => tool \in HasStore
         \/ tool_store' = NoStore /\ tool' = "off"
         \/ ToolLoadsStore /\ \E r \in Results("tool") :
              tool_store' = r.store /\ tool' = IF r.ok THEN "load_links" ELSE "off"
         \/ ToolRanks
<1> USE DEF ToolGoes, HasStore
<1>1. CASE ToolLoadThrows \/ ToolOutOfBounds \/ ToolSavesStore \/ ToolOpenFails \/ ToolDies
  BY <1>1 DEF ToolLoadThrows, ToolOutOfBounds, ToolSavesStore, ToolOpenFails, ToolDies, ToolEnds
<1>2. CASE ToolLoadsStore
  BY <1>2 DEF ToolLoadsStore
<1>3. CASE ToolStarts \/ ToolOpensCache \/ ToolOpensStore
  BY <1>3 DEF ToolStarts, ToolOpensCache, ToolOpensStore
<1>4. ASSUME ~Tool, ~ToolStarts, ~ToolOpenFails, ~ToolDies
      PROVE  tool_store' = tool_store /\ tool' = tool
  BY <1>4
     DEF Next, Server, Boot, Probe, LoadIndex, OpenStoreCache, LoadStore, LoadThrows, Ingest,
         OpenLinks, OpenIndex, OpenStore, OpenToSave, SaveLinks, Rank, SaveIndex, SaveStore,
         OpenFails, IngestFails, ServerDies, Serving, ToolIdle, Clear, ReplaceDump, vars
<1> QED  BY <1>1, <1>2, <1>3, <1>4 DEF Tool

\* Score i goes to document i: ranking keeps the ids.
LEMMA RanksKeepIds ==
  /\ Rank => DOMAIN store' = DOMAIN store
  /\ ToolRanks => \/ DOMAIN tool_store' = DOMAIN tool_store /\ tool' = "open_store"
                  \/ tool_store' = NoStore /\ tool' = "off"
  BY DEF Rank, ToolRanks, ToolGoes, WithRanks

-----------------------------------------------------------------------------
(* The ids of a store.                                                     *)

Initial(s) == \E n \in Nat : DOMAIN s = 0..(n - 1)

LEMMA InitialIsDense ==
  ASSUME NEW s, Initial(s)
  PROVE  Dense(s)
<1>1. PICK n \in Nat : DOMAIN s = 0..(n - 1)
  BY DEF Initial
<1>2. Cardinality(0..(n - 1)) = n
  BY FS_Interval
<1> QED  BY <1>1, <1>2 DEF Dense

LEMMA WithPagesInitial ==
  ASSUME NEW s, Initial(s), NEW d \in Dumps
  PROVE  Initial(WithPages(s, d))
<1>1. PICK n \in Nat : DOMAIN s = 0..(n - 1)
  BY DEF Initial
<1>2. Pages[d] \in Nat /\ DOMAIN WithPages(s, d) = 0..(n - 1) \cup 0..(Pages[d] - 1)
  BY <1>1, LifecycleAssumption DEF WithPages, Ids
<1>3. CASE n <= Pages[d]
  <2>1. 0..(n - 1) \cup 0..(Pages[d] - 1) = 0..(Pages[d] - 1)
    BY <1>2, <1>3
  <2> QED  BY <1>2, <2>1 DEF Initial
<1>4. CASE n > Pages[d]
  <2>1. 0..(n - 1) \cup 0..(Pages[d] - 1) = 0..(n - 1)
    BY <1>2, <1>4
  <2> QED  BY <1>2, <2>1 DEF Initial
<1> QED  BY <1>2, <1>3, <1>4

LEMMA NoStoreInitial == Initial(NoStore)
<1>1. DOMAIN NoStore = 0..(0 - 1)
  BY DEF NoStore
<1> QED  BY <1>1 DEF Initial

InitialIds ==
  ~overlapped =>
    /\ Initial(store) /\ Initial(tool_store)
    /\ Whole("store") => Initial(Has("store").data)
    /\ \A p \in Programs : view[p].state = "whole" => Initial(view[p].data)

LEMMA InitialStep == Types /\ Unspoiled /\ InitialIds /\ [Next]_vars => InitialIds'
<1> SUFFICES ASSUME Types, Unspoiled, InitialIds, [Next]_vars, ~overlapped'
             PROVE  /\ Initial(store') /\ Initial(tool_store')
                    /\ Whole("store")' => Initial(Has("store")'.data)
                    /\ \A p \in Programs : view'[p].state = "whole" => Initial(view'[p].data)
  BY DEF InitialIds
<1>1. ~overlapped /\ dump \in Dumps /\ Programs = {"server", "tool"}
  BY UnspoiledStore DEF Types, MemoryHasTypes, Programs
<1>2. /\ Initial(store) /\ Initial(tool_store)
      /\ Whole("store") => Initial(Has("store").data)
      /\ \A p \in Programs : view[p].state = "whole" => Initial(view[p].data)
  BY <1>1 DEF InitialIds
<1>3. ASSUME NEW p \in Programs, NEW r \in Results(p) PROVE Initial(r.store)
  BY <1>1, <1>2, UnspoiledResults, NoStoreInitial
<1>4. Initial(store')
  <2>1. CASE Ingest
    BY <1>1, <1>2, <2>1, WithPagesInitial DEF Ingest
  <2>2. CASE Rank
    BY <1>2, <2>2, RanksKeepIds DEF Initial
  <2> QED  BY <1>1, <1>2, <1>3, <2>1, <2>2, StoreStep, NoStoreInitial
<1>5. Initial(tool_store')
  <2>1. CASE ToolRanks
    BY <1>2, <2>1, RanksKeepIds, NoStoreInitial DEF Initial
  <2> QED  BY <1>1, <1>2, <1>3, <2>1, ToolStoreStep, NoStoreInitial
<1>6. Whole("store")' => Initial(Has("store")'.data)
  BY <1>2, UnspoiledStore DEF NotWritten
<1>7. \A p \in Programs : view'[p].state = "whole" => Initial(view'[p].data)
  BY <1>2, UnspoiledStore
<1> QED  BY <1>4, <1>5, <1>6, <1>7

\* As long as no program opened the store for writing while another had it open, the
\* ids of a store, in memory or in a file that loads, have no gap: the link graph may
\* size its lists by their number (loadAdjacencyListFromEdgeFile).
THEOREM StoresStayDense == Spec => []StoresDense
<1>1. Init => InitialIds
  BY NoStoreInitial, ContentsAre DEF Init, InitialIds, Whole, Has, NoFile, Files, Programs
<1>2. InitialIds => StoresDense
  BY InitialIsDense DEF InitialIds, StoresDense
<1> QED  BY <1>1, <1>2, InitialStep, TypesHold, UnspoiledHolds, PTL DEF Spec

-----------------------------------------------------------------------------
(* The index in memory and the index in the file.                          *)

\* From the moment the index is loaded it is the one in its file; and if every file
\* could be opened, so it is again from the moment it is saved: in between the file
\* has been opened, and is not whole.
IndexSaved ==
  /\ left["no_open"] <= Limits["no_open"]
  /\ server \in {"load_store", "read_store"} /\ Whole("index") => Has("index").data = index
  /\ EveryOpenWorked =>
       /\ server \in {"open_store", "save_store", "ready"} /\ Whole("index")
            => Has("index").data = index
       /\ server = "save_index" => ~Whole("index")

\* How the server comes to each place where the index is the one in the file.
LEMMA ServerStep ==
  ASSUME [Next]_vars
  PROVE  \/ server' = server /\ index' = index
         \/ server' \notin {"load_store", "read_store", "save_index", "open_store", "save_store",
                            "ready"}
         \/ LoadIndex \/ OpenIndex \/ SaveIndex \/ OpenFails
         \/ /\ index' = index
            /\ \/ server = "load_store" /\ server' = "read_store"
               \/ server = "read_store" /\ server' = "ready"
               \/ server = "open_store" /\ server' = "save_store"
               \/ server = "save_store" /\ server' = "ready"
<1> USE DEF ServerGoes
<1>1. CASE Boot \/ Probe \/ LoadThrows \/ Ingest \/ OpenLinks \/ SaveLinks \/ Rank
             \/ IngestFails \/ ServerDies
  BY <1>1 DEF Boot, Probe, LoadThrows, Ingest, OpenLinks, SaveLinks, Rank, IngestFails,
              ServerDies, ServerEnds
<1>2. CASE LoadStore
  <2>1. index' = index /\ server = "read_store" /\ (server' = "ready" \/ server' = "ingest")
    BY <1>2 DEF LoadStore, Rebuild
  <2> QED  BY <2>1
<1>3. CASE OpenStoreCache \/ OpenStore \/ SaveStore
  BY <1>3 DEF OpenStoreCache, OpenStore, OpenToSave, SaveStore
<1>4. ASSUME ~Server, ~IngestFails, ~ServerDies, ~OpenFails
      PROVE  server' = server /\ index' = index
  BY <1>4
     DEF Next, Serving, Tool, ToolStarts, ToolOpensCache, ToolLoadsStore, ToolLoadThrows,
         ToolRanks, ToolOutOfBounds, ToolOpensStore, ToolSavesStore, ToolOpenFails, ToolDies,
         ServerIdle, Clear, ReplaceDump, vars
<1> QED  BY <1>1, <1>2, <1>3, <1>4 DEF Server

LEMMA IndexSavedStep == Types /\ IndexSaved /\ [Next]_vars => IndexSaved'
<1> SUFFICES ASSUME Types, IndexSaved, [Next]_vars PROVE IndexSaved'
  OBVIOUS
<1>1. /\ left \in [Events -> Nat] /\ left' \in [Events -> Nat]
      /\ Limits["no_open"] \in Nat /\ "no_open" \in Events /\ Limits \in [Events -> Nat]
      /\ left'["no_open"] <= left["no_open"]
      /\ left["no_open"] <= Limits["no_open"]
      /\ AreFiles /\ "server" \in Programs /\ "index" \in Files
  BY LeftStep, LifecycleAssumption
     DEF Types, MemoryHasTypes, FilesHaveTypes, IndexSaved, Events, Programs, Files
<1>2. left'["no_open"] \in Nat /\ left["no_open"] \in Nat
  BY <1>1
<1>3. left'["no_open"] <= Limits["no_open"]
  BY <1>1, <1>2
<1>4. EveryOpenWorked' => EveryOpenWorked /\ ~OpenFails
  <2>1. ASSUME EveryOpenWorked' PROVE left["no_open"] = Limits["no_open"]
    BY <1>1, <1>2, <2>1 DEF EveryOpenWorked
  <2>2. ASSUME EveryOpenWorked', OpenFails PROVE FALSE
    <3>1. left'["no_open"] < left["no_open"]
      BY <1>1, <2>2, EventsLeft DEF OpenFails
    <3> QED  BY <1>1, <1>2, <2>1, <2>2, <3>1 DEF EveryOpenWorked
  <2> QED  BY <2>1, <2>2 DEF EveryOpenWorked
<1>5. ASSUME server' \in {"load_store", "read_store"}, Whole("index")'
      PROVE  Has("index")'.data = index'
  <2>1. CASE LoadIndex
    BY <1>5, <2>1 DEF LoadIndex, FilesIdle, Whole, Has
  <2>2. ASSUME ~LoadIndex
        PROVE  server \in {"load_store", "read_store"} /\ index' = index
    <3>1. CASE OpenIndex \/ SaveIndex \/ OpenFails
      BY <1>5, <3>1 DEF OpenIndex, SaveIndex, OpenFails, ServerGoes
    <3> QED  BY <1>5, <2>2, <3>1, ServerStep
  <2>3. ASSUME ~LoadIndex PROVE NotWritten("index")
    BY <2>2, <2>3, IndexFileStep
  <2> QED  BY <1>5, <2>1, <2>2, <2>3 DEF IndexSaved, NotWritten
<1>6. ASSUME EveryOpenWorked', server' \in {"open_store", "save_store", "ready"},
             Whole("index")'
      PROVE  Has("index")'.data = index'
  <2>1. CASE SaveIndex
    <3>1. ~Whole("index") /\ index' = index
      BY <1>4, <1>6, <2>1 DEF SaveIndex, IndexSaved, ServerGoes
    <3> QED  BY <1>6, <3>1, IndexFileStep DEF NotWritten
  <2>2. ASSUME ~SaveIndex
        PROVE  server \in {"read_store", "open_store", "save_store", "ready"} /\ index' = index
    <3>1. CASE LoadIndex \/ OpenIndex
      BY <1>6, <3>1 DEF LoadIndex, OpenIndex, ServerGoes
    <3> QED  BY <1>4, <1>6, <2>2, <3>1, ServerStep
  <2>3. ASSUME ~SaveIndex PROVE NotWritten("index")
    BY <2>3, IndexFileStep
  <2> QED  BY <1>4, <1>6, <2>1, <2>2, <2>3 DEF IndexSaved, NotWritten
<1>7. ASSUME EveryOpenWorked', server' = "save_index" PROVE ~Whole("index")'
  <2>1. CASE OpenIndex
    <3>1. Has("index")' = Torn
      BY <1>1, <2>1, OpenTears DEF OpenIndex, OpenToSave
    <3> QED  BY <3>1, ContentsAre DEF Whole
  <2>2. ASSUME ~OpenIndex PROVE server = "save_index" /\ ~SaveIndex
    <3>1. CASE LoadIndex \/ SaveIndex
      BY <1>7, <3>1 DEF LoadIndex, SaveIndex, ServerGoes
    <3> QED  BY <1>4, <1>7, <2>2, <3>1, ServerStep
  <2>3. ASSUME ~OpenIndex PROVE NotWritten("index")
    BY <2>2, <2>3, IndexFileStep
  <2> QED  BY <1>4, <1>7, <2>1, <2>2, <2>3 DEF IndexSaved, NotWritten
<1> QED  BY <1>3, <1>5, <1>6, <1>7 DEF IndexSaved

LEMMA IndexStaysSaved == Spec => []IndexSaved
<1>1. Init => IndexSaved
  BY LifecycleAssumption DEF Init, IndexSaved, Events
<1> QED  BY <1>1, IndexSavedStep, TypesHold, PTL DEF Spec

\* If every file could be opened, the index being served is the one in the file, if
\* that loads: the next boot answers the same queries, whatever was interrupted before.
THEOREM ServedIndexStaysSaved == Spec => []ServedIndexIsSaved
<1>1. IndexSaved => ServedIndexIsSaved
  BY DEF IndexSaved, ServedIndexIsSaved
<1> QED  BY <1>1, IndexStaysSaved, PTL

\* The server has the store open for writing only where it saves it.
ServerWrites == "server" \in disk["store"].writers => server = "save_store"

\* How a step changes who writes the store.
LEMMA WritersStep ==
  ASSUME AreFiles, [Next]_vars, "server" \in disk'["store"].writers
  PROVE  \/ OpenStore
         \/ "server" \in disk["store"].writers /\ ~SaveStore /\ ~ServerDies
<1>a. /\ DOMAIN disk = Files /\ "store" \in Files /\ "index" \in Files /\ "links" \in Files
      /\ "server" \in Programs /\ "tool" \in Programs
      /\ disk["store"] = [content |-> disk["store"].content, writers |-> disk["store"].writers,
                          readers |-> disk["store"].readers, mixed |-> disk["store"].mixed]
  BY DEF AreFiles, IsFile, Files, Programs
<1>1. ASSUME SaveStore \/ ServerDies PROVE FALSE
  <2>1. CASE SaveStore
    <3>1. PICK c : disk' = [disk EXCEPT !["store"] = Released("server", "store", c)]
      BY <2>1 DEF SaveStore, SaveFile, LeaveFile
    <3> QED  BY <1>a, <3>1 DEF Released
  <2>2. CASE ServerDies
    <3>1. PICK c : disk' = [f \in Files |-> Released("server", f, IF f = "store" THEN c ELSE Has(f))]
      BY <2>2 DEF ServerDies, Abandon
    <3> QED  BY <1>a, <3>1 DEF Released
  <2> QED  BY <1>1, <2>1, <2>2
<1>2. CASE FilesIdle
  BY <1>1, <1>2 DEF FilesIdle
<1>3. CASE OpenLinks \/ OpenIndex
  <2>1. disk'["store"] = disk["store"]
    BY <1>a, <1>3, OpenTears DEF OpenLinks, OpenIndex, OpenToSave, Files
  <2> QED  BY <1>1, <2>1
<1>4. CASE SaveLinks \/ SaveIndex
  <2>1. disk'["store"] = disk["store"]
    BY <1>a, <1>4, SaveWrites DEF SaveLinks, SaveIndex, Files
  <2> QED  BY <1>1, <2>1
<1>5. CASE OpenFile("tool", "store")
  <2>1. disk'["store"].writers = disk["store"].writers \cup {"tool"}
    BY <1>a, <1>5 DEF OpenFile
  <2> QED  BY <1>1, <2>1
<1>6. CASE SaveFile("tool", "store", tool_store)
  <2>1. PICK c : disk' = [disk EXCEPT !["store"] = Released("tool", "store", c)]
    BY <1>6 DEF SaveFile, LeaveFile
  <2>2. disk'["store"].writers = disk["store"].writers \ {"tool"}
    BY <1>a, <2>1 DEF Released
  <2> QED  BY <1>1, <2>2
<1>7. CASE Abandon("tool")
  <2>1. PICK c : disk' = [f \in Files |-> Released("tool", f, IF f = "store" THEN c ELSE Has(f))]
    BY <1>7 DEF Abandon
  <2>2. disk'["store"].writers = disk["store"].writers \ {"tool"}
    BY <1>a, <2>1 DEF Released
  <2> QED  BY <1>1, <2>2
<1>8. CASE \E p \in Programs : StartReading(p) \/ StopReading(p)
  <2>1. disk'["store"].writers = disk["store"].writers
    BY <1>a, <1>8 DEF StartReading, StopReading
  <2> QED  BY <1>1, <2>1
<1>9. CASE disk' = [f \in Files |-> NoFile]
  BY <1>a, <1>9 DEF NoFile
<1> QED
  BY <1>1, <1>2, <1>3, <1>4, <1>5, <1>6, <1>7, <1>8, <1>9
     DEF Next, Server, Boot, Probe, LoadIndex, OpenStoreCache, LoadStore, LoadThrows, Ingest,
         Rank, OpenFails, IngestFails, Serving, Tool, ToolStarts, ToolOpensCache,
         ToolLoadsStore, ToolLoadThrows, ToolRanks, ToolOutOfBounds, ToolOpensStore,
         ToolSavesStore, ToolOpenFails, ToolDies, Clear, ReplaceDump, vars, FilesIdle, Programs

LEMMA ServerWritesStep == Types /\ ServerWrites /\ [Next]_vars => ServerWrites'
<1> SUFFICES ASSUME Types, ServerWrites, [Next]_vars, "server" \in disk'["store"].writers
             PROVE  server' = "save_store"
  BY DEF ServerWrites
<1> USE DEF ServerGoes
<1>1. CASE OpenStore
  BY <1>1 DEF OpenStore
<1>2. ASSUME ~OpenStore PROVE server = "save_store" /\ ~SaveStore /\ ~ServerDies
  BY <1>2, WritersStep DEF ServerWrites, Types, FilesHaveTypes
<1>3. ASSUME ~OpenStore PROVE server' = server
  BY <1>2, <1>3
     DEF Next, Server, Boot, Probe, LoadIndex, OpenStoreCache, LoadStore, LoadThrows, Ingest,
         OpenLinks, OpenIndex, OpenStore, SaveLinks, Rank, SaveIndex, OpenFails, IngestFails,
         Serving, Tool, ToolStarts, ToolOpensCache, ToolLoadsStore, ToolLoadThrows, ToolRanks,
         ToolOutOfBounds, ToolOpensStore, ToolSavesStore, ToolOpenFails, ToolDies, ServerIdle,
         Clear, ReplaceDump, vars
<1> QED  BY <1>1, <1>2, <1>3

LEMMA ServerWritesHolds == Spec => []ServerWrites
<1>1. Init => ServerWrites
  BY DEF Init, ServerWrites, NoFile, Files
<1> QED  BY <1>1, ServerWritesStep, TypesHold, PTL DEF Spec

ReusesPair ==
  ReadsWhatIsThere /\ PairWhole /\ (Server \/ ServerDies) => PairWhole' /\ server' # "ingest"

\* A boot that finds an index and a store that load uses them and keeps them, also
\* if it is killed: the program indexes again only if it has to (main).
THEOREM PairsAreReused == Spec => WholePairIsReused
<1>1. Types /\ IndexSaved /\ ServerWrites /\ [Next]_vars => ReusesPair
  <2> SUFFICES ASSUME Types, IndexSaved, ServerWrites, ReadsWhatIsThere, PairWhole, Server \/ ServerDies
               PROVE  PairWhole' /\ server' # "ingest"
    BY DEF ReusesPair
  <2> USE DEF ServerGoes
  <2>1. AreFiles /\ "server" \in Programs /\ Files = {"index", "store", "links"}
    BY DEF Types, FilesHaveTypes, Programs, Files
  <2>2. server \in {"probe", "load_index", "load_store", "read_store", "ready"}
    BY DEF ReadsWhatIsThere
  <2>3. CASE Probe
    <3>1. Exists("index") /\ Exists("store")
      BY DEF PairWhole, Exists, Whole
    <3> QED  BY <2>3, <3>1 DEF Probe, FilesIdle, PairWhole, Whole, Has
  <2>4. CASE LoadIndex
    BY <2>4 DEF LoadIndex, FilesIdle, PairWhole, Whole, Has
  <2>5. CASE OpenStoreCache
    <3>1. Has("index")' = Has("index") /\ Has("store")' = Has("store")
      BY <2>1, <2>5, StartWritesNothing DEF OpenStoreCache
    <3> QED  BY <2>5, <3>1 DEF OpenStoreCache, PairWhole, Whole
  <2>6. CASE LoadStore \/ LoadThrows
    <3>1. server = "read_store" /\ view["server"] = Has("store")
      BY <2>6 DEF LoadStore, LoadThrows, ReadsWhatIsThere
    <3>2. ~Throws("server") /\ Results("server") = {Loaded(Has("store").data)}
      BY <3>1 DEF PairWhole, Whole, Results, Throws
    <3>3. index # << >>
      BY <3>1 DEF PairWhole, IndexSaved, Types, FilesHaveTypes, HasItsType, IsIndex, Files
    <3>4. StopReading("server") /\ server' # "ingest"
      BY <2>6, <3>2, <3>3 DEF LoadStore, LoadThrows, CacheLoaded, Loaded
    <3>5. Has("index")' = Has("index") /\ Has("store")' = Has("store")
      BY <2>1, <3>4, StopWritesNothing
    <3> QED  BY <3>4, <3>5 DEF PairWhole, Whole
  <2>7. CASE ServerDies
    <3>1. Abandon("server") /\ server' = "down"
      BY <2>7 DEF ServerDies, ServerEnds
    <3>2. Has("index")' = Has("index")
      BY <2>1, <3>1, AbandonWrites
    <3>3. Has("store")' = Has("store")
      <4>1. disk["store"].writers # {"server"}
        BY <2>2 DEF ServerWrites
      <4> QED  BY <2>1, <3>1, <4>1 DEF Abandon, Ends, Released, Has
    <3> QED  BY <3>1, <3>2, <3>3 DEF PairWhole, Whole
  <2> QED
    BY <2>2, <2>3, <2>4, <2>5, <2>6, <2>7
       DEF Server, Boot, Ingest, OpenLinks, SaveLinks, Rank, OpenIndex, SaveIndex, OpenStore,
           SaveStore
<1> QED
  BY <1>1, TypesHold, IndexStaysSaved, ServerWritesHolds, PTL
     DEF Spec, WholePairIsReused, ReusesPair

-----------------------------------------------------------------------------
(* Before the dump is replaced.                                            *)

Parsed == {"open_links", "save_links", "rank", "open_index", "save_index", "open_store",
           "save_store"}

AllOf(ix) == \A i \in DOMAIN ix : ix[i] = dump

OfOneDump ==
  /\ left["replace"] <= Limits["replace"]
  /\ server # "ready" => ~loaded_from_cache
  /\ OneDumpOnly =>
       /\ AllOf(index)
       /\ Whole("index") => AllOf(Has("index").data)
       /\ server \in Parsed \/ (server = "ready" /\ ~loaded_from_cache)
            => Ids(dump) \subseteq DOMAIN store
       /\ ~overlapped =>
            /\ DOMAIN store \in {{}, Ids(dump)}
            /\ server \in Parsed \cup {"ready"} => DOMAIN store = Ids(dump)
            /\ Whole("store") => DOMAIN Has("store").data = Ids(dump)
            /\ \A p \in Programs :
                 view[p].state = "whole" => DOMAIN view[p].data = Ids(dump)
            /\ tool \in HasStore => DOMAIN tool_store = Ids(dump)

\* So far the dump is the same, and no step but one leads out of that.
LEMMA SameDump ==
  ASSUME Types, left["replace"] <= Limits["replace"], [Next]_vars
  PROVE  /\ left'["replace"] <= Limits["replace"]
         /\ OneDumpOnly' => OneDumpOnly /\ dump' = dump
<1>1. /\ left \in [Events -> Nat] /\ left' \in [Events -> Nat] /\ Limits \in [Events -> Nat]
      /\ "replace" \in Events
  BY LeftStep, LifecycleAssumption DEF Types, MemoryHasTypes, Events
<1>2. CASE ReplaceDump
  BY <1>1, <1>2, EventsLeft DEF ReplaceDump, OneDumpOnly
<1>3. ASSUME ~ReplaceDump PROVE dump' = dump /\ left'["replace"] = left["replace"]
  <2>1. dump' = dump
    BY <1>3
       DEF Next, Server, Boot, Probe, LoadIndex, OpenStoreCache, LoadStore, LoadThrows, Ingest,
           OpenLinks, OpenIndex, OpenStore, OpenToSave, SaveLinks, Rank, SaveIndex, SaveStore,
           OpenFails, IngestFails, ServerDies, Serving, ToolIdle, Tool, ToolStarts,
           ToolOpensCache, ToolLoadsStore, ToolLoadThrows, ToolRanks, ToolOutOfBounds,
           ToolOpensStore, ToolSavesStore, ToolOpenFails, ToolDies, ServerIdle, Clear, vars
  <2> QED  BY <1>1, <1>3, <2>1, LeftStep
<1> QED  BY <1>1, <1>2, <1>3 DEF OneDumpOnly

\* How the server comes to have its pages in memory, and whether from the cache.
LEMMA BuildStep ==
  ASSUME [Next]_vars
  PROVE  \/ Ingest \/ LoadStore
         \/ Rank /\ loaded_from_cache' = loaded_from_cache
         \/ server' \notin Parsed \cup {"ready"} /\ loaded_from_cache' = FALSE
         \/ /\ server' \notin Parsed \cup {"ready"} /\ server # "ready"
            /\ loaded_from_cache' = loaded_from_cache
         \/ server' = server /\ store' = store /\ loaded_from_cache' = loaded_from_cache
         \/ /\ server \in Parsed /\ server' \in Parsed \cup {"ready"}
            /\ store' = store /\ loaded_from_cache' = loaded_from_cache
<1> USE DEF ServerGoes, Parsed
<1>1. CASE LoadThrows \/ IngestFails \/ ServerDies
  BY <1>1 DEF LoadThrows, IngestFails, ServerDies, ServerEnds
<1>2. CASE Boot \/ Probe \/ LoadIndex \/ OpenStoreCache
  BY <1>2 DEF Boot, Probe, LoadIndex, OpenStoreCache
<1>3. CASE OpenLinks \/ SaveLinks \/ OpenIndex \/ SaveIndex \/ OpenStore \/ SaveStore \/ OpenFails
  BY <1>3 DEF OpenLinks, SaveLinks, OpenIndex, SaveIndex, OpenStore, SaveStore, OpenToSave,
              OpenFails
<1>4. CASE Rank
  BY <1>4 DEF Rank
<1>5. ASSUME ~Server, ~OpenFails, ~IngestFails, ~ServerDies
      PROVE  server' = server /\ store' = store /\ loaded_from_cache' = loaded_from_cache
  BY <1>5
     DEF Next, Serving, Tool, ToolStarts, ToolOpensCache, ToolLoadsStore, ToolLoadThrows,
         ToolRanks, ToolOutOfBounds, ToolOpensStore, ToolSavesStore, ToolOpenFails, ToolDies,
         ServerIdle, Clear, ReplaceDump, vars
<1> QED  BY <1>1, <1>2, <1>3, <1>4, <1>5 DEF Server

LEMMA IndexStep ==
  ASSUME [Next]_vars
  PROVE  index' = index \/ index' = << >> \/ LoadIndex \/ Ingest
<1>1. CASE LoadThrows \/ IngestFails \/ ServerDies
  BY <1>1 DEF LoadThrows, IngestFails, ServerDies, ServerEnds
<1>2. ASSUME ~LoadThrows, ~IngestFails, ~ServerDies, ~LoadIndex, ~Ingest PROVE index' = index
  BY <1>2
     DEF Next, Server, Boot, Probe, OpenStoreCache, LoadStore, OpenLinks, OpenIndex, OpenStore,
         OpenToSave, SaveLinks, Rank, SaveIndex, SaveStore, OpenFails, Serving, Tool,
         ToolStarts, ToolOpensCache, ToolLoadsStore, ToolLoadThrows, ToolRanks,
         ToolOutOfBounds, ToolOpensStore, ToolSavesStore, ToolOpenFails, ToolDies, ServerIdle,
         Clear, ReplaceDump, vars
<1> QED  BY <1>1, <1>2

LEMMA FromCacheStep ==
  Types /\ OfOneDump /\ [Next]_vars => (server' # "ready" => ~loaded_from_cache')
<1> SUFFICES ASSUME Types, OfOneDump, [Next]_vars, server' # "ready"
             PROVE  ~loaded_from_cache'
  OBVIOUS
<1>1. server # "ready" => ~loaded_from_cache
  BY DEF OfOneDump
<1>2. CASE LoadStore
  <2>1. PICK r \in Results("server") :
          /\ ServerGoes("read_store", IF CacheLoaded(r.ok) THEN "ready" ELSE Rebuild)
          /\ loaded_from_cache' = CacheLoaded(r.ok)
    BY <1>2 DEF LoadStore
  <2> QED  BY <2>1 DEF ServerGoes
<1>3. CASE Ingest
  BY <1>1, <1>3 DEF Ingest, ServerGoes
<1>4. CASE Rank
  BY <1>1, <1>4 DEF Rank, ServerGoes
<1> QED  BY <1>1, <1>2, <1>3, <1>4, BuildStep DEF Parsed

LEMMA OneDumpStep == Types /\ Unspoiled /\ OfOneDump /\ [Next]_vars => OfOneDump'
<1> SUFFICES ASSUME Types, Unspoiled, OfOneDump, [Next]_vars PROVE OfOneDump'
  OBVIOUS
<1>1. /\ left'["replace"] <= Limits["replace"]
      /\ server' # "ready" => ~loaded_from_cache'
  BY SameDump, FromCacheStep DEF OfOneDump
<1> SUFFICES ASSUME OneDumpOnly'
             PROVE  /\ AllOf(index)'
                    /\ Whole("index")' => AllOf(Has("index").data)'
                    /\ server' \in Parsed \/ (server' = "ready" /\ ~loaded_from_cache')
                         => Ids(dump) \subseteq DOMAIN store'
                    /\ ~overlapped' =>
                       /\ DOMAIN store' \in {{}, Ids(dump)}
                       /\ server' \in Parsed \cup {"ready"} => DOMAIN store' = Ids(dump)
                       /\ Whole("store")' => DOMAIN Has("store")'.data = Ids(dump)
                       /\ \A p \in Programs :
                            view'[p].state = "whole" => DOMAIN view'[p].data = Ids(dump)
                       /\ tool' \in HasStore => DOMAIN tool_store' = Ids(dump)
  BY <1>1, SameDump DEF OfOneDump
<1>2. /\ OneDumpOnly /\ dump' = dump /\ dump \in Dumps
      /\ AllOf(index)
      /\ Whole("index") => AllOf(Has("index").data)
      /\ server \in Parsed \/ (server = "ready" /\ ~loaded_from_cache)
           => Ids(dump) \subseteq DOMAIN store
  BY SameDump DEF OfOneDump, Types, MemoryHasTypes
<1>a. IsStore(store) /\ DOMAIN NoStore = {} /\ Programs = {"server", "tool"}
  BY NoStoreIsStore DEF Types, MemoryHasTypes, Programs
<1>b. Ingest => DOMAIN store' = DOMAIN store \cup Ids(dump)
  BY <1>2, <1>a, WithPagesIsStore DEF Ingest
<1>3. AllOf(index)'
  <2>1. CASE LoadIndex
    BY <1>2, <2>1 DEF LoadIndex, AllOf
  <2>2. CASE Ingest
    <3>1. index \in Seq(Dumps) /\ index' = Append(index, dump)
      BY <2>2 DEF Ingest, Types, MemoryHasTypes
    <3> QED  BY <1>2, <3>1 DEF AllOf
  <2>3. CASE index' = << >>
    BY <2>3 DEF AllOf
  <2> QED  BY <1>2, <2>1, <2>2, <2>3, IndexStep DEF AllOf
<1>4. Whole("index")' => AllOf(Has("index").data)'
  BY <1>2, IndexFileStep DEF NotWritten, AllOf
<1>5. ASSUME server' \in Parsed \/ (server' = "ready" /\ ~loaded_from_cache')
      PROVE  Ids(dump) \subseteq DOMAIN store'
  <2>1. CASE LoadStore
    <3>1. PICK r \in Results("server") :
            /\ ServerGoes("read_store", IF CacheLoaded(r.ok) THEN "ready" ELSE Rebuild)
            /\ loaded_from_cache' = CacheLoaded(r.ok)
      BY <2>1 DEF LoadStore
    <3> QED  BY <1>5, <3>1 DEF ServerGoes, Rebuild, Parsed
  <2>2. CASE Ingest
    BY <1>b, <2>2
  <2>3. CASE Rank
    <3>1. server \in Parsed
      BY <2>3 DEF Rank, ServerGoes, Parsed
    <3>2. Ids(dump) \subseteq DOMAIN store
      BY <1>2, <3>1
    <3>3. DOMAIN store' = DOMAIN store
      BY <2>3, RanksKeepIds
    <3> QED  BY <3>2, <3>3
  <2> QED  BY <1>2, <1>5, <2>1, <2>2, <2>3, BuildStep DEF Parsed
<1>6. ASSUME ~overlapped'
      PROVE  /\ DOMAIN store' \in {{}, Ids(dump)}
             /\ server' \in Parsed \cup {"ready"} => DOMAIN store' = Ids(dump)
             /\ Whole("store")' => DOMAIN Has("store")'.data = Ids(dump)
             /\ \A p \in Programs :
                  view'[p].state = "whole" => DOMAIN view'[p].data = Ids(dump)
             /\ tool' \in HasStore => DOMAIN tool_store' = Ids(dump)
  <2>1. /\ ~overlapped
        /\ DOMAIN store \in {{}, Ids(dump)}
        /\ server \in Parsed \cup {"ready"} => DOMAIN store = Ids(dump)
        /\ Whole("store") => DOMAIN Has("store").data = Ids(dump)
        /\ \A p \in Programs : view[p].state = "whole" => DOMAIN view[p].data = Ids(dump)
        /\ tool \in HasStore => DOMAIN tool_store = Ids(dump)
    BY <1>2, <1>6, UnspoiledStore DEF OfOneDump
  <2>2. ASSUME NEW p \in Programs, NEW r \in Results(p)
        PROVE  /\ DOMAIN r.store \in {{}, Ids(dump)}
               /\ r.ok => DOMAIN r.store = Ids(dump)
    BY <1>a, <2>1, <2>2, UnspoiledResults
  <2>3. DOMAIN store' \in {{}, Ids(dump)}
    <3>1. CASE Ingest
      BY <1>b, <2>1, <3>1
    <3>2. CASE Rank
      BY <2>1, <3>2, RanksKeepIds
    <3> QED  BY <1>a, <2>1, <2>2, <3>1, <3>2, StoreStep
  <2>4. ASSUME server' \in Parsed \cup {"ready"} PROVE DOMAIN store' = Ids(dump)
    <3>1. CASE LoadStore
      <4>1. PICK r \in Results("server") :
              /\ ServerGoes("read_store", IF CacheLoaded(r.ok) THEN "ready" ELSE Rebuild)
              /\ store' = r.store
        BY <3>1 DEF LoadStore
      <4>2. r.ok
        BY <2>4, <4>1 DEF ServerGoes, Rebuild, Parsed, CacheLoaded
      <4> QED  BY <1>a, <2>2, <4>1, <4>2
    <3>2. CASE Ingest
      BY <1>b, <2>1, <3>2
    <3>3. CASE Rank
      BY <2>1, <3>3, RanksKeepIds DEF Rank, ServerGoes, Parsed
    <3> QED  BY <2>1, <2>4, <3>1, <3>2, <3>3, BuildStep DEF Parsed
  <2>5. Whole("store")' => DOMAIN Has("store")'.data = Ids(dump)
    BY <1>6, <2>1, UnspoiledStore DEF NotWritten, Parsed, HasStore
  <2>6. \A p \in Programs : view'[p].state = "whole" => DOMAIN view'[p].data = Ids(dump)
    BY <1>6, <2>1, UnspoiledStore
  <2>7. ASSUME tool' \in HasStore PROVE DOMAIN tool_store' = Ids(dump)
    <3>1. CASE ToolRanks
      <4>1. tool = "load_links"
        BY <3>1 DEF ToolRanks, ToolGoes
      <4> QED  BY <2>1, <2>7, <3>1, <4>1, RanksKeepIds DEF HasStore
    <3>2. ASSUME ToolLoadsStore,
                 \E r \in Results("tool") :
                   tool_store' = r.store /\ tool' = IF r.ok THEN "load_links" ELSE "off"
          PROVE  DOMAIN tool_store' = Ids(dump)
      BY <1>a, <2>2, <2>7, <3>2 DEF HasStore
    <3> QED  BY <2>1, <2>7, <3>1, <3>2, ToolStoreStep DEF HasStore
  <2> QED  BY <2>3, <2>4, <2>5, <2>6, <2>7
<1> QED  BY <1>3, <1>4, <1>5, <1>6

LEMMA OneDumpHolds == Spec => []OfOneDump
<1>1. Init => OfOneDump
  <2> SUFFICES ASSUME Init PROVE OfOneDump
    OBVIOUS
  <2>1. ~Whole("index") /\ ~Whole("store") /\ \A p \in Programs : view[p].state # "whole"
    BY ContentsAre DEF Init, Whole, Has, NoFile, Files
  <2>2. AllOf(index) /\ DOMAIN store = {}
    BY NoStoreIsStore DEF Init, AllOf
  <2>3. left["replace"] <= Limits["replace"]
    BY LifecycleAssumption DEF Init, Events
  <2> QED  BY <2>1, <2>2, <2>3 DEF Init, OfOneDump, Parsed, HasStore
<1> QED  BY <1>1, OneDumpStep, TypesHold, UnspoiledHolds, PTL DEF Spec

\* An index that has the pages of one dump, however often, has its ids.
LEMMA IdsOfOneDump ==
  ASSUME NEW ix \in Seq(Dumps), ix # << >>, AllOf(ix)
  PROVE  IndexIds(ix) = Ids(dump)
<1>1. 1 \in DOMAIN ix
  OBVIOUS
<1> QED  BY <1>1 DEF IndexIds, AllOf

\* Of one dump, every document that a query can find is in the store, whatever was
\* interrupted before and whatever runs beside the server (buildSearchResponse); also if
\* two programs have had the store open at once, for a server that has built its own.
THEOREM ServedDocumentsStayKnown == Spec => []ServedDocumentsKnown
<1>1. Types /\ OfOneDump => ServedDocumentsKnown
  <2> SUFFICES ASSUME Types, OfOneDump, OneDumpOnly, server = "ready",
                      overlapped => ~loaded_from_cache
               PROVE  IndexIds(index) \subseteq DOMAIN store
    BY DEF ServedDocumentsKnown
  <2>1. IndexIds(index) = Ids(dump)
    BY IdsOfOneDump DEF Types, MemoryHasTypes, OfOneDump, Loading
  <2>2. overlapped \in BOOLEAN
    BY DEF Types, FilesHaveTypes
  <2> QED  BY <2>1, <2>2 DEF OfOneDump
<1> QED  BY <1>1, TypesHold, OneDumpHolds, PTL

\* Of one dump, an index that loads is complete, whatever was interrupted; so is a store
\* that no program opened for writing while another had it open, and no loader throws on
\* it: no half of an artifact passes for the whole (loadFromFile).
THEOREM LoadableStaysComplete == Spec => []LoadableMeansComplete
<1>1. Types /\ Unspoiled /\ OfOneDump => LoadableMeansComplete
  <2> SUFFICES ASSUME Types, Unspoiled, OfOneDump, OneDumpOnly
               PROVE  /\ Whole("index") => IndexIds(Has("index").data) = Ids(dump)
                      /\ ~overlapped => /\ Whole("store") => DOMAIN Has("store").data = Ids(dump)
                                        /\ ~Poisoned("store")
    BY DEF LoadableMeansComplete
  <2>1. Whole("index") => IsIndex(Has("index").data)
    BY DEF Types, FilesHaveTypes, HasItsType, Files
  <2>2. Whole("index") => IndexIds(Has("index").data) = Ids(dump)
    BY <2>1, IdsOfOneDump DEF OfOneDump, IsIndex
  <2> QED  BY <2>2 DEF OfOneDump, Unspoiled
<1> QED  BY <1>1, TypesHold, UnspoiledHolds, OneDumpHolds, PTL
=============================================================================
