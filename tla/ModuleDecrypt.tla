--------------------------- MODULE ModuleDecrypt ----------------------------
(* modules_patching in modulespatch.c: the chunks of a module that is      *)
(* loaded are decrypted, hashed and patched.  What is known of the module  *)
(* in progress is kept in static variables, one set for all loads.         *)
EXTENDS Naturals, Sequences, FiniteSets

CONSTANTS
  Loader,       \* threads that load a module
  Mod,          \* modules
  NoMod,
  ModuleKind,         \* "cobra": encrypted for Cobra; "bare": decrypted; "native"
  Shape,        \* chunks of each section
  Entry,        \* entry of patch_table for each section, 0 when there is none
  PatchTable,   \* patch_table: the patches of each entry, <<name, condition>>
  AudioEntry,   \* the entry that hen_audio.off switches off
  Condition,    \* conditions of patches that other components set
  MaxTotal      \* bound: chunks that total and keys count, leftovers included

ASSUME DecryptAssumption ==
  /\ NoMod \notin Mod
  /\ \A m \in Mod :
       /\ ModuleKind[m] \in {"cobra", "bare", "native"}
       /\ Shape[m] \in Seq(Nat \ {0}) /\ Len(Shape[m]) \in 1 .. 2
       \* What a hash cannot tell apart has the same entry.
       /\ ModuleKind[m] = "native" /\ Len(Shape[m]) = 2 /\ Shape[m][1] = Shape[m][2] =>
            Entry[m][1] = Entry[m][2]
       /\ \A s \in DOMAIN Shape[m] : Entry[m][s] \in {0} \cup DOMAIN PatchTable
  /\ \A e \in DOMAIN PatchTable : DOMAIN PatchTable[e] = 1 .. Len(PatchTable[e])
  \* The audio entry is not the last of the table.
  /\ AudioEntry \in DOMAIN PatchTable => AudioEntry + 1 \in DOMAIN PatchTable
  /\ AudioEntry \in Nat /\ MaxTotal \in Nat

VARIABLES
  total,        \* chunks of the section so far
  buf,          \* where the section begins, for the hash and the patches
  keys,         \* the module whose keys are derived, and the next block
  saved_buf,    \* where the next chunk is copied
  saved_hdr,    \* whose header the keys are read from
  conditions,   \* the conditions that hold
  audio_off,    \* hen_audio.off exists
  dpc,          \* what each thread loads: module, section, chunk
  chunked,      \* history: the last chunk, how and where it was decrypted
  patched,      \* history: the last section, what was hashed and patched
  spoiled       \* history: "section" when a load was given up within one,
                \* "load" while two loads overlap, else "no"

decryptVars == <<total, buf, keys, saved_buf, saved_hdr, conditions, audio_off, dpc, chunked,
                 patched, spoiled>>

NoLoad == [mod |-> NoMod, sec |-> 1, chunk |-> 0]
NoChunk == [of |-> NoLoad, key |-> NoMod, block |-> 0, at |-> <<NoMod, 0>>, sure |-> FALSE]
NoPatches == [of |-> NoLoad, from |-> <<NoMod, 0>>, size |-> 0, applied |-> {},
              no_audio |-> FALSE, sure |-> FALSE]

DecryptInit ==
  /\ total = 0 /\ buf = <<NoMod, 0>>
  /\ keys = [of |-> NoMod, block |-> 0]
  /\ saved_buf = <<NoMod, 0>> /\ saved_hdr = NoMod
  /\ conditions \in SUBSET Condition
  /\ audio_off \in BOOLEAN
  /\ dpc = [t \in Loader |-> NoLoad]
  /\ chunked = NoChunk /\ patched = NoPatches
  /\ spoiled = "no"

InLoad == {t \in Loader : dpc[t].mod # NoMod}

\* post_lv1_call_99_wrapper notes where the module goes.
BeginLoad(t) ==
  /\ dpc[t].mod = NoMod
  /\ \E m \in Mod :
       /\ dpc' = [dpc EXCEPT ![t] = [NoLoad EXCEPT !.mod = m]]
       /\ saved_buf' = <<m, 0>> /\ saved_hdr' = m
  /\ spoiled' = IF InLoad # {} THEN "load" ELSE spoiled
  /\ UNCHANGED <<total, buf, keys, conditions, audio_off, chunked, patched>>

\* A load ends, after its last section or because the kernel gives it up.
EndLoad(t) ==
  /\ dpc[t].mod # NoMod
  /\ dpc' = [dpc EXCEPT ![t] = NoLoad]
  /\ spoiled' = IF InLoad # {t} THEN "load" ELSE IF total # 0 THEN "section" ELSE "no"
  /\ chunked' = NoChunk /\ patched' = NoPatches
  /\ UNCHANGED <<total, buf, keys, saved_buf, saved_hdr, conditions, audio_off>>

\* Other components set and clear conditions (psp.c, mappath.c).
SetCondition ==
  /\ \E c \in Condition :
       conditions' = IF c \in conditions THEN conditions \ {c} ELSE conditions \cup {c}
  /\ UNCHANGED <<total, buf, keys, saved_buf, saved_hdr, audio_off, dpc, chunked, patched,
                 spoiled>>

\* hen_audio.off comes when the loader starts without a choice of the user, who
\* can choose otherwise.
SetAudio ==
  /\ audio_off' = ~audio_off
  /\ UNCHANGED <<total, buf, keys, saved_buf, saved_hdr, conditions, dpc, chunked, patched,
                 spoiled>>

-----------------------------------------------------------------------------
\* Mutant: the keys are derived for every chunk, which resets their counter.
KeysAgain == [of |-> saved_hdr, block |-> 0]

\* The keys for this chunk: derived from the header at the first chunk of a
\* section, else those of the chunk before.
KeysNow == IF total = 0 THEN [of |-> saved_hdr, block |-> 0] ELSE keys
IsLast(l) == l.chunk + 1 = Shape[l.mod][l.sec]

\* The patches of a section.  The entry for audio is skipped by looking at the
\* next entry, from its second patch on.
PatchesOf(e) ==
  LET skip == e = AudioEntry /\ audio_off
      list == PatchTable[IF skip THEN e + 1 ELSE e]
  IN  {list[i] : i \in (IF skip THEN 2 ELSE 1) .. Len(list)}
Applied(e) ==
  IF e = 0 THEN {} ELSE {p \in PatchesOf(e) : p[2] = "always" \/ p[2] \in conditions}

\* The entry is found by a hash of what buf points to and of the size.
SectionStart(m, s) == <<m, IF s = 1 \/ ModuleKind[m] = "native" THEN 0 ELSE Shape[m][1]>>
FoundEntry(b, size) ==
  LET here == {x \in Mod \X (1 .. 2) :
                 /\ x[2] \in DOMAIN Shape[x[1]]
                 /\ SectionStart(x[1], x[2]) = b /\ Shape[x[1]][x[2]] = size}
  IN  IF here = {} THEN 0 ELSE LET x == CHOOSE x \in here : TRUE IN Entry[x[1]][x[2]]

\* modules_patching, one chunk.
Chunk(t) ==
  LET l == dpc[t]
      copied == ModuleKind[l.mod] # "native"
      mine == KeysNow
      decrypted == ModuleKind[saved_hdr] = "cobra" /\ copied
      start == IF total = 0 \/ ~copied THEN saved_buf ELSE buf
  IN
  /\ l.mod # NoMod /\ l.sec \in DOMAIN Shape[l.mod]
  /\ total < MaxTotal /\ keys.block < MaxTotal
  /\ keys' = IF ~decrypted THEN keys
             ELSE IF IsLast(l) THEN [of |-> NoMod, block |-> 0]
                  ELSE [mine EXCEPT !.block = @ + 1]
  /\ chunked' = IF spoiled # "no" THEN NoChunk
                ELSE [of |-> [l EXCEPT !.chunk = @ + 1],
                      key |-> IF decrypted THEN mine.of ELSE NoMod,
                      block |-> IF decrypted THEN mine.block ELSE 0,
                      at |-> saved_buf, sure |-> TRUE]
  /\ buf' = start
  /\ saved_buf' = IF copied THEN [saved_buf EXCEPT ![2] = @ + 1] ELSE saved_buf
  /\ IF IsLast(l)
     THEN /\ total' = 0
          /\ patched' = IF spoiled # "no" THEN NoPatches
                        ELSE [of |-> l, from |-> start, size |-> total + 1,
                              applied |-> Applied(FoundEntry(start, total + 1)),
                              no_audio |-> audio_off, sure |-> TRUE]
          /\ dpc' = [dpc EXCEPT ![t] = [l EXCEPT !.sec = @ + 1, !.chunk = 0]]
          /\ spoiled' = IF spoiled = "section" THEN "no" ELSE spoiled
     ELSE /\ total' = total + 1
          /\ dpc' = [dpc EXCEPT ![t].chunk = @ + 1]
          /\ UNCHANGED <<patched, spoiled>>
  /\ UNCHANGED <<saved_hdr, conditions, audio_off>>

DecryptNext == SetCondition \/ SetAudio \/ \E t \in Loader : BeginLoad(t) \/ EndLoad(t) \/ Chunk(t)

DecryptSpec == DecryptInit /\ [][DecryptNext]_decryptVars
-----------------------------------------------------------------------------
\* Every chunk of a module that is loaded alone is decrypted with the keys of
\* that module from the block after the last one, is left alone when it is not
\* encrypted, and lands behind the chunk before.  The keys, the counter and the
\* place are static variables of modules_patching that outlive the call: a
\* section that is given up leaves them behind.
DecryptedOwn ==
  LET l == chunked.of
      encrypted == ModuleKind[l.mod] = "cobra"
  IN chunked.sure =>
       /\ chunked.key = IF encrypted THEN l.mod ELSE NoMod
       /\ chunked.block = IF encrypted THEN l.chunk - 1 ELSE 0
       /\ ModuleKind[l.mod] # "native" =>
            chunked.at = <<l.mod, SectionStart(l.mod, l.sec)[2] + l.chunk - 1>>

\* A section of a module that is loaded alone is hashed and patched from its own
\* first word and by its own entry of patch_table: every patch without a
\* condition is applied and no patch of another entry is.  The one exception is
\* the module for audio, which with hen_audio.off gets patches of the entry
\* behind its own, and no others.
PatchList(e) == IF e = 0 THEN {} ELSE {PatchTable[e][i] : i \in DOMAIN PatchTable[e]}
PatchedOwn ==
  LET l == patched.of
      e == Entry[l.mod][l.sec]
  IN patched.sure =>
       /\ patched.from = SectionStart(l.mod, l.sec) /\ patched.size = Shape[l.mod][l.sec]
       /\ IF e = AudioEntry /\ e # 0 /\ patched.no_audio
          THEN patched.applied \subseteq PatchList(e + 1)
          ELSE /\ patched.applied \subseteq PatchList(e)
               /\ \A p \in PatchList(e) : p[2] = "always" => p \in patched.applied

\* A module that is loaded alone comes out of modules_patching as its own.
OwnKeysAndPatches == DecryptedOwn /\ PatchedOwn

\* A module is patched with its own patches only.  Not so: with hen_audio.off,
\* which is there by default, the module for audio is not left alone but gets
\* the second and third patch of the network storage plugin (995-1003, 426-427).
OnlyOwnPatches ==
  patched.sure => patched.applied \subseteq PatchList(Entry[patched.of.mod][patched.of.sec])
=============================================================================
