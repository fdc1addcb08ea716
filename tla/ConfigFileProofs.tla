-------------------------- MODULE ConfigFileProofs --------------------------
(***************************************************************************)
(* Proofs about ConfigFile, for every set of windows and URLs and every    *)
(* number of edits: a confirmed save lasts, the token in the file is that  *)
(* of its URL, and only saves that race are lost.                          *)
(***************************************************************************)
EXTENDS ConfigFile, TLAPS

(* A configuration whose token was entered for its URL.                    *)
Matched == {c \in Configs : c.token # Nothing => c.token.for = c.url}

Drafts == [rest : 0..MaxEdits, url : Urls \cup {Nothing},
           token : {"keep", "remove", "enter"}, edit : 0..MaxEdits]

Pages == [config : Matched, draft : Drafts, stale : Matched \cup {Nothing}, armed : BOOLEAN]

Files == [config : Matched, by : Windows \cup {Nothing}, base : Matched \cup {Nothing}]

Saves == [pc : {"idle", "sent", "checked", "renamed", "saved", "conflict"},
          base : Matched \cup {Nothing}, config : Matched \cup {Nothing},
          found : Matched \cup {Nothing}]

(* Every configuration that is on disk, shown, polled or being saved has   *)
(* the token of its URL: a draft that keeps the token is checked against   *)
(* whatever file is there by then, so all of them have to.                 *)
TypeInv ==
    /\ disk \in Seq(Files) /\ disk # <<>>
    /\ edits \in 0..MaxEdits
    /\ page \in [Windows -> Pages]
    /\ poll \in [Windows -> Matched \cup {Nothing}]
    /\ save \in [Windows -> Saves]

(* A save that was checked has a configuration to write.                   *)
SavesInv ==
    \A w \in Windows :
        save[w].pc \in {"checked", "renamed", "saved"} => save[w].config \in Matched

IInv == TypeInv /\ SavesInv /\ SavesLast /\ OnlyRacingSavesAreLost

----------------------------------------------------------------------------
(* Lemmas about the operators of the model.                                *)

LEMMA FilesMatched ==
    ASSUME TypeInv, NEW i \in DOMAIN disk PROVE disk[i].config \in Matched
<1>1. DOMAIN disk = 1..Len(disk)
  BY DEF TypeInv
<1>2. disk[i] \in Files
  BY <1>1 DEF TypeInv
<1> QED
  BY <1>2 DEF Files

LEMMA CurrentMatched == ASSUME TypeInv PROVE Current \in Matched
<1>1. Len(disk) \in DOMAIN disk
  BY DEF TypeInv
<1> QED
  BY <1>1, FilesMatched DEF Current

LEMMA DurableFile ==
    ASSUME NEW c \in Matched
    PROVE  /\ Durable(c) \in Seq(Files) /\ Durable(c) # <<>>
           /\ \A i \in DOMAIN Durable(c) : Durable(c)[i].by = Nothing
  BY DEF Durable, Files

LEMMA LoadedPage == ASSUME NEW c \in Matched PROVE Loaded(c) \in Pages
  BY BoundsAssumption DEF Matched, Configs, Loaded, Unedited, Pages, Drafts

(* The configuration a draft makes has the token of its URL, whatever file *)
(* it is checked against.                                                  *)
LEMMA TokenMatched ==
    ASSUME NEW d \in Drafts, NEW stored \in Matched
    PROVE  [rest |-> d.rest, url |-> d.url, token |-> Token(d, stored)] \in Matched
<1> DEFINE c == [rest |-> d.rest, url |-> d.url, token |-> Token(d, stored)]
<1>1. CASE d.token = "enter"
  <2>1. Token(d, stored) = [for |-> d.url, edit |-> d.edit]
    BY <1>1 DEF Token
  <2> QED
    BY <2>1 DEF Drafts, Matched, Configs, Tokens
<1>2. CASE d.token = "remove"
  <2>1. Token(d, stored) = Nothing
    BY <1>2 DEF Token
  <2> QED
    BY <2>1 DEF Drafts, Matched, Configs, Tokens
<1>3. CASE d.token = "keep"
  <2>1. Token(d, stored) = IF d.url = stored.url THEN stored.token ELSE Nothing
    BY <1>3 DEF Token
  <2> QED
    BY <2>1 DEF Drafts, Matched, Configs, Tokens
<1> QED
  BY <1>1, <1>2, <1>3 DEF Drafts

LEMMA IdleSave == NoSave \in Saves /\ [NoSave EXCEPT !.pc = "conflict"] \in Saves
  BY DEF NoSave, Saves

----------------------------------------------------------------------------
LEMMA InitInv == Init => IInv
<1> SUFFICES ASSUME Init PROVE IInv
  OBVIOUS
<1> DEFINE u == CHOOSE url \in Urls : TRUE
           c == [rest |-> 0, url |-> u, token |-> [for |-> u, edit |-> 0]]
<1>1. u \in Urls
  BY UrlsAssumption
<1> HIDE DEF u
<1>2. c \in Matched
  <2>1. 0 \in 0..MaxEdits
    BY BoundsAssumption
  <2>2. [for |-> u, edit |-> 0] \in Tokens
    BY <1>1, <2>1 DEF Tokens
  <2> QED
    BY <1>1, <2>1, <2>2 DEF Matched, Configs
<1>3. disk = Durable(c) /\ page = [w \in Windows |-> Loaded(c)]
  BY DEF Init, u
<1> HIDE DEF c
<1>4. TypeInv
  BY <1>2, <1>3, DurableFile, LoadedPage, IdleSave, BoundsAssumption DEF Init, TypeInv
<1>5. \A w \in Windows : save[w].pc = "idle"
  BY DEF Init, NoSave
<1> QED
  BY <1>4, <1>5 DEF IInv, SavesInv, SavesLast, OnlyRacingSavesAreLost
----------------------------------------------------------------------------
(* A window's own steps keep the types: what it shows, polls or sends comes *)
(* from the disk, from a save or from its draft.                           *)

LEMMA PageTypes ==
    ASSUME TypeInv, NEW w \in Windows,
           Edit(w) \/ Discard(w) \/ LoadStale(w) \/ Warn(w) \/ Poll(w) \/ PollAnswered(w)
    PROVE  TypeInv' /\ UNCHANGED <<disk, save>>
<1> USE DEF TypeInv
<1>1. CASE Edit(w)
  <2>1. edits' = edits + 1 /\ edits < MaxEdits
    BY <1>1 DEF Edit
  <2>2. edits' \in 0..MaxEdits /\ 0 \in 0..MaxEdits
    BY <2>1, BoundsAssumption
  <2>3. page[w] \in Pages /\ page[w].draft \in Drafts
    BY DEF Pages
  <2>4. \A d \in Drafts : [page EXCEPT ![w].draft = d] \in [Windows -> Pages]
    BY DEF Pages
  <2>5. \E d \in Drafts : page' = [page EXCEPT ![w].draft = d]
    <3>1. CASE page' = [page EXCEPT ![w].draft.rest = edits']
      <4>1. [page[w].draft EXCEPT !.rest = edits'] \in Drafts
        BY <2>2, <2>3 DEF Drafts
      <4> QED
        BY <3>1, <4>1
    <3>2. ASSUME NEW url \in Urls \cup {Nothing}, page' = [page EXCEPT ![w].draft.url = url]
          PROVE  \E d \in Drafts : page' = [page EXCEPT ![w].draft = d]
      <4>1. [page[w].draft EXCEPT !.url = url] \in Drafts
        BY <2>3 DEF Drafts
      <4> QED
        BY <3>2, <4>1
    <3>3. CASE page' = [page EXCEPT ![w].draft.token = "remove", ![w].draft.edit = 0]
      <4>1. [page[w].draft EXCEPT !.token = "remove", !.edit = 0] \in Drafts
        BY <2>2, <2>3 DEF Drafts
      <4>2. page' = [page EXCEPT ![w] = [page[w] EXCEPT !.draft =
                        [page[w].draft EXCEPT !.token = "remove", !.edit = 0]]]
        BY <2>3, <3>3 DEF Pages, Drafts
      <4> QED
        BY <4>1, <4>2
    <3>4. ASSUME NEW url \in Urls,
                 page' = [page EXCEPT ![w].draft.url = url, ![w].draft.token = "enter",
                                      ![w].draft.edit = edits']
          PROVE  \E d \in Drafts : page' = [page EXCEPT ![w].draft = d]
      <4>1. [page[w].draft EXCEPT !.url = url, !.token = "enter", !.edit = edits'] \in Drafts
        BY <2>2, <2>3 DEF Drafts
      <4>2. page' = [page EXCEPT ![w] = [page[w] EXCEPT !.draft =
                        [page[w].draft EXCEPT !.url = url, !.token = "enter", !.edit = edits']]]
        BY <2>3, <3>4 DEF Pages, Drafts
      <4> QED
        BY <4>1, <4>2
    <3> QED
      BY <1>1, <3>1, <3>2, <3>3, <3>4 DEF Edit
  <2> QED
    BY <1>1, <2>2, <2>4, <2>5 DEF Edit
<1>2. CASE Discard(w)
  <2>1. Unedited(page[w].config) \in Drafts
    BY LoadedPage DEF Pages, Loaded
  <2> QED
    BY <1>2, <2>1 DEF Discard, Pages
<1>3. CASE LoadStale(w)
  <2>1. Loaded(page[w].stale) \in Pages
    BY <1>3, LoadedPage DEF LoadStale, Pages
  <2> QED
    BY <1>3, <2>1 DEF LoadStale
<1>4. CASE Warn(w)
  BY <1>4 DEF Warn, Pages
<1>5. CASE Poll(w)
  BY <1>5, CurrentMatched DEF Poll
<1>6. CASE PollAnswered(w)
  <2>1. poll[w] \in Matched /\ Loaded(poll[w]) \in Pages
    BY <1>6, LoadedPage DEF PollAnswered
  <2>2. page' \in [Windows -> Pages]
    BY <1>6, <2>1 DEF PollAnswered, Pages
  <2> QED
    BY <1>6, <2>2 DEF PollAnswered
<1> QED
  BY <1>1, <1>2, <1>3, <1>4, <1>5, <1>6

LEMMA SaveTypes ==
    ASSUME TypeInv, SavesInv, NEW w \in Windows,
           Send(w) \/ SaveStep(w) \/ SaveFails(w)
    PROVE  TypeInv'
<1> USE DEF TypeInv
<1>1. CASE Send(w)
  <2>1. page[w].config \in Matched
    BY DEF Pages
  <2>2. PICK base \in Matched \cup {Nothing} :
           save' = [save EXCEPT ![w].pc = "sent", ![w].base = base]
    BY <1>1, <2>1 DEF Send
  <2>3. save' \in [Windows -> Saves]
    BY <2>2 DEF Saves
  <2> QED
    BY <1>1, <2>3 DEF Send
<1>2. CASE Check(w)
  <2> DEFINE config == [rest |-> page[w].draft.rest, url |-> page[w].draft.url,
                        token |-> Token(page[w].draft, Current)]
             checked == [pc |-> "checked", base |-> save[w].base, config |-> config,
                         found |-> Current]
  <2>1. config \in Matched
    BY CurrentMatched, TokenMatched DEF Pages
  <2> HIDE DEF config
  <2>2. checked \in Saves
    BY <2>1, CurrentMatched DEF Saves
  <2>3. \E s \in {checked, NoSave, [NoSave EXCEPT !.pc = "conflict"]} :
           save' = [save EXCEPT ![w] = s]
    BY <1>2 DEF Check, config
  <2> QED
    BY <1>2, <2>2, <2>3, IdleSave DEF Check
<1>3. CASE Rename(w)
  <2>1. save[w].config \in Matched
    BY <1>3 DEF Rename, SavesInv
  <2>2. [config |-> save[w].config, by |-> w, base |-> save[w].base] \in Files
    BY <2>1 DEF Files, Saves
  <2>3. [NoSave EXCEPT !.pc = "renamed", !.config = save[w].config] \in Saves
    BY <2>1 DEF NoSave, Saves
  <2> QED
    BY <1>3, <2>2, <2>3 DEF Rename
<1>4. CASE SyncDirectory(w)
  BY <1>4, CurrentMatched, DurableFile DEF SyncDirectory, Saves
<1>5. CASE Saved(w)
  <2>1. save[w].config \in Matched
    BY <1>5 DEF Saved, SavesInv
  <2> QED
    BY <1>5, <2>1, LoadedPage, IdleSave DEF Saved
<1>6. CASE Conflict(w)
  <2>1. PICK stale \in {Current, page[w].stale} :
           page' = [page EXCEPT ![w].stale = stale, ![w].armed = TRUE]
    BY <1>6 DEF Conflict
  <2>2. stale \in Matched \cup {Nothing}
    BY CurrentMatched DEF Pages
  <2>3. page' \in [Windows -> Pages]
    BY <2>1, <2>2 DEF Pages
  <2> QED
    BY <1>6, <2>3, IdleSave DEF Conflict
<1>7. CASE SaveFails(w)
  BY <1>7, IdleSave DEF SaveFails
<1> QED
  BY <1>1, <1>2, <1>3, <1>4, <1>5, <1>6, <1>7 DEF SaveStep

LEMMA WorldTypes == ASSUME TypeInv, OutsideEdit \/ Crash PROVE TypeInv'
<1> USE DEF TypeInv
<1>1. CASE OutsideEdit
  <2>1. PICK url \in Urls :
           disk' = Durable([rest |-> edits', url |-> url,
                            token |-> [for |-> url, edit |-> edits']])
    BY <1>1 DEF OutsideEdit
  <2>2. edits' \in 0..MaxEdits
    BY <1>1, BoundsAssumption DEF OutsideEdit
  <2>3. [for |-> url, edit |-> edits'] \in Tokens
    BY <2>2 DEF Tokens
  <2>4. [rest |-> edits', url |-> url, token |-> [for |-> url, edit |-> edits']] \in Matched
    BY <2>2, <2>3 DEF Matched, Configs
  <2> QED
    BY <1>1, <2>1, <2>2, <2>4, DurableFile DEF OutsideEdit
<1>2. CASE Crash
  <2>1. PICK i \in DOMAIN disk : disk' = Durable(disk[i].config)
    BY <1>2 DEF Crash
  <2>2. disk[i].config \in Matched
    BY FilesMatched
  <2> QED
    BY <1>2, <2>1, <2>2, DurableFile, IdleSave DEF Crash
<1> QED
  BY <1>1, <1>2

----------------------------------------------------------------------------
(* What each step does to the saves that are under way, and to who wrote   *)
(* the files.                                                              *)

LEMMA SavesStep ==
    ASSUME IInv, [Next]_vars
    PROVE  SavesInv' /\ OnlyRacingSavesAreLost'
<1> USE DEF IInv, TypeInv, SavesInv, OnlyRacingSavesAreLost
<1>1. CASE save' = save
  BY <1>1
<1>2. ASSUME NEW w \in Windows, NEW s,
             save' = [save EXCEPT ![w] = s],
             s.pc \in {"checked", "renamed", "saved"} => s.config \in Matched,
             s.pc = "checked" => s.base \in {Nothing, s.found}
      PROVE  SavesInv' /\ OnlyRacingSavesAreLost'
  BY <1>2
<1>3. ASSUME NEW w \in Windows, Check(w)
      PROVE  SavesInv' /\ OnlyRacingSavesAreLost'
  <2> DEFINE config == [rest |-> page[w].draft.rest, url |-> page[w].draft.url,
                        token |-> Token(page[w].draft, Current)]
             checked == [pc |-> "checked", base |-> save[w].base, config |-> config,
                         found |-> Current]
  <2>1. config \in Matched
    BY CurrentMatched, TokenMatched DEF Pages
  <2> HIDE DEF config
  <2>2. CASE save' = [save EXCEPT ![w] = checked] /\ save[w].base \in {Nothing, Current}
    BY <1>2, <2>1, <2>2
  <2>3. CASE save' = [save EXCEPT ![w] = NoSave]
    BY <1>2, <2>3 DEF NoSave
  <2>4. CASE save' = [save EXCEPT ![w] = [NoSave EXCEPT !.pc = "conflict"]]
    BY <1>2, <2>4 DEF NoSave
  <2> QED
    BY <1>3, <2>2, <2>3, <2>4 DEF Check, Revision, config
<1>4. ASSUME NEW w \in Windows, Rename(w)
      PROVE  SavesInv' /\ OnlyRacingSavesAreLost'
  <2>1. save[w].config \in Matched
    BY <1>4 DEF Rename
  <2> QED
    BY <1>2, <1>4, <2>1 DEF Rename, NoSave
<1>5. ASSUME NEW w \in Windows, SyncDirectory(w)
      PROVE  SavesInv' /\ OnlyRacingSavesAreLost'
  BY <1>5 DEF SyncDirectory, Saves
<1>6. ASSUME NEW w \in Windows, Send(w)
      PROVE  SavesInv' /\ OnlyRacingSavesAreLost'
  BY <1>6 DEF Send, Saves
<1>7. ASSUME NEW w \in Windows, Saved(w) \/ Conflict(w) \/ SaveFails(w)
      PROVE  SavesInv' /\ OnlyRacingSavesAreLost'
  BY <1>2, <1>7 DEF Saved, Conflict, SaveFails, NoSave
<1>8. CASE Crash
  BY <1>8 DEF Crash, NoSave
<1>9. ASSUME NEW w \in Windows,
             Edit(w) \/ Discard(w) \/ LoadStale(w) \/ Warn(w) \/ Poll(w) \/ PollAnswered(w)
      PROVE  SavesInv' /\ OnlyRacingSavesAreLost'
  BY <1>1, <1>9, PageTypes
<1>10. CASE OutsideEdit
  BY <1>1, <1>10 DEF OutsideEdit
<1>11. CASE UNCHANGED vars
  BY <1>1, <1>11 DEF vars
<1> QED
  BY <1>3, <1>4, <1>5, <1>6, <1>7, <1>8, <1>9, <1>10, <1>11 DEF Next, SaveStep

(* A window only becomes "saved" by a step that leaves one file, nobody's; *)
(* files are added in a window's own name, while it is not.                *)
LEMMA LastingStep == ASSUME IInv, [Next]_vars PROVE SavesLast'
<1> USE DEF IInv, TypeInv, SavesLast
<1>1. ASSUME NEW c \in Matched, disk' = Durable(c) PROVE SavesLast'
  BY <1>1, DurableFile, WindowsAssumption
<1>2. CASE disk' = disk /\ \A w \in Windows : save'[w].pc = "saved" => save[w].pc = "saved"
  BY <1>2
<1>3. ASSUME NEW w \in Windows, Rename(w) PROVE SavesLast'
  <2> DEFINE f == [config |-> save[w].config, by |-> w, base |-> save[w].base]
  <2>1. disk' = Append(disk, f) /\ f.by = w
    BY <1>3 DEF Rename
  <2> HIDE DEF f
  <2>2. \A i \in DOMAIN disk' : \/ i \in DOMAIN disk /\ disk'[i] = disk[i]
                                \/ disk'[i].by = w
    BY <2>1
  <2>3. save'[w].pc = "renamed" /\ \A v \in Windows \ {w} : save'[v] = save[v]
    BY <1>3 DEF Rename, NoSave
  <2>4. SUFFICES ASSUME NEW v \in Windows, save'[v].pc = "saved", NEW i \in DOMAIN disk'
                 PROVE  disk'[i].by # v
    OBVIOUS
  <2>5. v # w /\ save[v].pc = "saved"
    BY <2>3, <2>4
  <2> QED
    BY <2>2, <2>5
<1>4. ASSUME NEW w \in Windows, SyncDirectory(w) PROVE SavesLast'
  BY <1>1, <1>4, CurrentMatched DEF SyncDirectory
<1>5. CASE OutsideEdit
  <2>1. PICK c : disk' = Durable(c)
    BY <1>5 DEF OutsideEdit
  <2>2. \A i \in DOMAIN disk' : disk'[i].by = Nothing
    BY <2>1 DEF Durable
  <2> QED
    BY <2>2, WindowsAssumption
<1>6. CASE Crash
  <2>1. PICK i \in DOMAIN disk : disk' = Durable(disk[i].config)
    BY <1>6 DEF Crash
  <2>2. disk[i].config \in Matched
    BY FilesMatched
  <2> QED
    BY <1>1, <2>1, <2>2
<1>7. ASSUME NEW w \in Windows, Check(w) PROVE SavesLast'
  BY <1>2, <1>7 DEF Check, NoSave
<1>8. ASSUME NEW w \in Windows, Send(w) \/ Saved(w) \/ Conflict(w) \/ SaveFails(w)
      PROVE  SavesLast'
  BY <1>2, <1>8 DEF Send, Saved, Conflict, SaveFails, NoSave, Saves
<1>9. ASSUME NEW w \in Windows,
             Edit(w) \/ Discard(w) \/ LoadStale(w) \/ Warn(w) \/ Poll(w) \/ PollAnswered(w)
      PROVE  SavesLast'
  BY <1>2, <1>9, PageTypes
<1>10. CASE UNCHANGED vars
  BY <1>2, <1>10 DEF vars
<1> QED
  BY <1>3, <1>4, <1>5, <1>6, <1>7, <1>8, <1>9, <1>10 DEF Next, SaveStep

LEMMA NextInv == ASSUME IInv, [Next]_vars PROVE IInv'
<1>1. TypeInv'
  <2>1. CASE UNCHANGED vars
    BY <2>1 DEF vars, IInv, TypeInv
  <2> QED
    BY <2>1, PageTypes, SaveTypes, WorldTypes DEF IInv, Next
<1> QED
  BY <1>1, SavesStep, LastingStep DEF IInv

LEMMA Invariance == Spec => []IInv
  BY InitInv, NextInv, PTL DEF Spec

----------------------------------------------------------------------------
(* A save a window is told of survives every crash, however many saves are *)
(* between their rename and their directory entry (config.rs,              *)
(* write_to_path).                                                         *)
THEOREM SavesLastHolds == Spec => []SavesLast
  BY Invariance, PTL DEF IInv

(* The file never pairs a URL with a token entered for another one, which  *)
(* would send the token to the wrong server (web.rs, draft_config).        *)
THEOREM TokenOfUrlHolds == Spec => []TokenOfUrl
<1>1. IInv => TokenOfUrl
  BY CurrentMatched DEF IInv, TokenOfUrl, Matched
<1> QED
  BY <1>1, Invariance, PTL

(* A save that is not forced is only lost on changes made after its check  *)
(* (web.rs, save_config).                                                  *)
THEOREM OnlyRacingSavesAreLostHolds == Spec => []OnlyRacingSavesAreLost
  BY Invariance, PTL DEF IInv

=============================================================================
