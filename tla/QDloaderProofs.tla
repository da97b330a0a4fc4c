---------------------------- MODULE QDloaderProofs ----------------------------
(***************************************************************************)
(* Proofs that a download never loses the calibration of the module, and   *)
(* that a success is one, for any packages that list what they have after  *)
(* the second loader, any commands for the modem that flash all images,    *)
(* any failures and any number of runs.                                    *)
(*                                                                         *)
(* The flash is partitioned anew and written when each partition to keep   *)
(* has been saved in this run: that is what the inductive invariant says   *)
(* about the place in the loops of test_bsl. The other two downloaders     *)
(* write images only, which takes an invariant of their own: what was told *)
(* to the modem, and what it has yet to program, are images.               *)
(*                                                                         *)
(* A success of test_bsl needs what is written at each place in its loops. *)
(* One of aboot_main needs what each answer stands for, and that an answer *)
(* is never taken for that to another command.                             *)
(***************************************************************************)
EXTENDS QDloader, TLAPS

USE DEF usbVars, loopVars, bslVars, talkVars, hostVars, abootVars, fbfVars, mainVars, vars

Contents == {"none", "cal", "old", "new", "some", "blank", "plain"}

\* What a partition, its file and the merged NV may hold.
Holdings ==
    /\ flash \in [Parts -> Contents] /\ file \in [Kept -> Contents] /\ nvBuf \in Contents
    /\ unsaved \subseteq Kept

\* A copy of p is on the host, or is taken to be there.
Saved(p) == file[p] = "cal" \/ p \in unsaved
AllSaved == \A p \in Kept : Saved(p)
SavedUpTo(j) == \A k \in item .. j : Keeps(Items[k]) => Saved(Items[k].id)

\* Item i comes after the second loader.
Past(i) == \E f \in 1 .. (i - 1) : Items[f].kind = "fdl2"

AtSecond == item \in DOMAIN Items /\ Items[item].kind = "fdl2"

\* What has been saved at each place in the loops.
InOrder ==
    ctl = "dloader" =>
        /\ chip \in {"RG500U", "EC200U"}
        /\ loop \in {"items", "backup", "restore"}
        /\ loop = "items" => item \in 1 .. Len(Items) + 1 /\ (Past(item) => AllSaved)
        /\ loop = "backup" =>
              AtSecond /\ other \in item .. Len(Items) + 1 /\ SavedUpTo(other - 1)
        /\ loop = "restore" => AtSecond /\ other \in item .. Len(Items) /\ AllSaved

\* A modem is told to flash images only.
Commands == {"getvar", "call", "nop", "download", "flash", "reboot", "complete", "disconnect",
             "poll", "data", "last"}
Orders ==
    {m \in [op : Commands, img : Images \cup {"none"}] : m.op = "flash" => m.img \in Images}
OnlyImages ==
    line \in 1 .. Len(Script) + 3 /\ toMod \in Seq(Orders) /\ background \in Seq(Images)

IInv == Holdings /\ InOrder /\ OnlyImages /\ CalibrationKept
-----------------------------------------------------------------------------
(* What must be true for a success to be one. *)

\* What was to be kept is in p, or one of the exceptions has cost it; the same
\* for an image, and for the image of the NV, which is to have what the module had.
Good(p) == flash[p] = "cal" \/ p \in unsaved \cup cut
Arrived(p) == flash[p] = "new" \/ p \in cut
Merges(k) == Items[k].kind = "nv" => nvBuf = "cal" \/ Items[k].id \in unsaved \cup cut

\* What test_bsl has written when it is at a place in its loops: the images
\* before the item, and the partitions to keep before it, or all of them.
Written ==
    ctl = "dloader" =>
        /\ loop = "items" =>
              \A k \in DOMAIN Items :
                 /\ k < item /\ Items[k].kind = "image" => Arrived(Items[k].id)
                 /\ Past(item) => Merges(k)
                 /\ Past(item) /\ Keeps(Items[k]) /\ (udx710 \/ k < item) => Good(Items[k].id)
        /\ loop = "backup" => \A k \in DOMAIN Items : k < other => Merges(k)
        /\ loop = "restore" =>
              /\ udx710
              /\ \A k \in DOMAIN Items :
                    Merges(k) /\ (k > other /\ Keeps(Items[k]) => Good(Items[k].id))

\* The EC200T burns the images before it says so.
Burnt ==
    ctl = "fbf" =>
        /\ burning = "done" => \A p \in Images : flash[p] = "new"
        /\ step = "bye" => burning = "done" \/ unheard

\* Each chip has its downloader, and only dloader_main touches what is to be kept.
OwnWay ==
    /\ ctl = "dloader" => chip \in {"RG500U", "EC200U"}
    /\ ctl = "fbf" => chip = "EC200T"
    /\ ctl = "aboot" => chip = "EC200S"
    /\ chip \notin {"RG500U", "EC200U"} => \A p \in Kept : flash[p] = "cal"

\* A command of aboot, or the last part of an image, has one answer: asked for,
\* kept by the module, on its way, or in cmd_response.
Answers == {"OKAY", "DATA", "SIZE", "FAIL", "CRANE"}
Packets == Answers \cup {"empty", "INFO"}
Asks(m) == m.op \notin {"poll", "data"}
AskedAt == {i \in DOMAIN toMod : Asks(toMod[i])}
AnsweredAt == {i \in DOMAIN toHost : toHost[i] \in Answers}
Awaited == AskedAt # {} \/ AnsweredAt # {} \/ due # "none"
OneAnswer ==
    /\ \A i, j \in AskedAt : i = j
    /\ \A i, j \in AnsweredAt : i = j
    /\ AskedAt # {} => AnsweredAt = {} /\ due = "none"
    /\ AnsweredAt # {} => due = "none"
    /\ response # "none" => ~Awaited

Transfers == {"data", "dataLock", "dataWait", "dataSlice", "dataWoken"}
TalkTypes ==
    /\ toHost \in Seq(Packets) /\ due \in Answers \cup {"none"}
    /\ response \in {"none", "OKAY", "DATA", "SIZE", "FAIL"} /\ chunk \in Nat
InTurn ==
    /\ pc = "send" => ~Awaited
    /\ pc \in Transfers => Cmd.op = "download"
    /\ pc = "data" \/ (pc \in Transfers /\ chunk # Cmd.chunks) => ~Awaited /\ response = "none"
    /\ pc = "judge" => response # "none"

\* What was asked for is what the command says.
AsOrdered ==
    \A i \in AskedAt :
        /\ toMod[i].op = "flash" <=> Cmd.op = "flash"
        /\ toMod[i].op = "complete" <=> Cmd.op = "complete"
        /\ toMod[i].img = Cmd.img

\* The image has been programmed, will be, or the module knows that it could not.
Taken(img) == (\E i \in DOMAIN background : background[i] = img) \/ flash[img] = "new" \/ bad
AllTaken == background = <<>> /\ ~bad

\* What an answer stands for.
Positive == {"OKAY", "CRANE"}
Said ==
    \/ \E i \in DOMAIN toHost : toHost[i] \in Positive
    \/ due \in Positive
    \/ response = "OKAY" /\ pc # "send"
Meant ==
    Said => /\ Cmd.op = "flash" => Taken(Cmd.img)
            /\ Cmd.op = "complete" => AllTaken

\* What all the answers so far stand for.
Programmed ==
    ~unread =>
        /\ \A k \in DOMAIN Script : k < line /\ Script[k].op = "flash" => Taken(Script[k].img)
        /\ line = Len(Script) + 3 => AllTaken

Talk == OneAnswer /\ InTurn /\ AsOrdered /\ Meant /\ Programmed
Answered == ctl = "aboot" => Talk
TalkInv == OnlyImages /\ TalkTypes /\ Talk

Ended == ret = "ok" => ctl = "end"

SuccessInv ==
    /\ OwnWay /\ Written /\ Burnt
    /\ TalkTypes /\ Answered
    /\ Ended /\ SuccessComplete
-----------------------------------------------------------------------------
(* The loops of test_bsl. *)

\* The package of the chip lists what is to be kept, after one second loader.
LEMMA ItemsListed ==
    ASSUME chip \in {"RG500U", "EC200U"}
    PROVE  /\ Items \in Seq([id : STRING, kind : Kinds]) /\ Len(Items) \in Nat
           /\ DOMAIN Items = 1 .. Len(Items)
           /\ \A i \in DOMAIN Items : Items[i].kind = "image" => Items[i].id \in Images
           /\ \A i \in DOMAIN Items : Keeps(Items[i]) => Items[i].id \in Kept
           /\ \A p \in Kept : \E i \in DOMAIN Items : Keeps(Items[i]) /\ Items[i].id = p
           /\ \A p \in Images : \E i \in DOMAIN Items : Items[i].kind = "image" /\ Items[i].id = p
           /\ \A f, i \in DOMAIN Items : Items[f].kind = "fdl2" /\ Keeps(Items[i]) => i > f
           /\ \A f, i \in DOMAIN Items : Items[f].kind = "fdl2" /\ Items[i].kind = "image" => i > f
           /\ \A i, j \in DOMAIN Items :
                 Keeps(Items[i]) /\ Keeps(Items[j]) /\ Items[i].id = Items[j].id => i = j
           /\ \A i, j \in DOMAIN Items : Items[i].kind = "nv" /\ Items[j].kind = "nv" => i = j
           /\ \E f \in DOMAIN Items : Items[f].kind = "fdl2"
<1>1. Listed(Items)
  BY SchemeAssumption DEF Items
<1>2. Items \in Seq([id : STRING, kind : Kinds])
  BY <1>1 DEF Listed
<1>3. Len(Items) \in Nat /\ DOMAIN Items = 1 .. Len(Items)
  BY <1>2
<1> QED
  BY <1>1, <1>2, <1>3 DEF Listed

\* When the loop of the backups has been through all items, all is saved.
LEMMA BackupsCover ==
    ASSUME chip \in {"RG500U", "EC200U"}, AtSecond,
           other \in item .. Len(Items) + 1, other > Len(Items), SavedUpTo(other - 1)
    PROVE  AllSaved
<1> SUFFICES ASSUME NEW p \in Kept PROVE Saved(p)
  BY DEF AllSaved
<1>1. PICK i \in DOMAIN Items : Keeps(Items[i]) /\ Items[i].id = p
  BY ItemsListed
<1>2. i > item /\ i \in 1 .. Len(Items)
  BY <1>1, ItemsListed DEF AtSecond
<1>3. i \in item .. other - 1
  BY <1>2, ItemsListed DEF AtSecond
<1> QED
  BY <1>1, <1>3 DEF SavedUpTo

\* A step that leaves the files alone, and in the flash what is to be kept.
LEMMA ContentsLeft ==
    ASSUME IInv, flash' \in [Parts -> Contents], \A p \in Kept : flash'[p] = flash[p],
           UNCHANGED <<file, nvBuf, unsaved>>
    PROVE  Holdings' /\ CalibrationKept'
BY DEF IInv, Holdings, CalibrationKept

\* A step that leaves the loops and the files alone, or with which they end.
LEMMA PlaceLeft ==
    ASSUME InOrder,
           ctl' = "dloader" => ctl = "dloader" /\ UNCHANGED <<chip, loopVars, file, unsaved>>
    PROVE  InOrder'
<1> SUFFICES ASSUME ctl' = "dloader" PROVE InOrder'
  BY DEF InOrder
<1>1. ctl = "dloader" /\ UNCHANGED <<chip, loopVars, file, unsaved>>
  OBVIOUS
<1> QED
  BY <1>1 DEF InOrder, AllSaved, SavedUpTo, Saved, Past, AtSecond, Items

\* A command, or one of those that follow: if it is to flash, it names an image.
LEMMA CommandsFlashImages ==
    ASSUME line \in 1 .. Len(Script) + 3
    PROVE  /\ Cmd.op \in Commands /\ Cmd.img \in Images \cup {"none"}
           /\ Cmd.op = "flash" => Cmd.img \in Images
<1>1. Len(Script) \in Nat /\ DOMAIN Script = 1 .. Len(Script)
  BY AbootAssumption
<1>2. CASE ~InTail
  <2>1. line \in DOMAIN Script /\ Cmd = Script[line]
    BY <1>1, <1>2 DEF InTail, Cmd
  <2>2. Script[line] \in [op : {"getvar", "call", "nop", "download", "flash"},
                          img : Images \cup {"none"}, chunks : Nat]
    <3> DEFINE R == [op : {"getvar", "call", "nop", "download", "flash"},
                     img : Images \cup {"none"}, chunks : Nat]
    <3>1. Script \in Seq(R)
      BY AbootAssumption
    <3> HIDE DEF R
    <3>2. Script[line] \in R
      BY <3>1, <2>1, <1>1
    <3> QED
      BY <3>2 DEF R
  <2>3. Script[line].op = "flash" => Script[line].img \in Images
    BY <2>1, AbootAssumption
  <2> QED
    BY <2>1, <2>2, <2>3 DEF Commands
<1>3. CASE InTail
  <2>1. line - Len(Script) \in 1 .. 3
    BY <1>1, <1>3 DEF InTail
  <2>2. Endings[line - Len(Script)] \in {"reboot", "complete", "disconnect"}
    BY <2>1 DEF Endings
  <2> QED
    BY <1>3, <2>2 DEF Cmd, Commands
<1> QED
  BY <1>2, <1>3
-----------------------------------------------------------------------------
(* What a step of test_bsl does to the place in its loops. *)

\* The loop of the items goes on after an item that is not the second loader,
\* or after the loops within it, when all has been saved.
LEMMA NextItemInOrder ==
    ASSUME InOrder, ctl = "dloader", item \in 1 .. Len(Items),
           UNCHANGED <<chip, file, unsaved>>, NextItem,
           AllSaved \/ (loop = "items" /\ Items[item].kind # "fdl2")
    PROVE  InOrder'
<1>1. chip \in {"RG500U", "EC200U"} /\ Items' = Items /\ AllSaved' = AllSaved
  BY DEF InOrder, Items, AllSaved, Saved
<1>2. Len(Items) \in Nat
  BY <1>1, ItemsListed
<1>3. item' = item + 1 /\ loop' = "items"
  BY DEF NextItem
<1>4. ASSUME Past(item)' PROVE AllSaved
  <2>1. PICK f \in 1 .. item : Items[f].kind = "fdl2"
    BY <1>1, <1>2, <1>3, <1>4 DEF Past
  <2>2. CASE f = item
    BY <2>1, <2>2
  <2>3. CASE f # item
    BY <2>1, <2>3, <1>2 DEF InOrder, Past
  <2> QED
    BY <2>2, <2>3
<1> QED
  BY <1>1, <1>2, <1>3, <1>4 DEF InOrder

\* A loop goes on after what it has not to save.
LEMMA OnwardInOrder ==
    ASSUME InOrder, ctl = "dloader", UNCHANGED <<chip, file, unsaved>>, Onward,
           \/ loop = "items" /\ item \in 1 .. Len(Items) /\ Items[item].kind # "fdl2"
           \/ loop = "backup" /\ other <= Len(Items) /\ ~Keeps(Items[other])
           \/ loop = "restore" /\ other > item
    PROVE  InOrder'
<1>1. chip \in {"RG500U", "EC200U"} /\ Items' = Items /\ AllSaved' = AllSaved
  BY DEF InOrder, Items, AllSaved, Saved
<1>2. Len(Items) \in Nat
  BY <1>1, ItemsListed
<1>3. CASE loop = "items"
  BY <1>3, NextItemInOrder DEF Onward
<1>4. CASE loop = "backup"
  <2>1. NextOther(other + 1)
    BY <1>4 DEF Onward
  <2>2. /\ AtSecond /\ item \in 1 .. Len(Items) /\ other \in item .. Len(Items)
        /\ SavedUpTo(other - 1) /\ ~Keeps(Items[other])
    BY <1>1, <1>2, <1>4, ItemsListed DEF InOrder, AtSecond
  <2>3. other' = other + 1 /\ UNCHANGED <<ctl, loop, item>>
    BY <2>1 DEF NextOther, Stay
  <2>4. SavedUpTo(other - 1)'
    <3> SUFFICES ASSUME NEW k \in item .. other, Keeps(Items[k]) PROVE Saved(Items[k].id)'
      BY <1>1, <1>2, <2>2, <2>3 DEF SavedUpTo
    <3>1. k \in item .. other - 1
      BY <1>2, <2>2
    <3> QED
      BY <1>1, <3>1, <2>2 DEF SavedUpTo, Saved
  <2> QED
    BY <1>1, <1>2, <1>4, <2>2, <2>3, <2>4 DEF InOrder, AtSecond
<1>5. CASE loop = "restore"
  <2>1. NextOther(other - 1)
    BY <1>5 DEF Onward
  <2>2. /\ AtSecond /\ item \in 1 .. Len(Items) /\ other \in item + 1 .. Len(Items) /\ AllSaved
    BY <1>1, <1>2, <1>5, ItemsListed DEF InOrder, AtSecond
  <2>3. other' = other - 1 /\ UNCHANGED <<ctl, loop, item>>
    BY <2>1 DEF NextOther, Stay
  <2> QED
    BY <1>1, <1>2, <1>5, <2>2, <2>3 DEF InOrder, AtSecond
<1> QED
  BY <1>3, <1>4, <1>5

\* A partition that is saved anew leaves what was saved so, and one that could
\* not be saved is still in the module, if it was there.
LEMMA BackupSaves ==
    ASSUME IInv, NEW p \in Kept, Copy(p) \/ CopyFails(p), UNCHANGED flash
    PROVE  /\ file' \in [Kept -> Contents] /\ unsaved' \subseteq Kept /\ CalibrationKept'
           /\ \A q \in Kept \ {p} : (Saved(q)' <=> Saved(q)) /\ (q \in unsaved' <=> q \in unsaved)
           /\ Copy(p) => file'[p] = "cal" \/ p \in unsaved'
<1>1. /\ file \in [Kept -> Contents] /\ unsaved \subseteq Kept /\ CalibrationKept
      /\ flash[p] \in Contents /\ "some" \in Contents
  BY DEF IInv, Holdings, Parts, Contents
<1>2. CASE UNCHANGED <<file, unsaved>> /\ ~Copy(p)
  BY <1>1, <1>2 DEF CalibrationKept, Saved
<1>3. CASE Copy(p) \/ ~UNCHANGED <<file, unsaved>>
  <2>1. PICK c \in Contents : file' = [file EXCEPT ![p] = c]
    BY <1>1, <1>3 DEF Copy, CopyFails
  <2>2. file'[p] = c /\ file' \in [Kept -> Contents] /\ \A q \in Kept \ {p} : file'[q] = file[q]
    BY <1>1, <2>1
  <2>3. /\ unsaved' \subseteq Kept /\ (Copy(p) => c = "cal" \/ p \in unsaved')
        /\ \A q \in Kept \ {p} : q \in unsaved' <=> q \in unsaved
        /\ flash[p] = "cal" \/ c = "cal" \/ p \in unsaved'
    <3>1. CASE Copy(p)
      <4>1. PICK d \in {flash[p], "some"} :
               /\ file' = [file EXCEPT ![p] = d]
               /\ unsaved' = IF d = "cal" THEN unsaved \ {p} ELSE unsaved \cup {p}
        BY <3>1 DEF Copy
      <4>2. d = c
        BY <1>1, <2>2, <4>1
      <4> QED
        BY <1>1, <4>1, <4>2
    <3>2. CASE ~Copy(p)
      <4>1. unsaved' = IF flash[p] = "cal" THEN unsaved ELSE unsaved \cup {p}
        BY <1>3, <3>2 DEF CopyFails
      <4> QED
        BY <1>1, <3>2, <4>1
    <3> QED
      BY <3>1, <3>2
  <2> QED
    BY <1>1, <2>2, <2>3 DEF CalibrationKept, Saved
<1> QED
  BY <1>2, <1>3

\* What is written after all has been saved can be lost without harm.
LEMMA WrittenWhenSaved ==
    ASSUME IInv, AllSaved, flash' \in [Parts -> Contents], UNCHANGED <<file, nvBuf, unsaved>>
    PROVE  Holdings' /\ CalibrationKept'
BY DEF IInv, Holdings, AllSaved, Saved, CalibrationKept
-----------------------------------------------------------------------------
(* The steps. *)

\* The item whose turn it is.
LEMMA ThisItem ==
    ASSUME IInv, ctl = "dloader", Turn(loop)
    PROVE  /\ chip \in {"RG500U", "EC200U"} /\ Len(Items) \in Nat
           /\ loop = "items" => item \in 1 .. Len(Items) /\ This = Items[item]
           /\ loop \in {"backup", "restore"} =>
                 /\ other \in item .. Len(Items) /\ other \in DOMAIN Items
                 /\ item \in 1 .. Len(Items) /\ AtSecond /\ This = Items[other]
           /\ Keeps(This) => This.id \in Kept
           /\ This.kind = "image" => This.id \in Images
<1>1. InOrder
  BY DEF IInv
<1>2. chip \in {"RG500U", "EC200U"}
  BY <1>1 DEF InOrder
<1>3. loop \in {"items", "backup", "restore"}
  BY <1>1 DEF InOrder
<1>4. CASE loop = "items"
  BY <1>1, <1>2, <1>4, ItemsListed DEF InOrder, Turn, This
<1>5. CASE loop \in {"backup", "restore"}
  <2>1. other \in item .. Len(Items) + 1 /\ AtSecond
    BY <1>1, <1>2, <1>5, ItemsListed DEF InOrder
  <2>2. item \in 1 .. Len(Items) /\ Len(Items) \in Nat
    BY <1>2, <2>1, ItemsListed DEF AtSecond
  <2>3. other <= Len(Items)
    BY <1>1, <1>5, <2>2 DEF InOrder, Turn
  <2>4. other \in item .. Len(Items) /\ other \in DOMAIN Items /\ This = Items[other]
    BY <1>2, <1>5, <2>1, <2>2, <2>3, ItemsListed DEF This
  <2> QED
    BY <1>2, <1>5, <2>1, <2>2, <2>4, ItemsListed
<1> QED
  BY <1>3, <1>4, <1>5

LEMMA LoadKeeps ==
    ASSUME IInv, Load
    PROVE  Holdings' /\ InOrder' /\ CalibrationKept'
<1>1. Holdings' /\ CalibrationKept'
  BY ContentsLeft DEF Load, IInv, Holdings
<1>2. ctl = "dloader" /\ loop = "items" /\ InOrder
  BY DEF Load, Turn, InLoop, IInv
<1>3. item \in 1 .. Len(Items) /\ This = Items[item] /\ chip \in {"RG500U", "EC200U"}
  BY <1>2, ThisItem DEF Load
<1>4. CASE Works("dloader") /\ Loaded /\ This.kind = "fdl2"
  <2>1. loop' = "backup" /\ other' = item /\ UNCHANGED <<chip, ctl, item>>
    BY <1>4 DEF Load, Loaded, Enter, Stay
  <2>2. item \in DOMAIN Items /\ Items[item].kind = "fdl2" /\ Len(Items) \in Nat
    BY <1>3, <1>4, ItemsListed
  <2> QED
    BY <1>1, <1>3, <2>1, <2>2 DEF InOrder, AtSecond, SavedUpTo, Items
<1>5. CASE Works("dloader") /\ Loaded /\ This.kind # "fdl2"
  BY <1>1, <1>2, <1>3, <1>5, NextItemInOrder DEF Load, Loaded
<1>6. CASE GivesUp("dloader")
  BY <1>1, <1>2, <1>6, PlaceLeft DEF GivesUp, Return
<1> QED
  BY <1>4, <1>5, <1>6 DEF Load

LEMMA BackupKeeps ==
    ASSUME IInv, Backup
    PROVE  Holdings' /\ InOrder' /\ CalibrationKept'
<1>1. ctl = "dloader" /\ loop = "backup" /\ Turn(loop) /\ Keeps(This) /\ UNCHANGED <<chip, flash>>
  BY DEF Backup, Turn, InLoop
<1>2. /\ chip \in {"RG500U", "EC200U"} /\ Len(Items) \in Nat /\ This = Items[other]
      /\ other \in item .. Len(Items) /\ item \in 1 .. Len(Items) /\ AtSecond /\ This.id \in Kept
  BY <1>1, ThisItem
<1>3. InOrder /\ SavedUpTo(other - 1)
  BY <1>1 DEF IInv, InOrder
<1>4. flash[This.id] \in Contents /\ flash \in [Parts -> Contents] /\ nvBuf \in Contents
  BY <1>2 DEF IInv, Holdings, Parts
<1> PICK p \in Kept : p = This.id
  BY <1>2
<1>5. Copy(p) \/ CopyFails(p)
  BY DEF Backup
<1>6. /\ file' \in [Kept -> Contents] /\ unsaved' \subseteq Kept /\ CalibrationKept'
      /\ \A q \in Kept \ {p} : Saved(q)' <=> Saved(q)
      /\ Copy(p) => Saved(p)'
  BY <1>1, <1>5, BackupSaves DEF Saved
<1>7. nvBuf' \in Contents
  BY <1>4 DEF Backup, Merged, Contents
<1>8. InOrder'
  <2>1. CASE GivesUp("dloader")
    BY <2>1 DEF GivesUp, Return, InOrder
  <2>2. CASE ~GivesUp("dloader")
    <3>1. Copy(p) /\ Onward
      BY <2>2 DEF Backup
    <3>2. loop' = loop /\ item' = item /\ ctl' = ctl /\ other' = other + 1 /\ Items' = Items
      BY <1>1, <3>1 DEF Onward, NextOther, Stay, Items
    <3>3. SavedUpTo(other - 1)'
      <4> SUFFICES ASSUME NEW k \in item .. other, Keeps(Items[k]) PROVE Saved(Items[k].id)'
        BY <1>2, <3>2 DEF SavedUpTo
      <4>1. CASE Items[k].id = p
        BY <1>6, <3>1, <3>2, <4>1 DEF Saved
      <4>2. CASE Items[k].id # p
        <5>1. k # other /\ k \in item .. other - 1
          BY <1>2, <4>2
        <5>2. Items[k].id \in Kept /\ Saved(Items[k].id)
          BY <1>2, <1>3, <5>1, ItemsListed DEF SavedUpTo
        <5> QED
          BY <1>6, <4>2, <5>2, <3>2 DEF Saved
      <4> QED
        BY <4>1, <4>2
    <3> QED
      BY <1>1, <1>2, <3>2, <3>3 DEF InOrder, AtSecond
  <2> QED
    BY <2>1, <2>2
<1> QED
  BY <1>1, <1>4, <1>6, <1>7, <1>8 DEF Holdings

LEMMA BackupEndsKeeps ==
    ASSUME IInv, BackupEnds
    PROVE  Holdings' /\ InOrder' /\ CalibrationKept'
<1>1. /\ ctl = "dloader" /\ loop = "backup" /\ InOrder /\ other > Len(Items)
      /\ UNCHANGED <<chip, file, nvBuf, unsaved>>
  BY DEF BackupEnds, InLoop, IInv
<1>2. chip \in {"RG500U", "EC200U"} /\ AtSecond /\ other \in item .. Len(Items) + 1 /\ SavedUpTo(other - 1)
  BY <1>1 DEF InOrder
<1>3. AllSaved
  BY <1>1, <1>2, BackupsCover
<1>4. item \in 1 .. Len(Items) /\ Len(Items) \in Nat
  BY <1>2, ItemsListed DEF AtSecond
<1>5. flash \in [Parts -> Contents] /\ "blank" \in Contents
  BY DEF IInv, Holdings, Contents
<1>6. flash' \in [Parts -> Contents]
  BY <1>5 DEF BackupEnds
<1>7. Holdings' /\ CalibrationKept'
  BY <1>1, <1>3, <1>6, WrittenWhenSaved
<1>8. InOrder'
  <2>1. CASE Enter("restore", other - 1)
    BY <1>1, <1>2, <1>3, <1>4, <2>1 DEF Enter, Stay, InOrder, AtSecond, AllSaved, Saved, Items
  <2>2. CASE GivesUp("dloader")
    BY <2>2 DEF GivesUp, Return, InOrder
  <2>3. CASE NextItem
    BY <1>1, <1>3, <1>4, <2>3, NextItemInOrder
  <2> QED
    BY <2>1, <2>2, <2>3 DEF BackupEnds
<1> QED
  BY <1>7, <1>8

\* bsl_flash_id may write what is to be kept when all of it has been saved, and
\* images at any time.
LEMMA FlashKeeps ==
    ASSUME IInv, ctl = "dloader", Turn(loop), NEW c \in Contents, Flash(c),
           \/ AllSaved /\ Keeps(This)
           \/ This.kind = "image",
           loop \in {"items", "restore"}
    PROVE  Holdings' /\ InOrder' /\ CalibrationKept'
<1>1. InOrder /\ UNCHANGED <<chip, file, nvBuf, unsaved>>
  BY DEF IInv, Flash
<1>2. flash \in [Parts -> Contents] /\ "some" \in Contents
  BY DEF IInv, Holdings, Contents
<1>3. This.id \in Parts /\ (This.kind = "image" => This.id \in Images)
  BY ThisItem DEF Parts
<1>4. PICK h \in Contents : flash' = [flash EXCEPT ![This.id] = h]
  <2>1. Halfway(This.id, c) \subseteq Contents /\ Sent(This, c) \subseteq Contents
    <3>1. Halfway(This.id, c) \subseteq Contents /\ flash[This.id] \in Contents /\ "plain" \in Contents
      BY <1>2, <1>3 DEF Halfway, Contents
    <3>2. This.kind \in {"nv", "image", "keep", "trim"}
      BY DEF Keeps
    <3> QED
      BY <1>2, <3>1, <3>2 DEF Sent
  <2> QED
    BY <2>1 DEF Flash
<1>5. flash' \in [Parts -> Contents]
  BY <1>2, <1>4
<1>6. Holdings' /\ CalibrationKept'
  <2>1. CASE AllSaved
    BY <1>1, <1>5, <2>1, WrittenWhenSaved
  <2>2. CASE This.kind = "image"
    <3>1. \A p \in Kept : flash'[p] = flash[p]
      BY <1>2, <1>3, <1>4, <2>2, PartsAssumption DEF Parts
    <3> QED
      BY <1>1, <1>5, <3>1, ContentsLeft
  <2> QED
    BY <2>1, <2>2
<1>7. InOrder'
  <2>1. CASE GivesUp("dloader")
    BY <2>1 DEF GivesUp, Return, InOrder
  <2>2. CASE Onward
    <3>1. CASE loop = "items"
      <4>1. item \in 1 .. Len(Items) /\ Items[item].kind # "fdl2"
        BY <3>1, ThisItem DEF Keeps
      <4> QED
        BY <1>1, <2>2, <3>1, <4>1, OnwardInOrder
    <3>2. CASE loop = "restore"
      BY <1>1, <2>2, <3>2, OnwardInOrder DEF Turn
    <3> QED
      BY <3>1, <3>2
  <2> QED
    BY <2>1, <2>2 DEF Flash
<1> QED
  BY <1>6, <1>7

LEMMA RestoreKeeps ==
    ASSUME IInv, Restore
    PROVE  Holdings' /\ InOrder' /\ CalibrationKept'
<1>1. ctl = "dloader" /\ Turn(loop) /\ loop \in {"items", "restore"} /\ Keeps(This) /\ InOrder
  BY DEF Restore, Turn, InLoop, IInv
<1>2. This.id \in Kept /\ chip \in {"RG500U", "EC200U"}
  BY <1>1, ThisItem
<1>3. (IF This.kind = "nv" THEN nvBuf ELSE file[This.id]) \in Contents
  BY <1>2 DEF IInv, Holdings
<1>4. AllSaved
  <2>1. CASE loop = "restore"
    BY <1>1, <2>1 DEF InOrder
  <2>2. CASE loop = "items"
    <3>1. item \in 1 .. Len(Items) /\ Keeps(Items[item]) /\ item \in DOMAIN Items /\ Len(Items) \in Nat
      BY <1>1, <1>2, <2>2, ThisItem, ItemsListed
    <3>2. PICK f \in DOMAIN Items : Items[f].kind = "fdl2"
      BY <1>2, ItemsListed
    <3>3. f \in 1 .. item - 1
      BY <1>2, <3>1, <3>2, ItemsListed
    <3>4. Past(item)
      BY <3>2, <3>3 DEF Past
    <3> QED
      BY <1>1, <2>2, <3>4 DEF InOrder
  <2> QED
    BY <1>1, <2>1, <2>2
<1> QED
  BY <1>1, <1>3, <1>4, FlashKeeps DEF Restore

LEMMA WriteImageKeeps ==
    ASSUME IInv, WriteImage
    PROVE  Holdings' /\ InOrder' /\ CalibrationKept'
<1>1. ctl = "dloader" /\ Turn(loop) /\ loop = "items" /\ This.kind = "image" /\ Flash("new")
  BY DEF WriteImage, Turn, InLoop
<1>2. "new" \in Contents
  BY DEF Contents
<1> QED
  BY <1>1, <1>2, FlashKeeps

\* The steps that write nothing.
LEMMA QuietStepKeeps ==
    ASSUME IInv, RestoreEnds \/ Erase \/ Pass \/ NormalReset
    PROVE  Holdings' /\ InOrder' /\ CalibrationKept'
<1>1. /\ ctl = "dloader" /\ InOrder /\ UNCHANGED <<chip, flash, file, nvBuf, unsaved>>
  BY DEF RestoreEnds, Erase, Pass, NormalReset, Turn, InLoop, IInv
<1>2. Holdings' /\ CalibrationKept'
  BY <1>1, ContentsLeft DEF IInv, Holdings
<1>3. CASE RestoreEnds
  <2>1. AtSecond /\ AllSaved /\ chip \in {"RG500U", "EC200U"}
    BY <1>1, <1>3 DEF RestoreEnds, InLoop, InOrder
  <2>2. item \in 1 .. Len(Items)
    BY <2>1, ItemsListed DEF AtSecond
  <2> QED
    BY <1>1, <1>2, <1>3, <2>1, <2>2, NextItemInOrder DEF RestoreEnds
<1>4. CASE Erase
  <2>1. loop = "items" /\ item \in 1 .. Len(Items) /\ Items[item].kind # "fdl2"
    BY <1>1, <1>4, ThisItem DEF Erase, Turn, InLoop
  <2>2. CASE NextItem
    BY <1>1, <1>2, <2>1, <2>2, NextItemInOrder
  <2>3. CASE GivesUp("dloader")
    BY <1>2, <2>3 DEF GivesUp, Return, InOrder
  <2> QED
    BY <1>4, <2>2, <2>3 DEF Erase
<1>5. CASE Pass
  <2>1. CASE loop = "items"
    <3>1. item \in 1 .. Len(Items) /\ Items[item].kind # "fdl2"
      BY <1>1, <1>5, <2>1, ThisItem DEF Pass, Turn, InLoop, Keeps
    <3> QED
      BY <1>1, <1>2, <1>5, <2>1, <3>1, OnwardInOrder DEF Pass
  <2>2. CASE loop # "items"
    <3>1. loop \in {"backup", "restore"} /\ Turn(loop) /\ ~Keeps(This)
      BY <1>5, <2>2 DEF Pass, Turn, InLoop
    <3>2. other <= Len(Items) /\ This = Items[other] /\ (loop = "restore" => other > item)
      BY <1>1, <3>1, ThisItem DEF Turn
    <3> QED
      BY <1>1, <1>2, <1>5, <3>1, <3>2, OnwardInOrder DEF Pass
  <2> QED
    BY <2>1, <2>2
<1>6. CASE NormalReset
  BY <1>2, <1>6 DEF NormalReset, GivesUp, Return, InOrder
<1> QED
  BY <1>3, <1>4, <1>5, <1>6, <1>2

\* A step of the tool for the RG500U and the EC200U.
LEMMA BslKeeps ==
    ASSUME IInv, BslNext
    PROVE  Holdings' /\ InOrder' /\ CalibrationKept'
BY LoadKeeps, BackupKeeps, BackupEndsKeeps, RestoreKeeps, WriteImageKeeps, QuietStepKeeps DEF BslNext

\* What is written to the modem are orders of the commands, or of none.
LEMMA PutsOrders ==
    ASSUME OnlyImages, NEW o \in Commands, NEW i \in Images \cup {"none"},
           o = "flash" => i \in Images, Put([op |-> o, img |-> i])
    PROVE  toMod' \in Seq(Orders)
<1>1. [op |-> o, img |-> i] \in Orders
  BY DEF Orders
<1>2. toMod \in Seq(Orders)
  BY DEF OnlyImages
<1> DEFINE m == [op |-> o, img |-> i]
<1>3. m \in Orders /\ toMod' = Append(toMod, m)
  BY <1>1 DEF Put
<1> HIDE DEF m
<1> QED
  BY <1>2, <1>3

\* The main thread of aboot.
LEMMA AbootMainKeeps ==
    ASSUME OnlyImages, AbootMain
    PROVE  /\ OnlyImages' /\ UNCHANGED <<chip, flash>>
           /\ ctl' = "dloader" => ctl = "dloader"
<1>1. Len(Script) \in Nat /\ line \in 1 .. Len(Script) + 3 /\ Len(Endings) = 3
  BY AbootAssumption DEF OnlyImages, Endings
<1>2. /\ Cmd.op \in Commands /\ Cmd.img \in Images \cup {"none"}
      /\ Cmd.op = "flash" => Cmd.img \in Images
  BY <1>1, CommandsFlashImages
<1>3. UNCHANGED <<chip, flash, background>> /\ (ctl' = "dloader" => ctl = "dloader")
  BY DEF AbootMain, Send, Check, SliceEnds, NextSlice, Woken, Judge, SendChunk, WaitForAck, Acked,
         Collect, Goto, Fail, Ask, Following, NextChunk, Return, Stay
<1>4. line' \in 1 .. Len(Script) + 3
  <2>1. line' \in {line, Len(Script) + 1} \/ Following
    BY DEF AbootMain, Send, Check, SliceEnds, NextSlice, Woken, Judge, SendChunk, WaitForAck, Acked,
           Collect
  <2>2. ASSUME Following PROVE line' = line \/ (line # Len(Script) + 3 /\ line' = line + 1)
    BY <1>1, <2>2 DEF Following
  <2> QED
    BY <1>1, <2>1, <2>2
<1>5. toMod' \in Seq(Orders)
  <2>1. toMod \in Seq(Orders)
    BY DEF OnlyImages
  <2>2. CASE UNCHANGED toMod
    BY <2>1, <2>2
  <2>3. CASE Put([op |-> Op, img |-> Cmd.img])
    <3>1. Op \in Commands /\ (Op = "flash" => Cmd.img \in Images)
      BY <1>2 DEF Op, Commands
    <3> QED
      BY <1>2, <2>3, <3>1, PutsOrders
  <2>4. CASE Put([op |-> "poll", img |-> "none"])
    <3>1. "poll" \in Commands
      BY DEF Commands
    <3> QED
      BY <2>4, <3>1, PutsOrders
  <2>5. CASE Put([op |-> IF chunk = Cmd.chunks THEN "last" ELSE "data", img |-> Cmd.img])
    <3>1. /\ (IF chunk = Cmd.chunks THEN "last" ELSE "data") \in Commands
          /\ (IF chunk = Cmd.chunks THEN "last" ELSE "data") # "flash"
      BY DEF Commands
    <3> QED
      BY <1>2, <2>5, <3>1, PutsOrders
  <2> QED
    BY <2>2, <2>3, <2>4, <2>5
       DEF AbootMain, Send, Check, SliceEnds, NextSlice, Woken, Judge, SendChunk, WaitForAck, Acked,
           Collect, Ask
<1> QED
  BY <1>3, <1>4, <1>5 DEF OnlyImages

\* The module behind aboot programs what it was told to flash: images.
LEMMA AbootModuleKeeps ==
    ASSUME OnlyImages, AbootModule, flash \in [Parts -> Contents]
    PROVE  /\ OnlyImages' /\ UNCHANGED <<chip, ctl>>
           /\ flash' \in [Parts -> Contents] /\ \A p \in Kept : flash'[p] = flash[p]
<1>1. toMod \in Seq(Orders) /\ background \in Seq(Images) /\ line \in 1 .. Len(Script) + 3
  BY DEF OnlyImages
<1>2. UNCHANGED <<chip, ctl, line>>
  BY DEF AbootModule, ModuleObeys, ModuleRefuses, ModuleReceives, ModuleProgrammes, ModuleCompletes,
         ModuleIsAsked, ModuleReports, External
<1>3. toMod' \in {toMod, Tail(toMod)} /\ (toMod' = Tail(toMod) => toMod # <<>> \/ toMod' = toMod)
  BY DEF AbootModule, ModuleObeys, ModuleRefuses, ModuleReceives, ModuleProgrammes, ModuleCompletes,
         ModuleIsAsked, ModuleReports, TakesIt, Takes
<1>4. toMod' \in Seq(Orders)
  BY <1>1, <1>3
<1>5. CASE ModuleObeys
  <2>1. UNCHANGED flash /\ toMod # <<>> /\ Head(toMod) \in Orders
    BY <1>1, <1>5 DEF ModuleObeys, Takes
  <2>2. background' \in Seq(Images)
    <3>1. CASE Head(toMod).op = "flash"
      <4>1. Head(toMod).img \in Images /\ background' = Append(background, Head(toMod).img)
        BY <1>5, <2>1, <3>1 DEF ModuleObeys, Orders
      <4> QED
        BY <1>1, <4>1
    <3>2. CASE Head(toMod).op # "flash"
      BY <1>1, <1>5, <3>2 DEF ModuleObeys
    <3> QED
      BY <3>1, <3>2
  <2> QED
    BY <1>1, <1>2, <1>4, <2>1, <2>2 DEF OnlyImages
<1>6. CASE ModuleProgrammes
  <2>1. background # <<>> /\ background' = Tail(background) /\ Head(background) \in Images
    BY <1>1, <1>6 DEF ModuleProgrammes
  <2>2. background' \in Seq(Images)
    BY <1>1, <2>1
  <2>3. PICK h \in Contents : flash' = [flash EXCEPT ![Head(background)] = h]
    BY <1>6 DEF ModuleProgrammes, Contents
  <2>4. flash' \in [Parts -> Contents] /\ \A p \in Kept : flash'[p] = flash[p]
    BY <2>1, <2>3, PartsAssumption DEF Parts
  <2> QED
    BY <1>1, <1>2, <1>4, <2>2, <2>4 DEF OnlyImages
<1>7. CASE ModuleRefuses \/ ModuleReceives \/ ModuleCompletes \/ ModuleIsAsked \/ ModuleReports
  <2>1. UNCHANGED <<flash, background>>
    BY <1>7 DEF ModuleRefuses, ModuleReceives, ModuleCompletes, ModuleIsAsked, ModuleReports
  <2> QED
    BY <1>1, <1>2, <1>4, <2>1 DEF OnlyImages
<1> QED
  BY <1>5, <1>6, <1>7 DEF AbootModule

LEMMA StepKeeps ==
    ASSUME IInv, [Next]_vars
    PROVE  IInv'
<1>1. Holdings /\ InOrder /\ OnlyImages /\ CalibrationKept /\ flash \in [Parts -> Contents]
  BY DEF IInv, Holdings
<1>2. ASSUME BslNext, UNCHANGED abootVars PROVE IInv'
  BY <1>1, <1>2, BslKeeps DEF IInv, OnlyImages
<1>3. ASSUME UNCHANGED <<bslVars, chip>>, OnlyImages', ctl' = "dloader" => ctl = "dloader",
             flash' \in [Parts -> Contents], \A p \in Kept : flash'[p] = flash[p]
      PROVE  IInv'
  BY <1>1, <1>3, ContentsLeft, PlaceLeft DEF IInv
<1>4. CASE AbootMain /\ UNCHANGED <<bslVars, fbfVars, mainVars>>
  BY <1>1, <1>3, <1>4, AbootMainKeeps
<1>5. CASE AbootModule /\ UNCHANGED <<bslVars, fbfVars, mainVars>>
  BY <1>1, <1>3, <1>5, AbootModuleKeeps
<1>6. CASE FbfMain /\ UNCHANGED <<bslVars, abootVars, mainVars>>
  <2>1. UNCHANGED <<chip, flash>> /\ (ctl' = "dloader" => ctl = "dloader")
    BY <1>6 DEF FbfMain, Greet, Select, Header, SpinEnds, SendFile, Message, Bye, On, Stay, GivesUp, Return
  <2> QED
    BY <1>1, <1>3, <1>6, <2>1 DEF OnlyImages
<1>7. CASE ModuleBurns /\ UNCHANGED <<bslVars, abootVars, mainVars>>
  <2>1. flash' \in [Parts -> Contents] /\ \A p \in Kept : flash'[p] = flash[p]
    BY <1>1, <1>7, PartsAssumption DEF ModuleBurns, Parts, Contents
  <2> QED
    BY <1>1, <1>3, <1>7, <2>1 DEF OnlyImages, ModuleBurns
<1>8. CASE Rx /\ UNCHANGED <<bslVars, fbfVars, mainVars>>
  BY <1>1, <1>3, <1>8 DEF Rx, OnlyImages
<1>9. CASE Found
  <2>1. UNCHANGED <<chip, flash>>
    BY <1>9 DEF Found
  <2>2. CASE UNCHANGED <<bslVars, abootVars>> /\ ctl' # "dloader"
    BY <1>1, <1>3, <2>1, <2>2 DEF OnlyImages
  <2>3. CASE DloaderStart /\ UNCHANGED abootVars
    <3>1. UNCHANGED <<file, unsaved>> /\ nvBuf' \in Contents
      BY <1>1, <2>3 DEF DloaderStart, Holdings, Contents
    <3>2. Holdings' /\ CalibrationKept'
      BY <1>1, <2>1, <3>1 DEF Holdings, CalibrationKept
    <3>3. OnlyImages'
      BY <1>1, <2>3 DEF OnlyImages
    <3>4. InOrder'
      <4> SUFFICES ASSUME ctl' = "dloader" PROVE InOrder'
        BY DEF InOrder
      <4>1. chip' \in {"RG500U", "EC200U"} /\ loop' = "items" /\ item' = 1 /\ Items' = Items
        BY <2>1, <2>3 DEF DloaderStart, Return, Items
      <4>2. Len(Items) \in Nat /\ ~Past(item)'
        BY <2>1, <4>1, ItemsListed DEF Past
      <4> QED
        BY <4>1, <4>2 DEF InOrder
    <3> QED
      BY <3>2, <3>3, <3>4 DEF IInv
  <2>4. CASE AbootStart /\ UNCHANGED bslVars
    <3>1. OnlyImages'
      <4>1. Len(Script) \in Nat
        BY AbootAssumption
      <4>2. CASE UNCHANGED <<line, toMod, background>>
        BY <1>1, <4>2 DEF OnlyImages
      <4>3. CASE line' = 1 /\ toMod' = <<>> /\ background' = <<>>
        BY <4>1, <4>3 DEF OnlyImages
      <4> QED
        BY <2>4, <4>2, <4>3 DEF AbootStart
    <3> QED
      BY <1>1, <1>3, <2>1, <2>4, <3>1 DEF AbootStart, Return
  <2> QED
    BY <1>9, <2>2, <2>3, <2>4 DEF Found, Dispatch, FbfStart
<1>10. CASE NotFound \/ NoModem \/ Told \/ Switched \/ OpenFails \/ Rerun \/ Appears \/ Terminated
  <2>1. UNCHANGED <<chip, flash, bslVars, abootVars>> /\ (ctl' = "dloader" => ctl = "dloader")
    BY <1>10 DEF NotFound, NoModem, Told, Switched, OpenFails, Rerun, Appears, Terminated, Return
  <2> QED
    BY <1>1, <1>3, <2>1 DEF OnlyImages
<1>11. CASE Unplugged
  BY <1>1, <1>3, <1>11 DEF Unplugged, OnlyImages
<1>12. CASE UNCHANGED vars
  BY <1>1, <1>3, <1>12 DEF OnlyImages
<1> QED
  BY <1>2, <1>4, <1>5, <1>6, <1>7, <1>8, <1>9, <1>10, <1>11, <1>12 DEF Next, Main, Reader, Module

LEMMA Begins == Init => IInv
<1> SUFFICES ASSUME Init PROVE IInv
  OBVIOUS
<1>1. Holdings
  BY DEF Init, BslInit, Holdings, Contents, Parts
<1>2. InOrder
  BY DEF Init, InOrder
<1>3. OnlyImages
  BY AbootAssumption DEF Init, AbootInit, OnlyImages
<1>4. CalibrationKept
  BY DEF Init, CalibrationKept, Parts
<1> QED
  BY <1>1, <1>2, <1>3, <1>4 DEF IInv

\* Whichever requests fail, and however often the tool is run, what the module
\* had to keep is in its flash or in the file of the host, unless a later run
\* has opened the file with the only copy, or the file was closed before the copy
\* was whole in it (test_bsl, bsl_backup_id).
THEOREM NeverLost == Spec => []CalibrationKept
<1>1. IInv => CalibrationKept
  BY DEF IInv
<1> QED
  BY Begins, StepKeeps, <1>1, PTL DEF Spec
-----------------------------------------------------------------------------
(* What test_bsl has written. *)

\* An item of the loop that is done, and no second loader.
LEMMA ItemWritten ==
    ASSUME IInv, Written, ctl = "dloader", loop = "items", item \in 1 .. Len(Items),
           Items[item].kind # "fdl2", NextItem, UNCHANGED <<chip, nvBuf, unsaved>>, cut \subseteq cut',
           \A k \in DOMAIN Items :
              /\ Items[k].kind = "image" /\ (k = item \/ Arrived(Items[k].id)) =>
                    flash'[Items[k].id] = "new" \/ Items[k].id \in cut'
              /\ Keeps(Items[k]) /\ ((k = item /\ ~udx710) \/ Good(Items[k].id)) =>
                    flash'[Items[k].id] = "cal" \/ Items[k].id \in unsaved \cup cut'
    PROVE  Written'
<1>1. chip \in {"RG500U", "EC200U"} /\ Items' = Items /\ udx710' = udx710
  BY DEF IInv, InOrder, Items, udx710
<1>2. Len(Items) \in Nat /\ DOMAIN Items = 1 .. Len(Items)
  BY <1>1, ItemsListed
<1>3. item' = item + 1 /\ loop' = "items" /\ ctl' = "dloader"
  BY DEF NextItem, Stay
<1>4. Past(item)' => Past(item)
  BY <1>1, <1>2, <1>3 DEF Past
<1> SUFFICES ASSUME NEW k \in DOMAIN Items
             PROVE  /\ k < item + 1 /\ Items[k].kind = "image" => Arrived(Items[k].id)'
                    /\ Past(item)' => Merges(k)'
                    /\ Past(item)' /\ Keeps(Items[k]) /\ (udx710 \/ k < item + 1) =>
                          Good(Items[k].id)'
  BY <1>1, <1>3 DEF Written
<1>5. k \in 1 .. Len(Items) /\ (k < item + 1 <=> k < item \/ k = item)
  BY <1>2
<1>6. /\ k < item /\ Items[k].kind = "image" => Arrived(Items[k].id)
      /\ Past(item) => Merges(k)
      /\ Past(item) /\ Keeps(Items[k]) /\ (udx710 \/ k < item) => Good(Items[k].id)
  BY DEF Written
<1>7. Merges(k) => Merges(k)'
  BY <1>1 DEF Merges
<1>8. /\ Good(Items[k].id)' <=> flash'[Items[k].id] = "cal" \/ Items[k].id \in unsaved \cup cut'
      /\ Arrived(Items[k].id)' <=> flash'[Items[k].id] = "new" \/ Items[k].id \in cut'
  BY <1>1 DEF Good, Arrived
<1> QED
  BY <1>4, <1>5, <1>6, <1>7, <1>8

\* A step that leaves the place in the loops and what is written alone.
LEMMA WrittenLeft ==
    ASSUME Written,
           ctl' = "dloader" =>
              ctl = "dloader" /\ UNCHANGED <<chip, loopVars, flash, nvBuf, unsaved, cut>>
    PROVE  Written'
<1> SUFFICES ASSUME ctl' = "dloader" PROVE Written'
  BY DEF Written
<1>1. ctl = "dloader" /\ UNCHANGED <<chip, loopVars, flash, nvBuf, unsaved, cut>>
  OBVIOUS
<1> QED
  BY <1>1 DEF Written, Past, Items, Merges, Good, Arrived, udx710

\* The place where the loop of the items goes on within the second loader.
LEMMA BeforeSecond ==
    ASSUME chip \in {"RG500U", "EC200U"}, AtSecond
    PROVE  /\ item \in 1 .. Len(Items) /\ Len(Items) \in Nat /\ DOMAIN Items = 1 .. Len(Items)
           /\ \A k \in DOMAIN Items :
                 Items[k].kind = "image" \/ Keeps(Items[k]) => k > item
           /\ Past(item + 1)
<1>1. /\ item \in 1 .. Len(Items) /\ Len(Items) \in Nat /\ DOMAIN Items = 1 .. Len(Items)
      /\ Items[item].kind = "fdl2"
  BY ItemsListed DEF AtSecond
<1>2. Past(item + 1)
  BY <1>1 DEF Past
<1> QED
  BY <1>1, <1>2, ItemsListed

LEMMA LoadWrites ==
    ASSUME IInv, Written, Load
    PROVE  Written'
<1>1. ctl = "dloader" /\ loop = "items" /\ Turn(loop) /\ UNCHANGED <<chip, flash, nvBuf, unsaved, cut>>
  BY DEF Load, Turn, InLoop
<1>2. item \in 1 .. Len(Items) /\ This = Items[item] /\ chip \in {"RG500U", "EC200U"}
  BY <1>1, ThisItem
<1>3. CASE Works("dloader") /\ Loaded /\ This.kind = "fdl2"
  <2>1. loop' = "backup" /\ other' = item /\ UNCHANGED <<chip, ctl, item>>
    BY <1>3 DEF Load, Loaded, Enter, Stay
  <2>2. AtSecond
    BY <1>2, <1>3, ItemsListed DEF AtSecond
  <2>3. \A k \in DOMAIN Items : k < item => Items[k].kind # "nv"
    BY <1>2, <2>2, BeforeSecond DEF Keeps
  <2>4. Items' = Items
    BY <2>1 DEF Items
  <2> QED
    BY <2>1, <2>3, <2>4 DEF Written, Merges
<1>4. CASE Works("dloader") /\ Loaded /\ This.kind # "fdl2"
  <2>1. NextItem /\ This.kind = "loader"
    BY <1>4 DEF Load, Loaded
  <2>2. Items[item].kind # "fdl2" /\ Items[item].kind # "image" /\ ~Keeps(Items[item])
    BY <1>2, <2>1 DEF Keeps
  <2> QED
    BY <1>1, <1>2, <2>1, <2>2, ItemWritten DEF Good, Arrived
<1>5. CASE GivesUp("dloader")
  BY <1>5, WrittenLeft DEF GivesUp, Return
<1> QED
  BY <1>3, <1>4, <1>5 DEF Load

LEMMA BackupWrites ==
    ASSUME IInv, Written, Backup
    PROVE  Written'
<1>1. ctl = "dloader" /\ loop = "backup" /\ Turn(loop) /\ Keeps(This) /\ UNCHANGED <<chip, flash>>
  BY DEF Backup, Turn, InLoop
<1>2. /\ chip \in {"RG500U", "EC200U"} /\ Len(Items) \in Nat /\ This = Items[other]
      /\ other \in DOMAIN Items /\ This.id \in Kept /\ DOMAIN Items = 1 .. Len(Items)
  BY <1>1, ThisItem, ItemsListed
<1>3. CASE ctl' = "end"
  BY <1>3 DEF Written
<1>4. CASE ctl' # "end"
  <2>1. /\ Copy(This.id) /\ Onward
        /\ This.kind = "nv" =>
              /\ nvBuf' \in Merged(file'[This.id])
              /\ cut' = cut \cup {p \in {This.id} : file'[p] = "cal" /\ nvBuf' # "cal"}
        /\ This.kind # "nv" => UNCHANGED <<nvBuf, cut>>
    BY <1>4 DEF Backup, GivesUp, Return
  <2>2. other' = other + 1 /\ UNCHANGED <<ctl, loop, item>> /\ Items' = Items
    BY <1>1, <2>1 DEF Onward, NextOther, Stay, Items
  <2>3. /\ \A q \in Kept \ {This.id} : q \in unsaved' <=> q \in unsaved
        /\ file'[This.id] = "cal" \/ This.id \in unsaved'
    BY <1>1, <1>2, <2>1, BackupSaves
  <2> SUFFICES ASSUME NEW k \in DOMAIN Items, k < other + 1, Items[k].kind = "nv"
               PROVE  nvBuf' = "cal" \/ Items[k].id \in unsaved' \cup cut'
    BY <1>1, <2>2 DEF Written, Merges
  <2>4. Keeps(Items[k]) /\ Items[k].id \in Kept /\ k \in 1 .. Len(Items) /\ other \in 1 .. Len(Items)
    BY <1>2, ItemsListed DEF Keeps
  <2>5. CASE k # other
    <3>1. k < other /\ This.kind # "nv" /\ Items[k].id # This.id
      BY <1>1, <1>2, <2>4, <2>5, ItemsListed
    <3>2. nvBuf = "cal" \/ Items[k].id \in unsaved \cup cut
      BY <1>1, <3>1 DEF Written, Merges
    <3> QED
      BY <2>1, <2>3, <2>4, <3>1, <3>2
  <2>6. CASE k = other
    BY <1>2, <2>1, <2>3, <2>6
  <2> QED
    BY <2>5, <2>6
<1> QED
  BY <1>3, <1>4

LEMMA BackupEndsWrites ==
    ASSUME IInv, Written, BackupEnds
    PROVE  Written'
<1>1. ctl = "dloader" /\ loop = "backup" /\ UNCHANGED <<chip, nvBuf, unsaved, cut>> /\ other > Len(Items)
  BY DEF BackupEnds, InLoop
<1>2. chip \in {"RG500U", "EC200U"} /\ AtSecond /\ other \in item .. Len(Items) + 1
  BY <1>1 DEF IInv, InOrder
<1>3. /\ item \in 1 .. Len(Items) /\ Len(Items) \in Nat /\ DOMAIN Items = 1 .. Len(Items)
      /\ \A k \in DOMAIN Items : Items[k].kind = "image" \/ Keeps(Items[k]) => k > item
  BY <1>2, BeforeSecond
<1>4. other = Len(Items) + 1
  BY <1>1, <1>2, <1>3
<1>5. \A k \in DOMAIN Items : Merges(k)
  BY <1>1, <1>3, <1>4 DEF Written
<1>6. Items' = Items /\ udx710' = udx710 /\ \A k \in DOMAIN Items : Merges(k)' <=> Merges(k)
  BY <1>1 DEF Items, udx710, Merges
<1>7. CASE ctl' = "end"
  BY <1>7 DEF Written
<1>8. CASE ctl' # "end" /\ udx710
  <2>1. loop' = "restore" /\ other' = Len(Items)
    BY <1>1, <1>3, <1>4, <1>8 DEF BackupEnds, GivesUp, Return, Enter
  <2>2. \A k \in DOMAIN Items : ~(k > Len(Items))
    BY <1>3
  <2> QED
    BY <1>5, <1>6, <1>8, <2>1, <2>2 DEF Written
<1>9. CASE ctl' # "end" /\ ~udx710
  <2>1. loop' = "items" /\ item' = item + 1
    BY <1>9 DEF BackupEnds, NextItem
  <2>2. \A k \in DOMAIN Items : k < item + 1 => ~(Items[k].kind = "image" \/ Keeps(Items[k]))
    BY <1>3
  <2> QED
    BY <1>5, <1>6, <1>9, <2>1, <2>2 DEF Written
<1> QED
  BY <1>7, <1>8, <1>9

\* What is written back is what was read, or one of the exceptions.
LEMMA ReturnsTheSame ==
    ASSUME IInv, Written, Restore
    PROVE  /\ Keeps(This) /\ This.id \in Kept
           /\ (IF This.kind = "nv" THEN nvBuf ELSE file[This.id]) = "cal" \/ This.id \in unsaved \cup cut
<1>1. ctl = "dloader" /\ Turn(loop) /\ loop \in {"items", "restore"} /\ Keeps(This) /\ InOrder
  BY DEF Restore, Turn, InLoop, IInv
<1>2. This.id \in Kept /\ chip \in {"RG500U", "EC200U"}
  BY <1>1, ThisItem
<1>3. PICK k \in DOMAIN Items :
         /\ This = Items[k]
         /\ loop = "items" => k = item /\ item \in 1 .. Len(Items)
  BY <1>1, <1>2, ThisItem, ItemsListed
<1>4. loop = "items" => Past(item)
  <2> SUFFICES ASSUME loop = "items" PROVE Past(item)
    OBVIOUS
  <2>1. PICK f \in DOMAIN Items : Items[f].kind = "fdl2"
    BY <1>2, ItemsListed
  <2>2. f \in 1 .. item - 1
    BY <1>1, <1>2, <1>3, <2>1, ItemsListed
  <2> QED
    BY <2>1, <2>2 DEF Past
<1>5. AllSaved /\ Merges(k)
  BY <1>1, <1>3, <1>4 DEF InOrder, Written
<1> QED
  BY <1>1, <1>2, <1>3, <1>5 DEF AllSaved, Saved, Merges

LEMMA RestoreWrites ==
    ASSUME IInv, Written, Restore
    PROVE  Written'
<1> DEFINE c == IF This.kind = "nv" THEN nvBuf ELSE file[This.id]
<1>1. ctl = "dloader" /\ Turn(loop) /\ loop \in {"items", "restore"} /\ Keeps(This) /\ Flash(c)
  BY DEF Restore, Turn, InLoop
<1>2. This.id \in Kept /\ (c = "cal" \/ This.id \in unsaved \cup cut)
  BY ReturnsTheSame
<1>3. chip \in {"RG500U", "EC200U"} /\ DOMAIN Items = 1 .. Len(Items) /\ Len(Items) \in Nat
  BY <1>1, ThisItem, ItemsListed
<1> HIDE DEF c
<1>4. CASE ctl' = "end"
  BY <1>4 DEF Written
<1>5. CASE ctl' # "end"
  <2>1. PICK h : /\ Onward /\ flash' = [flash EXCEPT ![This.id] = h]
                 /\ cut' = cut \cup {p \in {This.id} : h # c}
                 /\ UNCHANGED <<chip, nvBuf, unsaved>>
    BY <1>1, <1>5 DEF Flash, GivesUp, Return
  <2>2. flash \in [Parts -> Contents] /\ This.id \in Parts
    BY <1>2 DEF IInv, Holdings, Parts
  <2>3. /\ flash'[This.id] = h /\ (h = c \/ This.id \in cut') /\ cut \subseteq cut'
        /\ \A p \in Parts : p # This.id => flash'[p] = flash[p]
    BY <2>1, <2>2
  <2>4. ASSUME NEW k \in DOMAIN Items, Keeps(Items[k]), Items[k] = This \/ Good(Items[k].id)
        PROVE  flash'[Items[k].id] = "cal" \/ Items[k].id \in unsaved \cup cut'
    <3>1. Items[k].id \in Parts
      BY <1>3, <2>4, ItemsListed DEF Parts
    <3> QED
      BY <1>2, <2>3, <2>4, <3>1 DEF Good
  <2>5. CASE loop = "items"
    <3>1. item \in 1 .. Len(Items) /\ This = Items[item] /\ Items[item].kind # "fdl2" /\ NextItem
      BY <1>1, <2>1, <2>5, ThisItem DEF Keeps, Onward
    <3>2. ASSUME NEW k \in DOMAIN Items, Items[k].kind = "image"
          PROVE  k # item /\ flash'[Items[k].id] = flash[Items[k].id]
      <4>1. Items[k].id \in Images
        BY <1>3, <3>2, ItemsListed
      <4> QED
        BY <1>1, <1>2, <2>3, <3>1, <3>2, <4>1, PartsAssumption DEF Parts, Keeps
    <3> QED
      BY <1>1, <2>1, <2>3, <2>4, <2>5, <3>1, <3>2, ItemWritten DEF Arrived
  <2>6. CASE loop = "restore"
    <3>1. other \in DOMAIN Items /\ This = Items[other]
      BY <1>1, <2>6, ThisItem
    <3>2. other' = other - 1 /\ loop' = "restore"
      BY <2>1, <2>6 DEF Onward, NextOther
    <3>3. Items' = Items /\ udx710' = udx710 /\ udx710
      BY <1>1, <2>1, <2>6 DEF Items, udx710, Written
    <3>4. \A k \in DOMAIN Items : Merges(k)' /\ (k > other /\ Keeps(Items[k]) => Good(Items[k].id))
      BY <1>1, <2>1, <2>3, <2>6, <3>3 DEF Written, Merges
    <3>5. \A k \in DOMAIN Items : k > other - 1 => k > other \/ Items[k] = This
      BY <1>3, <3>1
    <3> QED
      BY <2>1, <2>4, <3>2, <3>3, <3>4, <3>5 DEF Written, Good
  <2> QED
    BY <1>1, <2>5, <2>6
<1>6. ctl' = "end" \/ ctl' = "dloader"
  BY <1>1 DEF Flash, GivesUp, Return, Onward, NextItem, NextOther, Stay
<1> QED
  BY <1>4, <1>5

LEMMA WriteImageWrites ==
    ASSUME IInv, Written, WriteImage
    PROVE  Written'
<1>1. ctl = "dloader" /\ Turn(loop) /\ loop = "items" /\ This.kind = "image" /\ Flash("new")
  BY DEF WriteImage, Turn, InLoop
<1>2. /\ chip \in {"RG500U", "EC200U"} /\ DOMAIN Items = 1 .. Len(Items) /\ This.id \in Images
      /\ item \in 1 .. Len(Items) /\ This = Items[item]
  BY <1>1, ThisItem, ItemsListed
<1>3. CASE ctl' = "end"
  BY <1>3 DEF Written
<1>4. CASE ctl' # "end"
  <2>1. PICK h : /\ NextItem /\ flash' = [flash EXCEPT ![This.id] = h]
                 /\ cut' = cut \cup {p \in {This.id} : h # "new"}
                 /\ UNCHANGED <<chip, nvBuf, unsaved>>
    BY <1>1, <1>4 DEF Flash, GivesUp, Return, Onward
  <2>2. flash \in [Parts -> Contents] /\ This.id \in Parts
    BY <1>2 DEF IInv, Holdings, Parts
  <2>3. /\ flash'[This.id] = h /\ (h = "new" \/ This.id \in cut') /\ cut \subseteq cut'
        /\ \A p \in Parts : p # This.id => flash'[p] = flash[p]
    BY <2>1, <2>2
  <2>4. ASSUME NEW k \in DOMAIN Items, Items[k].kind = "image", k = item \/ Arrived(Items[k].id)
        PROVE  flash'[Items[k].id] = "new" \/ Items[k].id \in cut'
    <3>1. Items[k].id \in Parts
      BY <1>2, <2>4, ItemsListed DEF Parts
    <3> QED
      BY <1>2, <2>3, <2>4, <3>1 DEF Arrived
  <2>5. ASSUME NEW k \in DOMAIN Items, Keeps(Items[k])
        PROVE  k # item /\ flash'[Items[k].id] = flash[Items[k].id]
    <3>1. Items[k].id \in Kept
      BY <1>2, <2>5, ItemsListed
    <3> QED
      BY <1>1, <1>2, <2>3, <2>5, <3>1, PartsAssumption DEF Parts, Keeps
  <2> QED
    BY <1>1, <1>2, <2>1, <2>3, <2>4, <2>5, ItemWritten DEF Good
<1> QED
  BY <1>3, <1>4

\* The steps that write nothing.
LEMMA QuietWrites ==
    ASSUME IInv, Written, RestoreEnds \/ Erase \/ Pass \/ NormalReset
    PROVE  Written'
<1>1. ctl = "dloader" /\ InOrder /\ UNCHANGED <<chip, flash, nvBuf, unsaved, cut>>
  BY DEF RestoreEnds, Erase, Pass, NormalReset, Turn, InLoop, IInv
<1>2. Items' = Items /\ udx710' = udx710 /\ chip \in {"RG500U", "EC200U"}
  BY <1>1 DEF Items, udx710, InOrder
<1>3. CASE ctl' = "end"
  BY <1>3 DEF Written
<1>4. CASE RestoreEnds
  <2>1. loop = "restore" /\ AtSecond /\ other = item /\ loop' = "items" /\ item' = item + 1
    BY <1>1, <1>4 DEF RestoreEnds, InLoop, InOrder, NextItem
  <2>2. /\ \A k \in DOMAIN Items : Items[k].kind = "image" \/ Keeps(Items[k]) => k > item
        /\ item \in Nat /\ DOMAIN Items = 1 .. Len(Items)
    BY <1>2, <2>1, BeforeSecond
  <2>3. \A k \in DOMAIN Items : k < item + 1 => Items[k].kind # "image"
    BY <2>2
  <2>4. \A k \in DOMAIN Items : Merges(k) /\ (Keeps(Items[k]) => Good(Items[k].id))
    BY <1>1, <2>1, <2>2 DEF Written
  <2>5. \A k \in DOMAIN Items :
           (Merges(k)' <=> Merges(k)) /\ (Good(Items[k].id)' <=> Good(Items[k].id))
    BY <1>1, <1>2 DEF Merges, Good
  <2> QED
    BY <1>2, <2>1, <2>3, <2>4, <2>5 DEF Written
<1>5. CASE (Erase \/ Pass) /\ ctl' # "end" /\ loop = "items"
  <2>1. item \in 1 .. Len(Items) /\ This = Items[item] /\ NextItem
    BY <1>1, <1>5, ThisItem DEF Erase, Pass, Turn, InLoop, Onward, GivesUp, Return
  <2>2. Items[item].kind \notin {"fdl2", "image"} /\ (Keeps(Items[item]) => udx710)
    BY <1>5, <2>1 DEF Erase, Pass, Keeps, Turn, InLoop
  <2> QED
    BY <1>1, <1>5, <2>1, <2>2, ItemWritten DEF Good, Arrived
<1>6. CASE Pass /\ loop # "items"
  <2>1. loop \in {"backup", "restore"} /\ Turn(loop) /\ ~Keeps(This)
    BY <1>6 DEF Pass, Turn, InLoop
  <2>2. This = Items[other] /\ other \in DOMAIN Items
    BY <1>1, <2>1, ThisItem
  <2>3. UNCHANGED <<ctl, loop, item>> /\ other' = IF loop = "backup" THEN other + 1 ELSE other - 1
    BY <1>6, <2>1 DEF Pass, Onward, NextOther, Stay
  <2>4. ASSUME NEW k \in DOMAIN Items
        PROVE  /\ k < other + 1 => k < other \/ k = other
               /\ k > other - 1 => k > other \/ k = other
    BY <1>2, <2>2, ItemsListed
  <2>5. \A k \in DOMAIN Items :
           (Merges(k)' <=> Merges(k)) /\ (Good(Items[k].id)' <=> Good(Items[k].id))
    BY <1>1, <1>2 DEF Merges, Good
  <2>6. CASE loop = "backup"
    <3>1. \A k \in DOMAIN Items : k < other \/ k = other => Merges(k)
      BY <1>1, <2>1, <2>2, <2>6 DEF Written, Merges, Keeps
    <3> QED
      BY <1>2, <2>3, <2>4, <2>5, <2>6, <3>1 DEF Written
  <2>7. CASE loop = "restore"
    <3>1. \A k \in DOMAIN Items :
             Merges(k) /\ ((k > other \/ k = other) /\ Keeps(Items[k]) => Good(Items[k].id))
      BY <1>1, <2>1, <2>2, <2>7 DEF Written
    <3>2. udx710
      BY <1>1, <2>7 DEF Written
    <3> QED
      BY <1>2, <2>3, <2>4, <2>5, <2>7, <3>1, <3>2 DEF Written
  <2> QED
    BY <2>1, <2>6, <2>7
<1>7. Erase => loop = "items"
  BY DEF Erase, Turn, InLoop
<1>8. NormalReset => ctl' = "end"
  BY DEF NormalReset, GivesUp, Return
<1> QED
  BY <1>3, <1>4, <1>5, <1>6, <1>7, <1>8

\* When the module is told to start, all is written.
LEMMA ResetsWhenWritten ==
    ASSUME IInv, Written, NormalReset
    PROVE  /\ \A p \in Images : Arrived(p)
           /\ \A p \in Kept : Good(p)
<1>1. ctl = "dloader" /\ loop = "items" /\ item > Len(Items) /\ InOrder
  BY DEF NormalReset, InLoop, IInv
<1>2. /\ chip \in {"RG500U", "EC200U"} /\ item \in 1 .. Len(Items) + 1 /\ Len(Items) \in Nat
      /\ DOMAIN Items = 1 .. Len(Items)
  BY <1>1, ItemsListed DEF InOrder
<1>3. \A k \in DOMAIN Items : k < item /\ k \in 1 .. item - 1
  BY <1>1, <1>2
<1>4. Past(item)
  BY <1>2, <1>3, ItemsListed DEF Past
<1>5. \A k \in DOMAIN Items :
         /\ Items[k].kind = "image" => Arrived(Items[k].id)
         /\ Keeps(Items[k]) => Good(Items[k].id)
  BY <1>1, <1>3, <1>4 DEF Written
<1> QED
  BY <1>2, <1>5, ItemsListed

LEMMA BslWrites ==
    ASSUME IInv, Written, Ended, BslNext
    PROVE  Written' /\ Ended' /\ (ret' = "ok" => SuccessComplete')
<1>1. Written'
  BY LoadWrites, BackupWrites, BackupEndsWrites, RestoreWrites, WriteImageWrites, QuietWrites DEF BslNext
<1>2. ctl = "dloader"
  BY DEF BslNext, Load, Backup, BackupEnds, Restore, RestoreEnds, WriteImage, Erase, Pass, NormalReset,
         Turn, InLoop
<1>3. CASE NormalReset
  <2>1. UNCHANGED <<flash, unsaved, cut>> /\ ctl' = "end"
    BY <1>3 DEF NormalReset, GivesUp, Return
  <2> QED
    BY <1>1, <1>3, <2>1, ResetsWhenWritten DEF Ended, SuccessComplete, Good, Arrived
<1>4. CASE BslNext /\ ~NormalReset
  <2>1. ret' = ret \/ ret' = "failed"
    BY <1>4 DEF BslNext, Load, Backup, BackupEnds, Restore, RestoreEnds, WriteImage, Erase, Pass,
                Loaded, Enter, Flash, Onward, NextItem, NextOther, Stay, GivesUp, Return, Turn,
                InLoop
  <2> QED
    BY <1>1, <1>2, <2>1 DEF Ended
<1> QED
  BY <1>3, <1>4
-----------------------------------------------------------------------------
(* The answers to the commands of aboot. *)

\* The command of a line: of the file, or one of the last three.
LEMMA CmdIs ==
    ASSUME line \in 1 .. Len(Script) + 3
    PROVE  /\ Len(Script) \in Nat /\ DOMAIN Script = 1 .. Len(Script) /\ Len(Endings) = 3
           /\ InTail <=> line > Len(Script)
           /\ ~InTail => line \in DOMAIN Script /\ Cmd = Script[line]
           /\ Cmd.op = "flash" => ~InTail
           /\ Cmd.op = "download" => ~InTail
           /\ Cmd.op = "complete" <=> line = Len(Script) + 2
           /\ Cmd.op = "disconnect" <=> line = Len(Script) + 3
           /\ Cmd.chunks \in Nat
           /\ Op = "flash" <=> Cmd.op = "flash"
           /\ Op = "complete" <=> Cmd.op = "complete"
           /\ Op = "download" <=> Cmd.op = "download"
           /\ Op \in Commands /\ Op \notin {"poll", "data", "last"}
           /\ Cmd.img \in Images \cup {"none"} /\ (Cmd.op = "flash" => Cmd.img \in Images)
<1>1. Len(Script) \in Nat /\ DOMAIN Script = 1 .. Len(Script) /\ Len(Endings) = 3
  BY AbootAssumption DEF Endings
<1>2. Cmd.img \in Images \cup {"none"} /\ (Cmd.op = "flash" => Cmd.img \in Images)
  BY CommandsFlashImages
<1>3. InTail <=> line > Len(Script)
  BY DEF InTail
<1>4. CASE ~InTail
  <2>1. line \in DOMAIN Script /\ Cmd = Script[line]
    BY <1>1, <1>3, <1>4 DEF Cmd
  <2> DEFINE R == [op : {"getvar", "call", "nop", "download", "flash"},
                   img : Images \cup {"none"}, chunks : Nat]
  <2>2. Script \in Seq(R)
    BY AbootAssumption
  <2> HIDE DEF R
  <2>3. Script[line] \in R
    BY <1>1, <2>1, <2>2
  <2>4. Cmd.op \in {"getvar", "call", "nop", "download", "flash"} /\ Cmd.chunks \in Nat
    BY <2>1, <2>3 DEF R
  <2>5. line # Len(Script) + 2 /\ line # Len(Script) + 3
    BY <1>1, <1>3, <1>4
  <2> QED
    BY <1>1, <1>2, <1>3, <1>4, <2>1, <2>4, <2>5 DEF Op, Commands
<1>5. CASE InTail
  <2>1. line - Len(Script) \in 1 .. 3 /\ Cmd.op = Endings[line - Len(Script)] /\ Cmd.chunks = 0
    BY <1>1, <1>3, <1>5 DEF Cmd
  <2>2. /\ Endings[1] = "reboot" /\ Endings[2] = "complete" /\ Endings[3] = "disconnect"
    BY DEF Endings
  <2>3. \/ line = Len(Script) + 1 /\ Cmd.op = "reboot"
        \/ line = Len(Script) + 2 /\ Cmd.op = "complete"
        \/ line = Len(Script) + 3 /\ Cmd.op = "disconnect"
    BY <1>1, <2>1, <2>2
  <2> QED
    BY <1>1, <1>2, <1>3, <1>5, <2>1, <2>3 DEF Op, Commands
<1> QED
  BY <1>4, <1>5

\* The questions after one more message to the modem, or one less.
LEMMA PutAt ==
    ASSUME toMod \in Seq(Orders), NEW m \in Orders, Put(m)
    PROVE  /\ toMod' \in Seq(Orders)
           /\ AskedAt' = IF Asks(m) THEN AskedAt \cup {Len(toMod) + 1} ELSE AskedAt
           /\ Len(toMod) + 1 \notin AskedAt /\ toMod'[Len(toMod) + 1] = m
           /\ \A i \in AskedAt : toMod'[i] = toMod[i]
<1>1. toMod' = Append(toMod, m)
  BY DEF Put
<1>2. /\ toMod' \in Seq(Orders) /\ Len(toMod) \in Nat /\ DOMAIN toMod = 1 .. Len(toMod)
      /\ DOMAIN toMod' = 1 .. Len(toMod) + 1
      /\ toMod'[Len(toMod) + 1] = m
      /\ \A i \in 1 .. Len(toMod) : toMod'[i] = toMod[i]
  BY <1>1
<1>3. DOMAIN toMod' = DOMAIN toMod \cup {Len(toMod) + 1}
  BY <1>2
<1> QED
  BY <1>2, <1>3 DEF AskedAt

LEMMA TakenAt ==
    ASSUME toMod \in Seq(Orders), toMod # <<>>, TakesIt
    PROVE  /\ toMod' \in Seq(Orders) /\ Head(toMod) \in Orders /\ Head(toMod) = toMod[1]
           /\ 1 \in AskedAt <=> Asks(Head(toMod))
           /\ \A i \in AskedAt' : i + 1 \in AskedAt /\ i + 1 # 1 /\ toMod'[i] = toMod[i + 1]
<1>1. /\ Len(toMod) \in Nat \ {0} /\ DOMAIN toMod = 1 .. Len(toMod)
      /\ toMod' \in Seq(Orders) /\ Len(toMod') = Len(toMod) - 1 /\ DOMAIN toMod' = 1 .. Len(toMod')
      /\ \A i \in 1 .. Len(toMod) - 1 : toMod'[i] = toMod[i + 1]
      /\ Head(toMod) = toMod[1] /\ Head(toMod) \in Orders
  BY DEF TakesIt
<1>2. \A i \in DOMAIN toMod' : i + 1 \in DOMAIN toMod /\ i + 1 # 1 /\ toMod'[i] = toMod[i + 1]
  BY <1>1
<1> QED
  BY <1>1, <1>2 DEF AskedAt

\* The answers after one more packet to the host, or one less.
LEMMA GotAt ==
    ASSUME toHost \in Seq(Packets), NEW a \in Packets, toHost' = Append(toHost, a)
    PROVE  /\ toHost' \in Seq(Packets)
           /\ AnsweredAt' = IF a \in Answers THEN AnsweredAt \cup {Len(toHost) + 1} ELSE AnsweredAt
           /\ (\E i \in DOMAIN toHost' : toHost'[i] \in Positive) <=>
                 a \in Positive \/ \E i \in DOMAIN toHost : toHost[i] \in Positive
<1>1. /\ toHost' \in Seq(Packets) /\ Len(toHost) \in Nat /\ DOMAIN toHost = 1 .. Len(toHost)
      /\ DOMAIN toHost' = 1 .. Len(toHost) + 1
      /\ toHost'[Len(toHost) + 1] = a
      /\ \A i \in 1 .. Len(toHost) : toHost'[i] = toHost[i]
  OBVIOUS
<1>2. DOMAIN toHost' = DOMAIN toHost \cup {Len(toHost) + 1} /\ Len(toHost) + 1 \notin DOMAIN toHost
  BY <1>1
<1> QED
  BY <1>1, <1>2 DEF AnsweredAt

LEMMA ReadAt ==
    ASSUME toHost \in Seq(Packets), toHost # <<>>, toHost' = Tail(toHost)
    PROVE  /\ toHost' \in Seq(Packets) /\ Head(toHost) \in Packets
           /\ 1 \in AnsweredAt <=> Head(toHost) \in Answers
           /\ \A i \in AnsweredAt' : i + 1 \in AnsweredAt /\ i + 1 # 1
           /\ Head(toHost) \in Positive => \E i \in DOMAIN toHost : toHost[i] \in Positive
           /\ (\E i \in DOMAIN toHost' : toHost'[i] \in Positive) =>
                 \E i \in DOMAIN toHost : toHost[i] \in Positive
<1>1. /\ Len(toHost) \in Nat \ {0} /\ DOMAIN toHost = 1 .. Len(toHost)
      /\ toHost' \in Seq(Packets) /\ Len(toHost') = Len(toHost) - 1 /\ DOMAIN toHost' = 1 .. Len(toHost')
      /\ \A i \in 1 .. Len(toHost) - 1 : toHost'[i] = toHost[i + 1]
      /\ Head(toHost) = toHost[1] /\ Head(toHost) \in Packets
  OBVIOUS
<1>2. \A i \in DOMAIN toHost' : i + 1 \in DOMAIN toHost /\ i + 1 # 1 /\ toHost'[i] = toHost[i + 1]
  BY <1>1
<1> QED
  BY <1>1, <1>2 DEF AnsweredAt
-----------------------------------------------------------------------------
(* The main thread of aboot. *)

\* What the module has taken does not change with the messages.
LEMMA TakenLeft ==
    ASSUME UNCHANGED <<flash, background, bad>>
    PROVE  (\A p : Taken(p)' <=> Taken(p)) /\ (AllTaken' <=> AllTaken)
BY DEF Taken, AllTaken

\* A step within a command that sends nothing.
LEMMA MainWaits ==
    ASSUME TalkInv, UNCHANGED <<style, line, chunk, toMod, toHost, due, response, bootrom>>,
           UNCHANGED <<flash, background, bad, unread>>,
           pc # "send", pc' \notin {"send", "data"}, pc' = "judge" => response # "none",
           pc' \in Transfers => pc \in Transfers
    PROVE  TalkInv'
<1>1. OneAnswer /\ InTurn /\ AsOrdered /\ Meant /\ Programmed
  BY DEF TalkInv, Talk
<1>2. Cmd' = Cmd /\ AskedAt' = AskedAt /\ AnsweredAt' = AnsweredAt /\ Awaited' = Awaited
  BY DEF Cmd, InTail, AskedAt, AnsweredAt, Awaited
<1>3. OnlyImages' /\ TalkTypes'
  BY DEF TalkInv, OnlyImages, TalkTypes
<1>4. OneAnswer' /\ AsOrdered'
  BY <1>1, <1>2 DEF OneAnswer, AsOrdered
<1>5. InTurn'
  BY <1>1, <1>2 DEF InTurn
<1>6. Meant' /\ Programmed'
  BY <1>1, <1>2, TakenLeft DEF Meant, Said, Programmed
<1> QED
  BY <1>3, <1>4, <1>5, <1>6 DEF TalkInv, Talk

\* A message that asks for no answer.
LEMMA MainTells ==
    ASSUME TalkInv, UNCHANGED <<style, line, toHost, due, response, bootrom>>,
           UNCHANGED <<flash, background, bad, unread>>, chunk' \in Nat,
           pc # "send", pc' \notin {"send", "judge"}, NEW m \in Orders, ~Asks(m), Put(m),
           pc' \in Transfers => Cmd.op = "download" /\ ~Awaited /\ response = "none"
    PROVE  TalkInv'
<1>1. OneAnswer /\ InTurn /\ AsOrdered /\ Meant /\ Programmed /\ toMod \in Seq(Orders)
  BY DEF TalkInv, Talk, OnlyImages
<1>2. toMod' \in Seq(Orders) /\ AskedAt' = AskedAt /\ \A i \in AskedAt : toMod'[i] = toMod[i]
  BY <1>1, PutAt
<1>3. Cmd' = Cmd /\ AnsweredAt' = AnsweredAt /\ Awaited' = Awaited
  BY <1>2 DEF Cmd, InTail, AnsweredAt, Awaited
<1>4. OnlyImages' /\ TalkTypes'
  BY <1>2 DEF TalkInv, OnlyImages, TalkTypes
<1>5. OneAnswer' /\ AsOrdered'
  BY <1>1, <1>2, <1>3 DEF OneAnswer, AsOrdered
<1>6. InTurn'
  BY <1>1, <1>3 DEF InTurn, Transfers
<1>7. Meant' /\ Programmed'
  BY <1>1, <1>3, TakenLeft DEF Meant, Said, Programmed
<1> QED
  BY <1>4, <1>5, <1>6, <1>7 DEF TalkInv, Talk

\* A question, when no answer is awaited and the last one is forgotten.
LEMMA MainAsks ==
    ASSUME TalkInv, UNCHANGED <<style, line, toHost, due, bootrom, flash, background, bad, unread>>,
           ~Awaited, response' = "none", chunk' \in Nat, NEW o \in Commands, Put([op |-> o, img |-> Cmd.img]),
           o \notin {"poll", "data"}, o = "flash" <=> Cmd.op = "flash",
           o = "complete" <=> Cmd.op = "complete",
           pc' \notin {"send", "data", "judge"},
           pc' \in Transfers => Cmd.op = "download" /\ chunk' = Cmd.chunks
    PROVE  TalkInv'
<1> DEFINE m == [op |-> o, img |-> Cmd.img]
<1>1. OneAnswer /\ InTurn /\ AsOrdered /\ Meant /\ Programmed /\ toMod \in Seq(Orders)
      /\ line \in 1 .. Len(Script) + 3
  BY DEF TalkInv, Talk, OnlyImages
<1>2. m \in Orders /\ Asks(m) /\ Put(m) /\ m.op = o /\ m.img = Cmd.img
  BY <1>1, CmdIs DEF Orders, Asks
<1> HIDE DEF m
<1>3. AskedAt = {} /\ AnsweredAt = {} /\ due = "none"
  BY DEF Awaited
<1>4. /\ toMod' \in Seq(Orders) /\ AskedAt' = {Len(toMod) + 1}
      /\ toMod'[Len(toMod) + 1] = m
  BY <1>1, <1>2, <1>3, PutAt
<1>5. Cmd' = Cmd /\ AnsweredAt' = {} /\ due' = "none"
  BY <1>3 DEF Cmd, InTail, AnsweredAt
<1>6. OnlyImages' /\ TalkTypes'
  BY <1>4 DEF TalkInv, OnlyImages, TalkTypes
<1>7. OneAnswer' /\ AsOrdered'
  BY <1>2, <1>4, <1>5 DEF OneAnswer, AsOrdered
<1>8. InTurn'
  BY <1>5 DEF InTurn
<1>9. Meant'
  <2>1. ~ \E i \in DOMAIN toHost : toHost[i] \in Positive
    BY <1>3 DEF AnsweredAt, Positive, Answers
  <2> QED
    BY <1>3, <2>1 DEF Meant, Said, Positive
<1>10. Programmed'
  BY <1>1, TakenLeft DEF Programmed
<1> QED
  BY <1>6, <1>7, <1>8, <1>9, <1>10 DEF TalkInv, Talk

\* The next command: the answer to this one has been read.
LEMMA MainGoesOn ==
    ASSUME TalkInv, UNCHANGED <<style, toMod, toHost, due, response, bootrom, flash, background, bad>>,
           pc # "send", response # "none", chunk' \in Nat, pc' = "send",
           line' \in 1 .. Len(Script) + 3,
           ~unread' => /\ ~unread /\ line' = line + 1
                       /\ response = "OKAY" \/ Cmd.op \notin {"flash", "complete"}
    PROVE  TalkInv'
<1>1. /\ OneAnswer /\ InTurn /\ AsOrdered /\ Meant /\ Programmed
      /\ line \in 1 .. Len(Script) + 3
  BY DEF TalkInv, Talk, OnlyImages
<1>2. ~Awaited /\ Awaited' = Awaited /\ AskedAt' = AskedAt /\ AnsweredAt' = AnsweredAt
  BY <1>1 DEF OneAnswer, Awaited, AskedAt, AnsweredAt
<1>3. OnlyImages' /\ TalkTypes'
  BY DEF TalkInv, OnlyImages, TalkTypes
<1>4. AskedAt = {} /\ AnsweredAt = {} /\ due = "none"
  BY <1>2 DEF Awaited
<1>5. OneAnswer' /\ AsOrdered' /\ InTurn'
  BY <1>1, <1>2, <1>4 DEF OneAnswer, AsOrdered, InTurn, Transfers
<1>6. Meant'
  <2>1. ~ \E i \in DOMAIN toHost : toHost[i] \in Positive
    BY <1>4 DEF AnsweredAt, Positive, Answers
  <2> QED
    BY <1>4, <2>1 DEF Meant, Said, Positive
<1>7. Programmed'
  <2> SUFFICES ASSUME ~unread' PROVE Programmed'
    BY DEF Programmed
  <2>1. /\ \A k \in DOMAIN Script : k < line /\ Script[k].op = "flash" => Taken(Script[k].img)
        /\ line' = line + 1
    BY <1>1 DEF Programmed
  <2>2. /\ Cmd.op = "flash" => Taken(Cmd.img)
        /\ Cmd.op = "complete" => AllTaken
    BY <1>1 DEF Meant, Said
  <2>3. ASSUME NEW k \in DOMAIN Script, k < line + 1, Script[k].op = "flash" PROVE Taken(Script[k].img)
    <3>1. k \in 1 .. Len(Script) /\ Len(Script) \in Nat
      BY <1>1, CmdIs
    <3>2. CASE k = line
      <4>1. ~InTail /\ Cmd = Script[k]
        BY <1>1, <3>1, <3>2, CmdIs
      <4> QED
        BY <2>2, <2>3, <4>1
    <3>3. CASE k < line
      BY <2>1, <2>3, <3>3
    <3> QED
      BY <1>1, <2>3, <3>1, <3>2, <3>3
  <2>4. line' = Len(Script) + 3 => AllTaken
    BY <1>1, <2>1, <2>2, CmdIs
  <2> QED
    BY <2>1, <2>3, <2>4, TakenLeft DEF Programmed
<1> QED
  BY <1>3, <1>5, <1>6, <1>7 DEF TalkInv, Talk

LEMMA SendTalks ==
    ASSUME TalkInv, Send, ctl' = "aboot"
    PROVE  TalkInv'
<1>1. line \in 1 .. Len(Script) + 3 /\ InTurn /\ TalkTypes
  BY DEF TalkInv, Talk, OnlyImages
<1>2. ~Awaited /\ chunk \in Nat
  BY <1>1 DEF Send, Runs, InTurn, TalkTypes
<1>3. Put([op |-> Op, img |-> Cmd.img]) /\ pc' = "check" /\ response' = "none" /\ UNCHANGED chunk
  BY DEF Send, Goto, Fail, Return
<1>4. /\ Op \in Commands /\ Op \notin {"poll", "data"}
      /\ Op = "flash" <=> Cmd.op = "flash"
      /\ Op = "complete" <=> Cmd.op = "complete"
  BY <1>1, CmdIs
<1> QED
  BY <1>2, <1>3, <1>4, MainAsks DEF Send, Transfers

\* The steps that wait, or ask for the answer once more.
LEMMA WaitTalks ==
    ASSUME TalkInv, ctl' = "aboot",
           Check \/ SliceEnds \/ NextSlice \/ Woken \/ WaitForAck \/ Collect
    PROVE  TalkInv'
<1>1. /\ UNCHANGED <<style, line, chunk, toHost, due, response, bootrom, flash, background, bad, unread>>
      /\ pc # "send"
  BY DEF Check, SliceEnds, NextSlice, Woken, WaitForAck, Collect, Runs
<1>2. CASE Check
  BY <1>1, <1>2, MainWaits DEF Check, Goto, Transfers
<1>3. CASE SliceEnds \/ WaitForAck
  BY <1>1, <1>3, MainWaits DEF SliceEnds, WaitForAck, Goto, Transfers, Runs
<1>4. CASE NextSlice
  <2>1. Goto(IF pc = "slice" THEN "wait" ELSE "dataWait")
    BY <1>4 DEF NextSlice, Fail, Return
  <2> QED
    BY <1>1, <1>4, <2>1, MainWaits DEF NextSlice, Goto, Transfers
<1>5. CASE Woken \/ Collect
  <2>1. \/ pc' = "check" /\ UNCHANGED toMod
        \/ pc' = "check" /\ Put([op |-> "poll", img |-> "none"])
    BY <1>5 DEF Woken, Collect, Ask, Goto, Fail, Return
  <2>2. CASE pc' = "check" /\ UNCHANGED toMod
    BY <1>1, <2>2, MainWaits DEF Transfers
  <2>3. CASE pc' = "check" /\ Put([op |-> "poll", img |-> "none"])
    <3> DEFINE m == [op |-> "poll", img |-> "none"]
    <3>1. m \in Orders /\ ~Asks(m) /\ Put(m)
      BY <2>3 DEF Orders, Commands, Asks
    <3> HIDE DEF m
    <3>2. chunk' \in Nat
      BY <1>1 DEF TalkInv, TalkTypes
    <3> QED
      BY <1>1, <2>3, <3>1, <3>2, MainTells DEF Transfers
  <2> QED
    BY <2>1, <2>2, <2>3
<1> QED
  BY <1>2, <1>3, <1>4, <1>5

\* A part of the image that is not the last, or with ethos is acknowledged.
LEMMA NextChunkTalks ==
    ASSUME TalkInv, pc \in Transfers, NextChunk,
           UNCHANGED <<style, line, response, bootrom, toHost, due, flash, background, bad, unread>>,
           UNCHANGED toMod
    PROVE  TalkInv'
<1>1. CASE ~(chunk < Cmd.chunks)
  <2>1. pc' = "collect" /\ UNCHANGED chunk /\ pc # "send"
    BY <1>1 DEF NextChunk, Goto, Transfers
  <2> QED
    BY <2>1, MainWaits DEF Transfers
<1>2. CASE chunk < Cmd.chunks
  <2>1. pc' = "data" /\ chunk' = chunk + 1
    BY <1>2 DEF NextChunk, Goto
  <2>2. /\ OneAnswer /\ InTurn /\ AsOrdered /\ Meant /\ Programmed /\ chunk \in Nat
        /\ line \in 1 .. Len(Script) + 3
    BY DEF TalkInv, Talk, TalkTypes, OnlyImages
  <2>3. ~Awaited /\ response = "none" /\ Cmd.op = "download"
    BY <1>2, <2>2, CmdIs DEF InTurn
  <2>4. Cmd' = Cmd /\ AskedAt' = AskedAt /\ AnsweredAt' = AnsweredAt /\ Awaited' = Awaited
    BY DEF Cmd, InTail, AskedAt, AnsweredAt, Awaited
  <2>5. OnlyImages' /\ TalkTypes'
    BY <2>1, <2>2 DEF TalkInv, OnlyImages, TalkTypes
  <2>6. OneAnswer' /\ AsOrdered'
    BY <2>2, <2>4 DEF OneAnswer, AsOrdered
  <2>7. InTurn'
    BY <2>1, <2>3, <2>4 DEF InTurn
  <2>8. Meant' /\ Programmed'
    BY <2>2, <2>3, <2>4, TakenLeft DEF Meant, Said, Programmed
  <2> QED
    BY <2>5, <2>6, <2>7, <2>8 DEF TalkInv, Talk
<1> QED
  BY <1>1, <1>2

LEMMA AckedTalks ==
    ASSUME TalkInv, Acked
    PROVE  TalkInv'
BY NextChunkTalks DEF Acked, Runs, Transfers

LEMMA SendChunkTalks ==
    ASSUME TalkInv, SendChunk, ctl' = "aboot"
    PROVE  TalkInv'
<1>1. /\ UNCHANGED <<style, line, toHost, due, response, bootrom, flash, background, bad, unread>>
      /\ pc = "data"
      /\ Put([op |-> IF chunk = Cmd.chunks THEN "last" ELSE "data", img |-> Cmd.img])
      /\ \/ Goto("dataLock") /\ UNCHANGED chunk
         \/ NextChunk
  BY DEF SendChunk, Runs, Fail, Return
<1>2. InTurn /\ chunk \in Nat /\ line \in 1 .. Len(Script) + 3
  BY DEF TalkInv, Talk, TalkTypes, OnlyImages
<1>3. ~Awaited /\ response = "none" /\ Cmd.op = "download" /\ Cmd.chunks \in Nat
      /\ Cmd.img \in Images \cup {"none"}
  BY <1>1, <1>2, CmdIs DEF InTurn, Transfers
<1>4. CASE chunk = Cmd.chunks
  <2>1. UNCHANGED chunk /\ pc' \in {"dataLock", "collect"} /\ response' = "none"
    BY <1>1, <1>2, <1>3, <1>4 DEF NextChunk, Goto
  <2>2. Put([op |-> "last", img |-> Cmd.img]) /\ "last" \in Commands
    BY <1>1, <1>4 DEF Commands
  <2> QED
    BY <1>1, <1>2, <1>3, <1>4, <2>1, <2>2, MainAsks
<1>5. CASE chunk # Cmd.chunks
  <2>1. chunk' \in Nat /\ pc' \in {"dataLock", "collect", "data"}
    BY <1>1, <1>2 DEF NextChunk, Goto
  <2> DEFINE m == [op |-> "data", img |-> Cmd.img]
  <2>2. m \in Orders /\ ~Asks(m) /\ Put(m)
    BY <1>1, <1>3, <1>5 DEF Orders, Commands, Asks
  <2> HIDE DEF m
  <2> QED
    BY <1>1, <1>3, <2>1, <2>2, MainTells
<1> QED
  BY <1>4, <1>5

LEMMA JudgeTalks ==
    ASSUME TalkInv, Judge, ctl' = "aboot"
    PROVE  TalkInv'
<1>1. /\ UNCHANGED <<style, toMod, toHost, due, bootrom, flash, background, bad>>
      /\ pc = "judge"
  BY DEF Judge, Runs
<1>2. /\ OneAnswer /\ InTurn /\ AsOrdered /\ Meant /\ Programmed
      /\ line \in 1 .. Len(Script) + 3 /\ chunk \in Nat /\ response # "none"
  BY <1>1 DEF TalkInv, Talk, TalkTypes, OnlyImages, InTurn
<1>3. Len(Script) \in Nat /\ Len(Endings) = 3
  BY <1>2, CmdIs
<1>4. ASSUME Following PROVE pc' = "send" /\ line' = line + 1 /\ line' \in 1 .. Len(Script) + 3
  BY <1>2, <1>3, <1>4 DEF Following, Goto, Return
<1>5. CASE InTail /\ Following /\ UNCHANGED <<chunk, response>>
           /\ unread' = (unread \/ (response # "OKAY" /\ Cmd.op # "disconnect"))
  <2>1. ~unread' => ~unread /\ (response = "OKAY" \/ Cmd.op \notin {"flash", "complete"})
    BY <1>5
  <2> QED
    BY <1>1, <1>2, <1>4, <1>5, <2>1, MainGoesOn
<1>6. CASE line' = Len(Script) + 1 /\ Goto("send") /\ unread' = TRUE /\ UNCHANGED <<chunk, response>>
  <2>1. line' \in 1 .. Len(Script) + 3 /\ pc' = "send"
    BY <1>3, <1>6 DEF Goto
  <2> QED
    BY <1>1, <1>2, <1>6, <2>1, MainGoesOn
<1>7. CASE Op = "download" /\ response' = "none" /\ chunk' = 1 /\ Goto("data") /\ UNCHANGED <<line, unread>>
  <2>1. ~Awaited /\ Cmd.op = "download"
    BY <1>2, <1>7, CmdIs DEF OneAnswer
  <2>2. Cmd' = Cmd /\ AskedAt' = AskedAt /\ AnsweredAt' = AnsweredAt /\ Awaited' = Awaited
    BY <1>1, <1>7 DEF Cmd, InTail, AskedAt, AnsweredAt, Awaited
  <2>3. OnlyImages' /\ TalkTypes'
    BY <1>1, <1>7 DEF TalkInv, OnlyImages, TalkTypes
  <2>4. OneAnswer' /\ AsOrdered'
    BY <1>1, <1>2, <1>7, <2>2 DEF OneAnswer, AsOrdered
  <2>5. InTurn'
    BY <1>7, <2>1, <2>2 DEF InTurn, Goto
  <2>6. Meant' /\ Programmed'
    BY <1>1, <1>2, <1>7, <2>1, <2>2, TakenLeft DEF Meant, Programmed
  <2> QED
    BY <2>3, <2>4, <2>5, <2>6 DEF TalkInv, Talk
<1>8. CASE Op # "download" /\ Passes /\ Following /\ UNCHANGED <<chunk, response, unread>>
  <2>1. response = "OKAY" \/ Cmd.op \notin {"flash", "complete"}
    BY <1>2, <1>8, CmdIs DEF Passes
  <2> QED
    BY <1>1, <1>2, <1>4, <1>8, <2>1, MainGoesOn
<1>9. CASE chunk' = 0 /\ response = "OKAY" /\ Following /\ UNCHANGED <<response, unread>>
  BY <1>1, <1>2, <1>4, <1>9, MainGoesOn
<1>10. ~Return(FALSE)
  BY DEF Return
<1> QED
  BY <1>5, <1>6, <1>7, <1>8, <1>9, <1>10 DEF Judge

LEMMA MainTalks ==
    ASSUME TalkInv, AbootMain, ctl' = "aboot"
    PROVE  TalkInv'
BY SendTalks, WaitTalks, AckedTalks, SendChunkTalks, JudgeTalks DEF AbootMain

\* The types do not depend on the function that runs.
LEMMA MainTypes ==
    ASSUME OnlyImages, TalkTypes, AbootMain
    PROVE  TalkTypes'
<1>1. response' \in {response, "none"}
  BY DEF AbootMain, Send, Check, SliceEnds, NextSlice, Woken, Judge, SendChunk, WaitForAck, Acked,
         Collect
<1>2. chunk' \in {chunk, 0, 1, chunk + 1}
  BY DEF AbootMain, Send, Check, SliceEnds, NextSlice, Woken, Judge, SendChunk, WaitForAck, Acked,
         Collect, NextChunk
<1>3. UNCHANGED <<toHost, due>>
  BY DEF AbootMain, Send, Check, SliceEnds, NextSlice, Woken, Judge, SendChunk, WaitForAck, Acked,
         Collect
<1> QED
  BY <1>1, <1>2, <1>3 DEF TalkTypes

\* A success is the end of the last command, before which complete was answered.
LEMMA MainEnds ==
    ASSUME TalkInv, AbootMain, ret # "ok", ret' = "ok", chip = "EC200S", OwnWay
    PROVE  ctl' = "end" /\ SuccessComplete'
<1>1. line \in 1 .. Len(Script) + 3 /\ Programmed
  BY DEF TalkInv, Talk, OnlyImages
<1>2. ctl' = "end" /\ line = Len(Script) + 3 /\ (unread => unread')
  <2>1. Len(Endings) = 3 /\ (Cmd.op = "disconnect" <=> line = Len(Script) + 3)
    BY <1>1, CmdIs
  <2>2. \/ Stay \/ Return(FALSE)
        \/ Fail /\ UNCHANGED unread
        \/ Following /\ (unread => unread')
    <3>1. CASE Judge
      BY <3>1 DEF Judge, Goto
    <3>2. CASE Send \/ Check \/ SliceEnds \/ NextSlice
      BY <3>2 DEF Send, Check, SliceEnds, NextSlice, Goto
    <3>3. CASE Woken \/ SendChunk \/ WaitForAck \/ Acked \/ Collect
      BY <3>3 DEF Woken, SendChunk, WaitForAck, Acked, Collect, Ask, NextChunk, Goto
    <3> QED
      BY <3>1, <3>2, <3>3 DEF AbootMain
  <2>3. ASSUME Following PROVE ctl' = "end" /\ line = Len(Script) + 3
    BY <2>1, <2>3 DEF Following, Goto, Stay, Return
  <2> QED
    BY <2>1, <2>2, <2>3 DEF Fail, Return, Stay
<1>3. UNCHANGED <<chip, flash>>
  BY AbootMainKeeps DEF TalkInv
<1>4. \A p \in Kept : flash'[p] = "cal"
  BY <1>3 DEF OwnWay
<1>5. ASSUME ~unread, NEW p \in Images PROVE flash[p] = "new"
  <2>1. AllTaken
    BY <1>1, <1>2, <1>5 DEF Programmed
  <2>2. PICK k \in DOMAIN Script : Script[k].op = "flash" /\ Script[k].img = p
    BY AbootAssumption
  <2>3. k < line
    BY <1>1, <1>2, <2>2, CmdIs
  <2>4. Taken(p)
    BY <1>1, <1>5, <2>2, <2>3 DEF Programmed
  <2> QED
    BY <2>1, <2>4 DEF Taken, AllTaken
<1> QED
  BY <1>2, <1>3, <1>4, <1>5 DEF SuccessComplete
-----------------------------------------------------------------------------
(* The reader and the modem. *)

LEMMA ReaderTalks ==
    ASSUME TalkInv, Rx
    PROVE  TalkInv'
<1> DEFINE m == Head(toHost)
<1>1. /\ OneAnswer /\ InTurn /\ AsOrdered /\ Meant /\ Programmed /\ OnlyImages /\ TalkTypes
      /\ toHost \in Seq(Packets)
  BY DEF TalkInv, Talk, TalkTypes
<1>2. /\ UNCHANGED <<style, line, chunk, toMod, due, background, bad, flash, unread>>
      /\ toHost # <<>> /\ toHost' = Tail(toHost)
      /\ response' = IF m \in {"OKAY", "DATA", "SIZE", "FAIL"} THEN m
                     ELSE IF m = "CRANE" THEN "OKAY" ELSE response
      /\ pc' = IF pc = "wait" THEN "woken" ELSE IF pc = "dataWait" THEN "dataWoken" ELSE pc
  BY DEF Rx
<1>3. /\ toHost' \in Seq(Packets) /\ m \in Packets
      /\ 1 \in AnsweredAt <=> m \in Answers
      /\ \A i \in AnsweredAt' : i + 1 \in AnsweredAt /\ i + 1 # 1
      /\ m \in Positive => \E i \in DOMAIN toHost : toHost[i] \in Positive
      /\ (\E i \in DOMAIN toHost' : toHost'[i] \in Positive) =>
            \E i \in DOMAIN toHost : toHost[i] \in Positive
  BY <1>1, <1>2, ReadAt
<1> HIDE DEF m
<1>4. Cmd' = Cmd /\ AskedAt' = AskedAt
  BY <1>2 DEF Cmd, InTail, AskedAt
<1>5. OnlyImages' /\ TalkTypes'
  BY <1>1, <1>2, <1>3 DEF OnlyImages, TalkTypes
<1>6. AsOrdered' /\ Programmed'
  BY <1>1, <1>2, <1>4, TakenLeft DEF AsOrdered, Programmed
<1>7. Meant'
  <2>1. response' = "OKAY" /\ pc' # "send" => Said
    BY <1>2, <1>3 DEF Said, Positive, Answers, Packets
  <2>2. Said' => Said
    BY <1>2, <1>3, <2>1 DEF Said
  <2> QED
    BY <1>1, <1>2, <1>4, <2>2, TakenLeft DEF Meant
<1>8. CASE m \in Answers
  <2>1. AskedAt = {} /\ due = "none" /\ response = "none" /\ Awaited
    BY <1>1, <1>3, <1>8 DEF OneAnswer, Awaited
  <2>2. AnsweredAt' = {}
    BY <1>1, <1>3, <1>8 DEF OneAnswer
  <2>3. OneAnswer'
    BY <1>2, <1>4, <2>1, <2>2 DEF OneAnswer, Awaited
  <2>4. response' # "none"
    BY <1>2, <1>8 DEF Answers
  <2>5. InTurn'
    BY <1>1, <1>2, <1>4, <2>1, <2>4 DEF InTurn, Transfers
  <2> QED
    BY <1>5, <1>6, <1>7, <2>3, <2>5 DEF TalkInv, Talk
<1>9. CASE m \notin Answers
  <2>1. response' = response
    BY <1>2, <1>9 DEF Answers
  <2>2. Awaited' => Awaited
    BY <1>2, <1>3, <1>4 DEF Awaited
  <2>3. \A i, j \in AnsweredAt' : i = j
    <3> SUFFICES ASSUME NEW i \in AnsweredAt', NEW j \in AnsweredAt' PROVE i = j
      OBVIOUS
    <3>1. i \in Nat /\ j \in Nat
      BY <1>3 DEF AnsweredAt
    <3>2. i + 1 = j + 1
      BY <1>1, <1>3 DEF OneAnswer
    <3> QED
      BY <3>1, <3>2
  <2>4. OneAnswer'
    BY <1>1, <1>2, <1>3, <1>4, <2>1, <2>2, <2>3 DEF OneAnswer
  <2>5. InTurn'
    BY <1>1, <1>2, <1>4, <2>1, <2>2 DEF InTurn, Transfers
  <2> QED
    BY <1>5, <1>6, <1>7, <2>4, <2>5 DEF TalkInv, Talk
<1> QED
  BY <1>8, <1>9

\* The module has gone, and with it what was on its way.
LEMMA UnplugTalks ==
    ASSUME TalkInv, UNCHANGED <<hostVars, due, background, bad, flash, unread>>,
           toMod' = <<>>, toHost' = <<>>
    PROVE  TalkInv'
<1>1. OneAnswer /\ InTurn /\ AsOrdered /\ Meant /\ Programmed /\ OnlyImages /\ TalkTypes
  BY DEF TalkInv, Talk
<1>2. Cmd' = Cmd /\ AskedAt' = {} /\ AnsweredAt' = {} /\ (Awaited' => Awaited)
  BY DEF Cmd, InTail, AskedAt, AnsweredAt, Awaited
<1>3. OnlyImages' /\ TalkTypes'
  BY <1>1 DEF OnlyImages, TalkTypes
<1>4. OneAnswer' /\ AsOrdered' /\ InTurn'
  BY <1>1, <1>2 DEF OneAnswer, AsOrdered, InTurn
<1>5. Said' => Said
  BY DEF Said
<1>6. Meant' /\ Programmed'
  BY <1>1, <1>2, <1>5, TakenLeft DEF Meant, Programmed
<1> QED
  BY <1>3, <1>4, <1>6 DEF TalkInv, Talk

\* The answer to a question: it is sent, or kept until it is asked for.
LEMMA ModuleAnswers ==
    ASSUME TalkInv, OnlyImages', External, toMod # <<>>, Asks(Head(toMod)), TakesIt,
           NEW a \in Answers,
           \/ toHost' = Append(toHost, a) /\ UNCHANGED due
           \/ toHost' = Append(toHost, "empty") /\ due' = a,
           \A p : Taken(p) => Taken(p)',
           line = Len(Script) + 3 /\ AllTaken => AllTaken',
           a \in Positive => /\ Cmd.op = "flash" => Taken(Cmd.img)'
                             /\ Cmd.op = "complete" => AllTaken'
    PROVE  TalkInv'
<1>1. /\ OneAnswer /\ InTurn /\ AsOrdered /\ Meant /\ Programmed /\ TalkTypes
      /\ toHost \in Seq(Packets) /\ toMod \in Seq(Orders)
  BY DEF TalkInv, Talk, TalkTypes, OnlyImages
<1>2. UNCHANGED <<style, pc, line, chunk, response, unread>> /\ Cmd' = Cmd
  BY DEF External, Cmd, InTail
<1>3. /\ 1 \in AskedAt
      /\ \A i \in AskedAt' : i + 1 \in AskedAt /\ i + 1 # 1
  BY <1>1, TakenAt
<1>4. AskedAt' = {} /\ AnsweredAt = {} /\ due = "none" /\ response = "none" /\ Awaited
  BY <1>1, <1>3 DEF OneAnswer, Awaited
<1>5. a \in Packets /\ "empty" \in Packets /\ "empty" \notin Answers /\ "empty" \notin Positive
      /\ a # "none"
  BY DEF Packets, Answers, Positive
<1>6. /\ toHost' \in Seq(Packets) /\ due' \in Answers \cup {"none"}
      /\ \A i, j \in AnsweredAt' : i = j
      /\ AnsweredAt' # {} => due' = "none"
      /\ (\E i \in DOMAIN toHost' : toHost'[i] \in Positive) \/ due' \in Positive => a \in Positive
  <2>1. ~ \E i \in DOMAIN toHost : toHost[i] \in Positive
    BY <1>4 DEF AnsweredAt, Positive, Answers
  <2>2. CASE toHost' = Append(toHost, a) /\ UNCHANGED due
    BY <1>1, <1>4, <1>5, <2>1, <2>2, GotAt DEF Positive
  <2>3. CASE toHost' = Append(toHost, "empty") /\ due' = a
    BY <1>1, <1>4, <1>5, <2>1, <2>3, GotAt
  <2> QED
    BY <2>2, <2>3
<1>7. TalkTypes'
  BY <1>1, <1>2, <1>6 DEF TalkTypes
<1>8. OneAnswer' /\ AsOrdered'
  BY <1>2, <1>4, <1>6 DEF OneAnswer, AsOrdered
<1>9. InTurn'
  BY <1>1, <1>2, <1>4 DEF InTurn
<1>10. Meant'
  <2>1. Said' => a \in Positive
    BY <1>2, <1>4, <1>6 DEF Said
  <2> QED
    BY <1>2, <2>1 DEF Meant
<1>11. Programmed'
  BY <1>1, <1>2 DEF Programmed
<1> QED
  BY <1>7, <1>8, <1>9, <1>10, <1>11 DEF TalkInv, Talk

\* A packet that is no answer, to none that is a question.
LEMMA ModuleMurmurs ==
    ASSUME TalkInv, OnlyImages', External, UNCHANGED <<due, flash, background, bad>>,
           UNCHANGED toMod \/ (toMod # <<>> /\ ~Asks(Head(toMod)) /\ TakesIt),
           UNCHANGED toHost \/ \E x \in {"empty", "INFO"} : toHost' = Append(toHost, x)
    PROVE  TalkInv'
<1>1. /\ OneAnswer /\ InTurn /\ AsOrdered /\ Meant /\ Programmed /\ TalkTypes
      /\ toHost \in Seq(Packets) /\ toMod \in Seq(Orders)
  BY DEF TalkInv, Talk, TalkTypes, OnlyImages
<1>2. UNCHANGED <<style, pc, line, chunk, response, unread>> /\ Cmd' = Cmd
  BY DEF External, Cmd, InTail
<1>3. /\ \A i \in AskedAt' : \E j \in AskedAt : toMod'[i] = toMod[j]
      /\ \A i, k \in AskedAt' : i = k
  <2>1. CASE UNCHANGED toMod
    BY <1>1, <2>1 DEF AskedAt, OneAnswer
  <2>2. CASE toMod # <<>> /\ ~Asks(Head(toMod)) /\ TakesIt
    <3>1. \A i \in AskedAt' : i + 1 \in AskedAt /\ toMod'[i] = toMod[i + 1]
      BY <1>1, <2>2, TakenAt
    <3>2. AskedAt' \subseteq Nat
      <4>1. toMod' \in Seq(Orders)
        BY <1>1, <2>2, TakenAt
      <4> QED
        BY <4>1 DEF AskedAt
    <3>3. ASSUME NEW i \in AskedAt', NEW k \in AskedAt' PROVE i = k
      <4>1. i + 1 = k + 1 /\ i \in Nat /\ k \in Nat
        BY <1>1, <3>1, <3>2 DEF OneAnswer
      <4> QED
        BY <4>1
    <3> QED
      BY <3>1, <3>3
  <2> QED
    BY <2>1, <2>2
<1>4. /\ toHost' \in Seq(Packets) /\ AnsweredAt' = AnsweredAt
      /\ (\E i \in DOMAIN toHost' : toHost'[i] \in Positive) <=>
            \E i \in DOMAIN toHost : toHost[i] \in Positive
  <2>1. CASE UNCHANGED toHost
    BY <1>1, <2>1 DEF AnsweredAt
  <2>2. ASSUME NEW x \in {"empty", "INFO"}, toHost' = Append(toHost, x) PROVE <1>4
    <3>1. x \in Packets /\ x \notin Answers /\ x \notin Positive
      BY DEF Packets, Answers, Positive
    <3> QED
      BY <1>1, <2>2, <3>1, GotAt
  <2> QED
    BY <2>1, <2>2
<1>5. Awaited' => Awaited
  BY <1>3, <1>4 DEF Awaited
<1>6. TalkTypes'
  BY <1>1, <1>2, <1>4 DEF TalkTypes
<1>7. OneAnswer' /\ AsOrdered'
  BY <1>1, <1>2, <1>3, <1>4, <1>5 DEF OneAnswer, AsOrdered
<1>8. InTurn'
  BY <1>1, <1>2, <1>5 DEF InTurn
<1>9. Meant' /\ Programmed'
  BY <1>1, <1>2, <1>4, TakenLeft DEF Meant, Said, Programmed
<1> QED
  BY <1>6, <1>7, <1>8, <1>9 DEF TalkInv, Talk

\* A command is taken as the main thread has meant it.
LEMMA TheCommand ==
    ASSUME TalkInv, Takes({"getvar", "call", "nop", "download", "flash", "reboot", "complete", "disconnect"})
    PROVE  /\ toMod # <<>> /\ Asks(Head(toMod)) /\ 1 \in AskedAt
           /\ Head(toMod).op = "flash" <=> Cmd.op = "flash"
           /\ Head(toMod).op = "complete" <=> Cmd.op = "complete"
           /\ Head(toMod).img = Cmd.img
<1>1. toMod \in Seq(Orders) /\ toMod # <<>> /\ AsOrdered
  BY DEF TalkInv, Talk, OnlyImages, Takes
<1>2. Head(toMod) = toMod[1] /\ 1 \in DOMAIN toMod /\ Asks(Head(toMod))
  BY <1>1 DEF Takes, Asks
<1> QED
  BY <1>1, <1>2 DEF AskedAt, AsOrdered

LEMMA ObeysTalks ==
    ASSUME TalkInv, OnlyImages', ModuleObeys
    PROVE  TalkInv'
<1>1. /\ External /\ TakesIt /\ UNCHANGED <<flash, bad>>
      /\ Takes({"getvar", "call", "nop", "download", "flash", "reboot", "disconnect"})
  BY DEF ModuleObeys
<1>2. /\ toMod # <<>> /\ Asks(Head(toMod))
      /\ Head(toMod).op = "flash" <=> Cmd.op = "flash"
      /\ Cmd.op # "complete" /\ Head(toMod).img = Cmd.img
  BY <1>1, TheCommand DEF Takes
<1>3. PICK a \in {"DATA", "OKAY", "CRANE"} : Says(a)
  BY DEF ModuleObeys
<1>4. background \in Seq(Images) /\ line \in 1 .. Len(Script) + 3
  BY DEF TalkInv, OnlyImages
<1>5. Cmd' = Cmd /\ UNCHANGED line
  BY <1>1 DEF External, Cmd, InTail
<1>6. CASE Cmd.op = "flash"
  <2>1. Cmd.img \in Images /\ background' = Append(background, Cmd.img)
    BY <1>2, <1>4, <1>6, CmdIs DEF ModuleObeys
  <2>2. /\ Len(background) \in Nat /\ DOMAIN background = 1 .. Len(background)
        /\ DOMAIN background' = 1 .. Len(background) + 1
        /\ background'[Len(background) + 1] = Cmd.img
        /\ \A i \in 1 .. Len(background) : background'[i] = background[i]
    BY <1>4, <2>1
  <2>3. \A p : Taken(p) => Taken(p)'
    BY <1>1, <2>2 DEF Taken
  <2>4. Len(background) + 1 \in DOMAIN background'
    BY <2>2
  <2>5. Taken(Cmd.img)'
    BY <1>5, <2>2, <2>4 DEF Taken
  <2>6. line # Len(Script) + 3
    BY <1>4, <1>6, CmdIs
  <2> QED
    BY <1>1, <1>2, <1>3, <2>3, <2>5, <2>6, ModuleAnswers DEF Says, Answers
<1>7. CASE Cmd.op # "flash"
  <2>1. UNCHANGED background
    BY <1>2, <1>7 DEF ModuleObeys
  <2>2. (\A p : Taken(p)' <=> Taken(p)) /\ (AllTaken' <=> AllTaken)
    BY <1>1, <2>1, TakenLeft
  <2> QED
    BY <1>1, <1>2, <1>3, <1>7, <2>2, ModuleAnswers DEF Says, Answers
<1> QED
  BY <1>6, <1>7

LEMMA RefusesTalks ==
    ASSUME TalkInv, OnlyImages', ModuleRefuses
    PROVE  TalkInv'
<1>1. /\ External /\ TakesIt /\ UNCHANGED <<flash, background, bad>>
      /\ toMod # <<>> /\ Asks(Head(toMod))
  BY DEF ModuleRefuses, Takes, Asks
<1>2. PICK a \in {"FAIL", "SIZE"} : Says(a) \/ Received(a)
  BY DEF ModuleRefuses
<1>3. /\ \/ toHost' = Append(toHost, a) /\ UNCHANGED due
         \/ toHost' = Append(toHost, "empty") /\ due' = a
      /\ a \in Answers /\ a \notin Positive
  BY <1>2 DEF Says, Received, Answers, Positive
<1>4. (\A p : Taken(p)' <=> Taken(p)) /\ (AllTaken' <=> AllTaken)
  BY <1>1, TakenLeft
<1> QED
  BY <1>1, <1>3, <1>4, ModuleAnswers

LEMMA ReceivesTalks ==
    ASSUME TalkInv, OnlyImages', ModuleReceives
    PROVE  TalkInv'
<1>1. /\ External /\ TakesIt /\ UNCHANGED <<flash, background, bad>>
      /\ toMod # <<>> /\ Head(toMod).op \in {"data", "last"}
  BY DEF ModuleReceives, Takes
<1>2. CASE Head(toMod).op = "last"
  <2>1. /\ \/ toHost' = Append(toHost, "OKAY") /\ UNCHANGED due
           \/ toHost' = Append(toHost, "empty") /\ due' = "OKAY"
        /\ Asks(Head(toMod)) /\ "OKAY" \in Answers
    BY <1>2 DEF ModuleReceives, Received, Asks, Answers
  <2>2. (\A p : Taken(p)' <=> Taken(p)) /\ (AllTaken' <=> AllTaken)
    BY <1>1, TakenLeft
  <2>3. Cmd.op \notin {"flash", "complete"}
    <3>1. toMod \in Seq(Orders) /\ AsOrdered
      BY DEF TalkInv, Talk, OnlyImages
    <3>2. 1 \in AskedAt /\ toMod[1].op = "last"
      BY <1>1, <1>2, <2>1, <3>1, TakenAt
    <3> QED
      BY <3>1, <3>2 DEF AsOrdered
  <2> QED
    BY <1>1, <2>1, <2>2, <2>3, ModuleAnswers
<1>3. CASE Head(toMod).op # "last"
  <2>1. /\ UNCHANGED toHost \/ toHost' = Append(toHost, "empty")
        /\ UNCHANGED due /\ ~Asks(Head(toMod))
    BY <1>1, <1>3 DEF ModuleReceives, Asks
  <2> QED
    BY <1>1, <2>1, ModuleMurmurs
<1> QED
  BY <1>2, <1>3

LEMMA ProgrammesTalks ==
    ASSUME TalkInv, OnlyImages', ModuleProgrammes, flash \in [Parts -> Contents]
    PROVE  TalkInv'
<1>1. /\ OneAnswer /\ InTurn /\ AsOrdered /\ Meant /\ Programmed /\ TalkTypes
      /\ background \in Seq(Images)
  BY DEF TalkInv, Talk, OnlyImages
<1>2. /\ UNCHANGED <<style, pc, line, chunk, response, unread, toMod, toHost, due>> /\ Cmd' = Cmd
      /\ background # <<>> /\ background' = Tail(background)
  BY DEF ModuleProgrammes, External, Cmd, InTail
<1>3. Head(background) \in Images /\ Head(background) = background[1] /\ Head(background) \in Parts
  BY <1>1, <1>2 DEF Parts
<1>4. \/ bad'
      \/ /\ flash'[Head(background)] = "new" /\ UNCHANGED bad
         /\ \A p \in Images : flash[p] = "new" => flash'[p] = "new"
  <2>1. CASE flash' = [flash EXCEPT ![Head(background)] = "new"] /\ UNCHANGED <<bad, faulty>>
    <3>1. flash'[Head(background)] = "new" /\ \A p \in Parts : flash[p] = "new" => flash'[p] = "new"
      BY <1>3, <2>1
    <3> QED
      BY <2>1, <3>1 DEF Parts
  <2>2. CASE bad' = TRUE
    BY <2>2
  <2> QED
    BY <2>1, <2>2 DEF ModuleProgrammes
<1>5. \A i \in DOMAIN background : i # 1 =>
         \E j \in DOMAIN background' : background'[j] = background[i]
  <2> TAKE i \in DOMAIN background
  <2> HAVE i # 1
  <2>1. i - 1 \in DOMAIN background' /\ background'[i - 1] = background[i]
    BY <1>1, <1>2
  <2> QED
    BY <2>1
<1>6. ASSUME NEW p \in Images, Taken(p) PROVE Taken(p)'
  BY <1>3, <1>4, <1>5, <1>6 DEF Taken
<1>7. ~AllTaken
  BY <1>2 DEF AllTaken
<1>8. AskedAt' = AskedAt /\ AnsweredAt' = AnsweredAt /\ Awaited' = Awaited /\ Said' = Said
  BY <1>2 DEF AskedAt, AnsweredAt, Awaited, Said
<1>9. TalkTypes' /\ OneAnswer' /\ AsOrdered' /\ InTurn'
  BY <1>1, <1>2, <1>8 DEF TalkTypes, OneAnswer, AsOrdered, InTurn
<1>10. Meant'
  <2>1. Said => (Cmd.op = "flash" => Taken(Cmd.img)) /\ Cmd.op # "complete"
    BY <1>1, <1>7 DEF Meant
  <2>2. Cmd.op = "flash" => Cmd.img \in Images
    BY CmdIs DEF TalkInv, OnlyImages
  <2>3. Cmd.op = "flash" /\ Taken(Cmd.img) => Taken(Cmd.img)'
    BY <1>2, <1>6, <2>2
  <2> QED
    BY <1>2, <1>8, <2>1, <2>3 DEF Meant
<1>11. Programmed'
  BY <1>1, <1>2, <1>6, <1>7, AbootAssumption DEF Programmed
<1> QED
  BY <1>9, <1>10, <1>11 DEF TalkInv, Talk

LEMMA CompletesTalks ==
    ASSUME TalkInv, OnlyImages', ModuleCompletes
    PROVE  TalkInv'
<1>1. /\ External /\ TakesIt /\ UNCHANGED <<flash, background, bad>>
      /\ Takes({"complete"}) /\ background = <<>>
  BY DEF ModuleCompletes
<1>2. toMod # <<>> /\ Asks(Head(toMod)) /\ Cmd.op = "complete"
  BY <1>1, TheCommand DEF Takes
<1>3. (\A p : Taken(p)' <=> Taken(p)) /\ (AllTaken' <=> AllTaken)
  BY <1>1, TakenLeft
<1>4. CASE bad
  <2>1. Says("FAIL") /\ "FAIL" \in Answers /\ "FAIL" \notin Positive
    BY <1>4 DEF ModuleCompletes, Answers, Positive
  <2> QED
    BY <1>1, <1>2, <1>3, <2>1, ModuleAnswers DEF Says
<1>5. CASE ~bad
  <2>1. Says("OKAY") /\ "OKAY" \in Answers /\ AllTaken
    BY <1>1, <1>5 DEF ModuleCompletes, Answers, AllTaken
  <2> QED
    BY <1>1, <1>2, <1>3, <2>1, ModuleAnswers DEF Says
<1> QED
  BY <1>4, <1>5

LEMMA AskedTalks ==
    ASSUME TalkInv, OnlyImages', ModuleIsAsked
    PROVE  TalkInv'
<1>1. /\ OneAnswer /\ InTurn /\ AsOrdered /\ Meant /\ Programmed /\ TalkTypes
      /\ toHost \in Seq(Packets) /\ toMod \in Seq(Orders)
  BY DEF TalkInv, Talk, TalkTypes, OnlyImages
<1>2. /\ UNCHANGED <<style, pc, line, chunk, response, unread, flash, background, bad>> /\ Cmd' = Cmd
      /\ toMod # <<>> /\ TakesIt /\ due # "none" /\ due' = "none" /\ toHost' = Append(toHost, due)
  BY DEF ModuleIsAsked, External, Cmd, InTail, Takes
<1>3. AskedAt = {} /\ AnsweredAt = {} /\ response = "none" /\ Awaited /\ due \in Answers
  BY <1>1, <1>2 DEF OneAnswer, Awaited, TalkTypes
<1>4. AskedAt' = {}
  BY <1>1, <1>2, <1>3, TakenAt
<1>5. /\ toHost' \in Seq(Packets)
      /\ AnsweredAt' = {Len(toHost) + 1}
      /\ (\E i \in DOMAIN toHost' : toHost'[i] \in Positive) <=>
            due \in Positive \/ \E i \in DOMAIN toHost : toHost[i] \in Positive
  BY <1>1, <1>2, <1>3, GotAt DEF Packets
<1>6. TalkTypes' /\ OneAnswer' /\ AsOrdered' /\ InTurn'
  BY <1>1, <1>2, <1>3, <1>4, <1>5 DEF TalkTypes, OneAnswer, AsOrdered, InTurn
<1>7. Said' => Said
  BY <1>2, <1>5 DEF Said, Positive
<1>8. Meant' /\ Programmed'
  BY <1>1, <1>2, <1>7, TakenLeft DEF Meant, Programmed
<1> QED
  BY <1>6, <1>8 DEF TalkInv, Talk

LEMMA ReportsTalks ==
    ASSUME TalkInv, OnlyImages', ModuleReports
    PROVE  TalkInv'
<1>1. /\ External /\ UNCHANGED <<due, flash, background, bad>> /\ toHost' = Append(toHost, "INFO")
      /\ UNCHANGED toMod \/ (toMod # <<>> /\ ~Asks(Head(toMod)) /\ TakesIt)
  BY DEF ModuleReports, Takes, Asks
<1> QED
  BY <1>1, ModuleMurmurs

LEMMA ModuleTalks ==
    ASSUME TalkInv, AbootModule, flash \in [Parts -> Contents]
    PROVE  TalkInv'
<1>1. OnlyImages'
  BY AbootModuleKeeps DEF TalkInv
<1> QED
  BY <1>1, ObeysTalks, RefusesTalks, ReceivesTalks, ProgrammesTalks, CompletesTalks, AskedTalks,
     ReportsTalks DEF AbootModule
-----------------------------------------------------------------------------
(* The steps of the whole. *)

\* A success is told once, and nothing is written after it.
LEMMA SuccessLeft ==
    ASSUME Ended, SuccessComplete,
           ret' = "ok" => ret = "ok" /\ UNCHANGED <<ctl, flash, unsaved, cut, unread, unheard>>
    PROVE  Ended' /\ SuccessComplete'
BY DEF Ended, SuccessComplete

LEMMA BslSucceeds ==
    ASSUME IInv, SuccessInv, BslNext, UNCHANGED <<abootVars, fbfVars>>
    PROVE  SuccessInv'
<1>1. OwnWay /\ Written /\ TalkTypes /\ Ended
  BY DEF SuccessInv
<1>2. ctl = "dloader" /\ chip \in {"RG500U", "EC200U"} /\ UNCHANGED chip
  BY <1>1 DEF OwnWay, BslNext, Load, Backup, BackupEnds, Restore, RestoreEnds, WriteImage, Erase, Pass,
              NormalReset, Turn, InLoop, Flash
<1>3. ctl' \in {"dloader", "end"}
  BY <1>2 DEF BslNext, Load, Backup, BackupEnds, Restore, RestoreEnds, WriteImage, Erase, Pass,
              NormalReset, Loaded, Enter, Flash, Onward, NextItem, NextOther, Stay, GivesUp, Return,
              Turn, InLoop
<1>4. Written' /\ Ended' /\ SuccessComplete'
  BY <1>1, BslWrites DEF SuccessComplete
<1>5. OwnWay'
  BY <1>2, <1>3 DEF OwnWay
<1>6. TalkTypes'
  BY <1>1 DEF TalkTypes
<1>7. Burnt' /\ Answered'
  BY <1>3 DEF Burnt, Answered
<1> QED
  BY <1>4, <1>5, <1>6, <1>7 DEF SuccessInv

LEMMA AbootSucceeds ==
    ASSUME IInv, SuccessInv, AbootMain, UNCHANGED <<bslVars, fbfVars>>
    PROVE  SuccessInv'
<1>1. OwnWay /\ TalkTypes /\ Answered /\ Ended /\ SuccessComplete /\ OnlyImages
  BY DEF SuccessInv, IInv
<1>2. ctl = "aboot" /\ ctl' \in {"aboot", "end"}
  <2>1. ctl = "aboot"
    BY DEF AbootMain, Send, Check, SliceEnds, NextSlice, Woken, Judge, SendChunk, WaitForAck, Acked,
           Collect, Runs
  <2>2. Stay \/ Return(TRUE) \/ Return(FALSE)
    BY DEF AbootMain, Send, Check, SliceEnds, NextSlice, Woken, Judge, SendChunk, WaitForAck, Acked,
           Collect, Ask, Fail, Following, NextChunk, Goto, Return
  <2> QED
    BY <2>1, <2>2 DEF Stay, Return
<1>3. chip = "EC200S" /\ ret # "ok" /\ TalkInv
  BY <1>1, <1>2 DEF OwnWay, Ended, Answered, TalkInv
<1>4. UNCHANGED <<chip, flash>>
  BY <1>1, AbootMainKeeps
<1>5. TalkTypes' /\ Answered'
  BY <1>1, <1>3, MainTypes, MainTalks DEF Answered, TalkInv
<1>6. Ended' /\ SuccessComplete'
  <2>1. CASE ret' = "ok"
    BY <1>1, <1>3, <2>1, MainEnds DEF Ended
  <2>2. CASE ret' # "ok"
    BY <1>1, <2>2, SuccessLeft
  <2> QED
    BY <2>1, <2>2
<1>7. OwnWay' /\ Written' /\ Burnt'
  BY <1>1, <1>2, <1>3, <1>4 DEF OwnWay, Written, Burnt
<1> QED
  BY <1>5, <1>6, <1>7 DEF SuccessInv

\* The reader, the modem of aboot, and a module that leaves during a download.
LEMMA ModemSucceeds ==
    ASSUME IInv, SuccessInv, UNCHANGED <<chip, ctl, ret, bslVars, fbfVars, unread>>,
           ctl = "aboot", TalkInv',
           flash' \in [Parts -> Contents], \A p \in Kept : flash'[p] = flash[p]
    PROVE  SuccessInv'
<1>1. OwnWay /\ Ended /\ SuccessComplete /\ ret # "ok"
  BY DEF SuccessInv, Ended
<1>2. TalkTypes' /\ Answered'
  BY DEF TalkInv, Answered
<1>3. Ended' /\ SuccessComplete'
  BY <1>1, SuccessLeft
<1>4. OwnWay' /\ Written' /\ Burnt'
  BY <1>1 DEF OwnWay, Written, Burnt
<1> QED
  BY <1>2, <1>3, <1>4 DEF SuccessInv

LEMMA FbfSucceeds ==
    ASSUME IInv, SuccessInv, FbfMain \/ ModuleBurns, UNCHANGED <<bslVars, abootVars>>
    PROVE  SuccessInv'
<1>1. OwnWay /\ Burnt /\ TalkTypes /\ Ended /\ SuccessComplete /\ flash \in [Parts -> Contents]
  BY DEF SuccessInv, IInv, Holdings
<1>2. ctl = "fbf" /\ ctl' \in {"fbf", "end"} /\ UNCHANGED chip
  BY DEF FbfMain, Greet, Select, Header, SpinEnds, SendFile, Message, Bye, ModuleBurns, At, On, Stay,
         Works, GivesUp, Return
<1>3. chip = "EC200T" /\ ret # "ok" /\ \A p \in Kept : flash[p] = "cal"
  BY <1>1, <1>2 DEF OwnWay, Ended
<1>4. \A p \in Kept : flash'[p] = "cal"
  <2>1. CASE FbfMain
    BY <1>3, <2>1 DEF FbfMain, Greet, Select, Header, SpinEnds, SendFile, Message, Bye
  <2>2. CASE ModuleBurns
    BY <1>1, <1>3, <2>2, PartsAssumption DEF ModuleBurns, Parts
  <2> QED
    BY <2>1, <2>2
<1>5. OwnWay' /\ Written' /\ Answered' /\ TalkTypes'
  BY <1>1, <1>2, <1>3, <1>4 DEF OwnWay, Written, Answered, TalkTypes
<1>6. CASE Bye
  <2>1. UNCHANGED <<flash, unheard>> /\ ctl' = "end" /\ (~unheard => burning = "done")
    BY <1>1, <1>6 DEF Bye, Burnt, At, Return
  <2>2. ~unheard => \A p \in Images : flash[p] = "new"
    BY <1>1, <1>2, <2>1 DEF Burnt
  <2>3. Burnt' /\ Ended'
    BY <2>1 DEF Burnt, Ended
  <2>4. SuccessComplete'
    BY <1>4, <2>1, <2>2 DEF SuccessComplete
  <2> QED
    BY <1>5, <2>3, <2>4 DEF SuccessInv
<1>7. CASE ModuleBurns
  <2>1. /\ burning = "busy" /\ UNCHANGED <<ctl, ret, step, unheard>>
        /\ burning' = "done" => \A p \in Images : flash'[p] = "new"
    BY <1>7 DEF ModuleBurns, Parts
  <2>2. Burnt'
    BY <1>1, <2>1 DEF Burnt
  <2>3. Ended' /\ SuccessComplete'
    BY <1>1, <1>3, <2>1, SuccessLeft
  <2> QED
    BY <1>5, <2>2, <2>3 DEF SuccessInv
<1>8. CASE FbfMain /\ ~Bye
  <2>1. UNCHANGED flash /\ ret' # "ok"
    BY <1>3, <1>8 DEF FbfMain, Greet, Select, Header, SpinEnds, SendFile, Message, On, Stay, GivesUp, Return
  <2>2. Burnt'
    <3>1. CASE ctl' # "fbf"
      BY <3>1 DEF Burnt
    <3>2. CASE ctl' = "fbf" /\ Message
      BY <1>1, <2>1, <3>2 DEF Burnt, Message, At, On, GivesUp, Return
    <3>3. CASE ctl' = "fbf" /\ (Greet \/ Select \/ Header \/ SpinEnds \/ SendFile)
      <4>1. step' # "bye"
        BY <3>3 DEF Greet, Select, Header, SpinEnds, SendFile, At, On, GivesUp, Return
      <4>2. burning' = "done" => burning = "done"
        BY <3>3 DEF Greet, Select, Header, SpinEnds, SendFile
      <4> QED
        BY <1>1, <1>2, <2>1, <4>1, <4>2 DEF Burnt
    <3> QED
      BY <1>2, <1>8, <3>1, <3>2, <3>3 DEF FbfMain
  <2>3. Ended' /\ SuccessComplete'
    BY <1>1, <2>1, SuccessLeft
  <2> QED
    BY <1>5, <2>2, <2>3 DEF SuccessInv
<1> QED
  BY <1>6, <1>7, <1>8

\* A downloader begins: nothing is written, asked, or burnt.
LEMMA FoundSucceeds ==
    ASSUME IInv, SuccessInv, Found
    PROVE  SuccessInv'
<1>1. OwnWay /\ TalkTypes /\ Ended /\ SuccessComplete /\ OnlyImages
  BY DEF SuccessInv, IInv
<1>2. UNCHANGED <<chip, flash>> /\ ctl = "scan" /\ ret # "ok" /\ ret' # "ok"
  BY <1>1 DEF Found, Dispatch, DloaderStart, FbfStart, AbootStart, Return, Ended
<1>3. Ended' /\ SuccessComplete'
  BY <1>1, <1>2, SuccessLeft
<1>4. OwnWay'
  BY <1>1, <1>2 DEF OwnWay, Found, Dispatch, DloaderStart, FbfStart, AbootStart, Return
<1>5. Written'
  <2> SUFFICES ASSUME ctl' = "dloader" PROVE Written'
    BY DEF Written
  <2>1. loop' = "items" /\ item' = 1 /\ Items' = Items /\ chip \in {"RG500U", "EC200U"}
    BY <1>2 DEF Found, Dispatch, DloaderStart, FbfStart, AbootStart, Return, Items
  <2>2. DOMAIN Items = 1 .. Len(Items) /\ Len(Items) \in Nat
    BY <2>1, ItemsListed
  <2>3. ~Past(item)' /\ \A k \in DOMAIN Items : ~(k < 1)
    BY <2>1, <2>2 DEF Past
  <2> QED
    BY <2>1, <2>3 DEF Written
<1>6. Burnt'
  BY DEF Burnt, Found, Dispatch, DloaderStart, FbfStart, AbootStart, Return
<1>7. CASE UNCHANGED abootVars /\ ctl' # "aboot"
  <2>1. TalkTypes' /\ Answered'
    BY <1>1, <1>7 DEF TalkTypes, Answered
  <2> QED
    BY <1>3, <1>4, <1>5, <1>6, <2>1 DEF SuccessInv
<1>8. CASE AbootStart /\ ctl' = "aboot"
  <2>1. /\ pc' = "send" /\ line' = 1 /\ chunk' = 0 /\ response' = "none"
        /\ toMod' = <<>> /\ toHost' = <<>> /\ due' = "none" /\ background' = <<>> /\ bad' = FALSE
    BY <1>8 DEF AbootStart, Return
  <2>2. TalkTypes'
    BY <2>1 DEF TalkTypes
  <2>3. AskedAt' = {} /\ AnsweredAt' = {} /\ ~Awaited'
    BY <2>1 DEF AskedAt, AnsweredAt, Awaited
  <2>4. OneAnswer' /\ InTurn' /\ AsOrdered'
    BY <2>1, <2>3 DEF OneAnswer, InTurn, AsOrdered, Transfers
  <2>5. Meant'
    BY <2>1 DEF Meant, Said, Positive
  <2>6. Programmed'
    <3>1. Len(Script) \in Nat /\ DOMAIN Script = 1 .. Len(Script)
      BY AbootAssumption
    <3>2. \A k \in DOMAIN Script : ~(k < 1)
      BY <3>1
    <3>3. 1 # Len(Script) + 3
      BY <3>1
    <3> QED
      BY <2>1, <3>2, <3>3 DEF Programmed
  <2>7. Answered'
    BY <2>4, <2>5, <2>6 DEF Answered, Talk
  <2> QED
    BY <1>3, <1>4, <1>5, <1>6, <2>2, <2>7 DEF SuccessInv
<1> QED
  BY <1>7, <1>8 DEF Found, Dispatch, DloaderStart, FbfStart, AbootStart, Return

LEMMA StepSucceeds ==
    ASSUME IInv, SuccessInv, [Next]_vars
    PROVE  SuccessInv'
<1>1. OwnWay /\ Written /\ Burnt /\ TalkTypes /\ Answered /\ Ended /\ SuccessComplete
      /\ flash \in [Parts -> Contents] /\ OnlyImages
  BY DEF SuccessInv, IInv, Holdings
<1>2. CASE BslNext /\ UNCHANGED <<abootVars, fbfVars, mainVars>>
  BY <1>2, BslSucceeds
<1>3. CASE AbootMain /\ UNCHANGED <<bslVars, fbfVars, mainVars>>
  BY <1>3, AbootSucceeds
<1>4. CASE (FbfMain \/ ModuleBurns) /\ UNCHANGED <<bslVars, abootVars, mainVars>>
  BY <1>4, FbfSucceeds
<1>5. CASE AbootModule /\ UNCHANGED <<bslVars, fbfVars, mainVars>>
  <2>1. ctl = "aboot" /\ UNCHANGED <<chip, ctl, ret, unread>>
    BY <1>5 DEF AbootModule, ModuleObeys, ModuleRefuses, ModuleReceives, ModuleProgrammes,
           ModuleCompletes, ModuleIsAsked, ModuleReports, Takes, External
  <2>2. TalkInv
    BY <1>1, <2>1 DEF TalkInv, Answered
  <2> QED
    BY <1>1, <1>5, <2>1, <2>2, ModuleTalks, AbootModuleKeeps, ModemSucceeds
<1>6. CASE Rx /\ UNCHANGED <<bslVars, fbfVars, mainVars>>
  <2>1. ctl = "aboot" /\ UNCHANGED <<chip, ctl, ret, flash, unread>>
    BY <1>6 DEF Rx
  <2>2. TalkInv
    BY <1>1, <2>1 DEF TalkInv, Answered
  <2> QED
    BY <1>1, <1>6, <2>1, <2>2, ReaderTalks, ModemSucceeds
<1>7. CASE Found
  BY <1>7, FoundSucceeds
<1>8. CASE NotFound \/ NoModem \/ Told \/ Switched \/ OpenFails \/ Rerun
  <2>1. /\ UNCHANGED <<chip, flash, bslVars, abootVars, fbfVars>>
        /\ ctl' \notin {"dloader", "aboot", "fbf"} /\ ret' # "ok"
    BY <1>1, <1>8 DEF NotFound, NoModem, Told, Switched, OpenFails, Rerun, Return, Ended
  <2>2. OwnWay' /\ Written' /\ Burnt' /\ TalkTypes' /\ Answered'
    BY <1>1, <2>1 DEF OwnWay, Written, Burnt, TalkTypes, Answered
  <2>3. Ended' /\ SuccessComplete'
    BY <1>1, <2>1, SuccessLeft
  <2> QED
    BY <2>2, <2>3 DEF SuccessInv
<1>9. CASE Unplugged \/ Appears \/ Terminated \/ UNCHANGED vars
  <2>1. /\ UNCHANGED <<chip, ctl, ret, flash, bslVars, fbfVars, hostVars, due, background, bad, unread>>
        /\ UNCHANGED <<toMod, toHost>> \/ (toMod' = <<>> /\ toHost' = <<>>)
    BY <1>9 DEF Unplugged, Appears, Terminated
  <2>2. OwnWay' /\ Burnt' /\ TalkTypes'
    <3>1. OwnWay' /\ Burnt'
      BY <1>1, <2>1 DEF OwnWay, Burnt
    <3>2. toHost' \in Seq(Packets)
      <4>1. toHost \in Seq(Packets)
        BY <1>1 DEF TalkTypes
      <4>2. <<>> \in Seq(Packets)
        OBVIOUS
      <4>3. toHost' = toHost \/ toHost' = <<>>
        BY <2>1
      <4> QED
        BY <4>1, <4>2, <4>3
    <3>3. TalkTypes'
      BY <1>1, <2>1, <3>2 DEF TalkTypes
    <3> QED
      BY <3>1, <3>3
  <2>3. Written'
    BY <1>1, <2>1, WrittenLeft
  <2>4. Ended' /\ SuccessComplete'
    BY <1>1, <2>1, SuccessLeft
  <2>5. Answered'
    <3> SUFFICES ASSUME ctl = "aboot" PROVE Talk'
      BY <2>1 DEF Answered
    <3>1. TalkInv
      BY <1>1 DEF TalkInv, Answered
    <3>2. CASE toMod' = <<>> /\ toHost' = <<>>
      BY <2>1, <3>1, <3>2, UnplugTalks DEF TalkInv
    <3>3. CASE UNCHANGED <<toMod, toHost>>
      <4>1. Cmd' = Cmd /\ AskedAt' = AskedAt /\ AnsweredAt' = AnsweredAt /\ Awaited' = Awaited
        BY <2>1, <3>3 DEF Cmd, InTail, AskedAt, AnsweredAt, Awaited
      <4>2. OneAnswer /\ InTurn /\ AsOrdered /\ Meant /\ Programmed
        BY <3>1 DEF TalkInv, Talk
      <4>3. OneAnswer' /\ InTurn' /\ AsOrdered'
        BY <2>1, <3>3, <4>1, <4>2 DEF OneAnswer, InTurn, AsOrdered
      <4>4. Meant' /\ Programmed'
        BY <2>1, <3>3, <4>1, <4>2, TakenLeft DEF Meant, Said, Programmed
      <4> QED
        BY <4>3, <4>4 DEF Talk
    <3> QED
      BY <2>1, <3>2, <3>3
  <2> QED
    BY <2>2, <2>3, <2>4, <2>5 DEF SuccessInv
<1> QED
  BY <1>2, <1>3, <1>4, <1>5, <1>6, <1>7, <1>8, <1>9 DEF Next, Main, Reader, Module

LEMMA BeginsToSucceed == Init => SuccessInv
<1> SUFFICES ASSUME Init PROVE SuccessInv
  OBVIOUS
<1>1. ctl = "scan" /\ ret = "none" /\ \A p \in Kept : flash[p] = "cal"
  BY DEF Init, Parts
<1>2. OwnWay /\ Written /\ Burnt /\ Answered /\ Ended /\ SuccessComplete
  BY <1>1 DEF OwnWay, Written, Burnt, Answered, Ended, SuccessComplete
<1>3. TalkTypes
  BY DEF Init, AbootInit, TalkTypes
<1> QED
  BY <1>2, <1>3 DEF SuccessInv

\* The upgrade that main() reports as successful has put all images in the
\* module and left what was to be kept, whichever of the downloaders ran, unless
\* it is one of the named exceptions (test_bsl, aboot_main, fbfdownloader_main).
THEOREM SuccessIsComplete == Spec => []SuccessComplete
<1>1. Init => IInv /\ SuccessInv
  BY Begins, BeginsToSucceed
<1>2. IInv /\ SuccessInv /\ [Next]_vars => (IInv /\ SuccessInv)'
  BY StepKeeps, StepSucceeds
<1>3. IInv /\ SuccessInv => SuccessComplete
  BY DEF SuccessInv
<1> QED
  BY <1>1, <1>2, <1>3, PTL DEF Spec
=============================================================================
