--------------------------------- MODULE Bsl ---------------------------------
(***************************************************************************)
(* dloader_main of QDloader 1.0.1 (RG500U, EC200U): two loaders are sent   *)
(* to the module, the partitions to keep are read into files of the host,  *)
(* the flash is partitioned anew, and the images of the package written.   *)
(*                                                                         *)
(* Each request has one answer, and whatever goes wrong ends the download, *)
(* so that a request, or all those which transfer a partition, are a step. *)
(* The files of an earlier run are still there when the tool is run again. *)
(***************************************************************************)
EXTENDS Usbfs

CONSTANTS
    Scheme   \* [chip -> SchemeList of its package], of [id, kind]

\* "trim" is kept too, but has CheckFlag '0' and an image shorter than its copy.
Keeps(x) == x.kind \in {"nv", "keep", "trim"}
Kinds == {"loader", "fdl2", "nv", "keep", "trim", "image", "skip", "erase"}

\* The package has an image for what it names, and one second loader (FDL2),
\* listed before the partitions: until it runs, there is nobody to read or
\* write them. It lists all partitions, those to keep once (their files have
\* the name of the item), and has one NV (FileisNV).
Listed(s) ==
    /\ s \in Seq([id : STRING, kind : Kinds])
    /\ \E f \in DOMAIN s : \A i \in DOMAIN s :
          /\ s[i].kind = "fdl2" <=> i = f
          /\ Keeps(s[i]) => i > f /\ s[i].id \in Kept
          /\ s[i].kind = "image" => i > f /\ s[i].id \in Images
    /\ \A p \in Kept : \E i \in DOMAIN s : Keeps(s[i]) /\ s[i].id = p
    /\ \A p \in Images : \E i \in DOMAIN s : s[i].kind = "image" /\ s[i].id = p
    /\ \A i, j \in DOMAIN s : Keeps(s[i]) /\ Keeps(s[j]) /\ s[i].id = s[j].id => i = j
    /\ \A i, j \in DOMAIN s : s[i].kind = "nv" /\ s[j].kind = "nv" => i = j

ASSUME SchemeAssumption == Listed(Scheme["RG500U"]) /\ Listed(Scheme["EC200U"])

VARIABLES
    loop,         \* of test_bsl: "items", or within it "backup" and "restore"
    item,         \* i, and
    other,        \* j of the loops within
    file,         \* /tmp/quectel_back_*: [Kept -> contents, or "none"]
    nvBuf,        \* the image of the NV with what was merged into it
    unsaved,      \* ghost: partitions without a whole copy in their file, which was
                  \* opened when it had the only one, or closed as if it had one
    cut           \* ghost: partitions this run wrote short, or merged, without a word

loopVars == <<loop, item, other>>
bslVars == <<loopVars, file, nvBuf, unsaved, cut>>

udx710 == chip = "RG500U"
Items == Scheme[chip]

BslInit ==
    /\ loop = "items" /\ item = 1 /\ other = 1 /\ nvBuf = "none"
    /\ file = [p \in Kept |-> "none"] /\ unsaved = {} /\ cut = {}

\* test_bsl, or at once -1: the RM500U is sent here and turned away.
DloaderStart ==
    IF chip \in {"RG500U", "EC200U"}
    THEN /\ ctl' = "dloader" /\ loop' = "items" /\ item' = 1 /\ other' = 1 /\ nvBuf' = "none"
         /\ cut' = {} /\ UNCHANGED <<ret, file, unsaved>>
    ELSE Return(FALSE) /\ UNCHANGED bslVars

\* The item whose turn it is, and the one before or after it in its loop.
InLoop(l) == ctl = "dloader" /\ loop = l
Turn(l) == InLoop(l) /\ IF l = "restore" THEN other > item
                        ELSE (IF l = "items" THEN item ELSE other) <= Len(Items)
This == Items[IF loop = "items" THEN item ELSE other]

NextItem == loop' = "items" /\ item' = item + 1 /\ Stay /\ UNCHANGED other
NextOther(j) == other' = j /\ Stay /\ UNCHANGED <<loop, item>>
Onward ==
    CASE loop = "items" -> NextItem
      [] loop = "backup" -> NextOther(other + 1)
      [] loop = "restore" -> NextOther(other - 1)

\* An inner loop of the second loader.
Enter(l, j) == loop' = l /\ other' = j /\ Stay /\ UNCHANGED item

\* Faulty: what is to be kept is not read.
LoadedInHaste ==
    IF This.kind = "fdl2" THEN Enter("backup", Len(Items) + 1) ELSE NextItem

\* Once the second loader runs, all partitions to keep are read.
Loaded == IF This.kind = "fdl2" THEN Enter("backup", item) ELSE NextItem

\* Hello and CONNECT, the loader, EXEC; DISABLE_TRANSCODE or CHANGE_BAUD.
Load ==
    /\ Turn("items") /\ This.kind \in {"loader", "fdl2"}
    /\ \/ Works("dloader") /\ Loaded
       \/ GivesUp("dloader") /\ UNCHANGED loopVars
    /\ UNCHANGED <<chip, mode, flash, file, nvBuf, unsaved, cut>>

\* The file is opened for writing with the first data, and the copy in it gone.
\* The last of the data may be lost, since the result of fclose is not looked at.
Copy(p) ==
    \E c \in {flash[p], "some"} :
        /\ file' = [file EXCEPT ![p] = c]
        /\ unsaved' = IF c = "cal" THEN unsaved \ {p} ELSE unsaved \cup {p}

\* No copy, or half of one; the flash has what it had.
CopyFails(p) ==
    \/ UNCHANGED <<file, unsaved>>
    \/ /\ \E c \in {flash[p], "some"} : file' = [file EXCEPT ![p] = c]
       /\ unsaved' = IF flash[p] = "cal" THEN unsaved ELSE unsaved \cup {p}

\* nv_merg_file: the image with those values of c, the copy, that it has a place
\* for, where the others are passed over. An EC200U takes a blank NV for an empty
\* one. It may also fail, in which case the download ends.
Merged(c) ==
    CASE c = "cal" -> {"cal", "some"}
      [] c # "cal" /\ ~(c = "blank" /\ udx710) -> {"some", "plain"}
      [] OTHER -> {}

Backup ==
    /\ Turn("backup") /\ Keeps(This)
    /\ \/ /\ Works("dloader") /\ Copy(This.id) /\ Onward
          /\ IF This.kind = "nv"
             THEN /\ nvBuf' \in Merged(file'[This.id])
                  /\ cut' = cut \cup {p \in {This.id} : file'[p] = "cal" /\ nvBuf' # "cal"}
             ELSE UNCHANGED <<nvBuf, cut>>
       \/ GivesUp("dloader") /\ CopyFails(This.id) /\ UNCHANGED <<loopVars, nvBuf, cut>>
    /\ UNCHANGED <<chip, mode, flash>>

\* The end of the backups. The RG500U is partitioned anew, and what is left of
\* the partitions its own affair; all is written back, the last item first.
BackupEnds ==
    /\ InLoop("backup") /\ other > Len(Items)
    /\ IF udx710
       THEN /\ flash' \in {flash, [p \in Parts |-> "blank"]}
            /\ \/ Works("dloader") /\ Enter("restore", other - 1)
               \/ GivesUp("dloader") /\ UNCHANGED loopVars
       ELSE NextItem /\ UNCHANGED <<flash, faulty>>
    /\ UNCHANGED <<chip, mode, file, nvBuf, unsaved, cut>>

\* What bsl_flash_id has written of c when it is content. Of a file, whose reading
\* may end early, that can be the beginning or nothing; the copy with CheckFlag '0'
\* goes as far as its image is long, and a copy that cannot be opened any more is
\* replaced by the image. The NV is in memory.
Sent(x, c) ==
    CASE x.kind = "nv" -> {c}
      [] x.kind = "image" -> Halfway(x.id, c)
      [] x.kind = "keep" \/ (x.kind = "trim" /\ ~udx710) -> Halfway(x.id, c) \cup {"plain"}
      [] x.kind = "trim" /\ udx710 -> {flash[x.id], "some", "plain"}

\* bsl_flash_id: START_DATA, MIDST_DATA and END_DATA with the contents c.
Flash(c) ==
    /\ \/ \E h \in Sent(This, c) :
            /\ Works("dloader") /\ Onward
            /\ flash' = [flash EXCEPT ![This.id] = h]
            /\ cut' = cut \cup {p \in {This.id} : h # c}
       \/ /\ GivesUp("dloader") /\ UNCHANGED <<loopVars, cut>>
          /\ \E h \in Halfway(This.id, c) : flash' = [flash EXCEPT ![This.id] = h]
    /\ UNCHANGED <<chip, mode, file, nvBuf, unsaved>>

\* Those of the EC200U are written back in their turn.
Restore ==
    /\ Turn("restore") \/ (Turn("items") /\ ~udx710)
    /\ Keeps(This) /\ Flash(IF This.kind = "nv" THEN nvBuf ELSE file[This.id])

RestoreEnds ==
    /\ InLoop("restore") /\ other = item /\ NextItem
    /\ UNCHANGED <<chip, mode, flash, faulty, file, nvBuf, unsaved, cut>>

WriteImage == Turn("items") /\ This.kind = "image" /\ Flash("new")

\* bsl_erase_id, of partitions that have no image.
Erase ==
    /\ Turn("items") /\ This.kind = "erase"
    /\ \/ Works("dloader") /\ NextItem
       \/ GivesUp("dloader") /\ UNCHANGED loopVars
    /\ UNCHANGED <<chip, mode, flash, file, nvBuf, unsaved, cut>>

\* The items a loop has nothing to do with.
Pass ==
    /\ \/ Turn("items") /\ (This.kind = "skip" \/ (Keeps(This) /\ udx710))
       \/ (Turn("backup") \/ Turn("restore")) /\ ~Keeps(This)
    /\ Onward
    /\ UNCHANGED <<chip, mode, flash, faulty, file, nvBuf, unsaved, cut>>

\* After all items, NORMAL_RESET.
NormalReset ==
    /\ InLoop("items") /\ item > Len(Items)
    /\ \/ Works("dloader") /\ Return(TRUE)
       \/ GivesUp("dloader")
    /\ UNCHANGED <<chip, mode, flash, bslVars>>

BslNext ==
    \/ Load \/ Backup \/ BackupEnds \/ Restore \/ RestoreEnds
    \/ WriteImage \/ Erase \/ Pass \/ NormalReset

\* Each partition to keep is in the module or in its file, whichever request
\* fails and however often the tool is run again - unless the file was the
\* only copy and another run has opened it for writing (bsl_backup_id does not
\* look whether the module has something to save), or was closed when not all
\* was in it (it does not look at fclose either).
CalibrationKept ==
    \A p \in Kept : flash[p] = "cal" \/ file[p] = "cal" \/ p \in unsaved
=============================================================================
