------------------------------ MODULE Download ------------------------------
(***************************************************************************)
(* Getting one model of the catalog onto the disk (main.rs): the commands  *)
(* start and models, the tarball, the files of the CDN with their retries  *)
(* and resumed transfers, and the scan that decides what is there          *)
(* (models.rs).                                                            *)
(*                                                                         *)
(* A weight file is the sequence of chunks written to it; the published    *)
(* file is 1, 2, ..., Size and does not change.  Any transfer may break    *)
(* off and the command may be killed between any two steps, any number of  *)
(* times.                                                                  *)
(***************************************************************************)
EXTENDS Integers, Sequences, FiniteSets

CONSTANTS
    Layouts,    \* the ways a model may be published: sequences of weight files
    Size,       \* chunks of a weight file
    Threshold,  \* 500 MB, in chunks
    MaxRetries  \* 3

Single == <<"model">>     \* model.safetensors alone
Weights == UNION {{lay[i] : i \in 1..Len(lay)} : lay \in Layouts}

ASSUME DownloadAssumption ==
    /\ Size \in Nat \ {0} /\ Threshold \in Nat /\ MaxRetries \in Nat
    /\ \A lay \in Layouts :
          /\ lay \in Seq(STRING) /\ lay # <<>>
          /\ \A i, j \in 1..Len(lay) : lay[i] = lay[j] => i = j  \* each shard once

VARIABLES
    layout,  \* how the model is published
    name,    \* what its name says: "mlx" | "quantized" | "plain"
    tarball, \* a tarball is published as well
    wfile,   \* the weight files in the cache directory
    cfgJson,  \* config.json is there
    index,   \* the index of the shards is there
    dpc,     \* where the command is; how the last one ended
    at,      \* which weight file is being fetched
    pos,     \* the chunk the server sends next
    try,     \* attempt
    clean    \* nothing has failed since the command began

dlVars == <<layout, name, tarball, wfile, cfgJson, index, dpc, at, pos, try, clean>>
published == <<layout, name, tarball>>

Returned == {"idle", "true", "false", "serve", "already"}

DlInit ==
    /\ layout \in Layouts /\ name \in {"mlx", "quantized", "plain"} /\ tarball \in BOOLEAN
    /\ wfile = [f \in Weights |-> <<>>] /\ cfgJson = FALSE /\ index = FALSE
    /\ dpc = "idle" /\ at = 1 /\ pos = 1 /\ try = 0 /\ clean = TRUE

ModelFiles == {layout[i] : i \in 1..Len(layout)}
Whole(s) == s = [i \in 1..Size |-> i]
Current == layout[at]

DlGoto(l) == dpc' = l

-----------------------------------------------------------------------------
(* What is on the disk.                                                    *)

(* collect_weight_files: the bytes of all weight files.                    *)
TotalSize == LET chunks == {c \in ModelFiles \X (1..Size) : c[2] <= Len(wfile[c[1]])}
             IN  Cardinality(chunks)

(* An MLX model is known by its name or by its files.                      *)
is_mlx_model ==
    LET hasWeights == index \/ (layout = Single /\ wfile["model"] # <<>>)
    IN  \/ name = "mlx"
        \/ name = "quantized" /\ hasWeights
        \/ hasWeights /\ cfgJson

(* parse_model_info_opt: a model has weights; config.json may be missing.   *)
HasInfo == TotalSize > 0

(* scan_models_in_dir.  (The models are small enough for the machine.)     *)
Scanned == is_mlx_model /\ HasInfo

(* cmd_start compares with the size of model.safetensors when a HEAD       *)
(* request tells one, for a sharded model the size of an error page, and   *)
(* else with 500 MB.                                                       *)
TakenAsComplete(headOK) ==
    /\ Scanned
    /\ IF ~headOK THEN TotalSize > Threshold
       ELSE layout = Single => TotalSize >= Size

-----------------------------------------------------------------------------
(* The commands.                                                           *)

FromStart == at' = 1 /\ pos' = 1 /\ try' = 0 /\ clean' = TRUE

CmdStart ==
    /\ dpc \in Returned /\ FromStart
    /\ \E headOK \in BOOLEAN : DlGoto(IF TakenAsComplete(headOK) THEN "serve" ELSE "config")
    /\ UNCHANGED <<published, wfile, cfgJson, index>>

(* models download, and install: any scanned model counts as downloaded.   *)
CmdModelsDownload ==
    /\ dpc \in Returned /\ FromStart
    /\ DlGoto(IF Scanned THEN "already" ELSE "tarball")
    /\ UNCHANGED <<published, wfile, cfgJson, index>>

CmdModelsRemove ==
    /\ dpc \in Returned /\ Scanned /\ FromStart /\ DlGoto("idle")
    /\ wfile' = [f \in Weights |-> <<>>] /\ cfgJson' = FALSE /\ index' = FALSE
    /\ UNCHANGED published

KillDownload ==
    /\ dpc \notin Returned /\ DlGoto("idle") /\ clean' = FALSE
    /\ UNCHANGED <<published, wfile, cfgJson, index, at, pos, try>>

-----------------------------------------------------------------------------
(* download_catalog_model and download_model_from_cdn.                     *)

Stay == UNCHANGED <<published, at, pos, try>>

(* curl | tar: everything, or, when it breaks off, some files and the      *)
(* beginning of one.                                                       *)
UnpackTarball ==
    /\ dpc = "tarball" /\ Stay
    /\ \/ /\ tarball /\ DlGoto("true") /\ UNCHANGED clean
          /\ wfile' = [f \in Weights |-> IF f \in ModelFiles THEN [i \in 1..Size |-> i] ELSE <<>>]
          /\ cfgJson' = TRUE /\ index' = (layout # Single)
       \/ /\ tarball /\ DlGoto("config") /\ clean' = FALSE
          /\ \E done \in SUBSET ModelFiles, f \in ModelFiles, n \in 0..Size :
                wfile' = [g \in Weights |-> IF g = f THEN [i \in 1..n |-> i]
                                            ELSE IF g \in done THEN [i \in 1..Size |-> i]
                                            ELSE wfile[g]]
          /\ UNCHANGED <<cfgJson, index>>
       \/ ~tarball /\ DlGoto("config") /\ UNCHANGED <<wfile, cfgJson, index, clean>>

(* config.json must come; the tokenizer files are best effort.              *)
FetchConfig ==
    /\ dpc = "config" /\ Stay
    /\ \/ cfgJson' = TRUE /\ DlGoto("head") /\ UNCHANGED clean
       \/ DlGoto("false") /\ clean' = FALSE /\ UNCHANGED cfgJson
    /\ UNCHANGED <<wfile, index>>

(* A HEAD request tells whether there is a single weight file.             *)
HeadSingle ==
    /\ dpc = "head" /\ Stay
    /\ \/ DlGoto(IF layout = Single THEN "ask" ELSE "index") /\ UNCHANGED clean
       \/ DlGoto("index") /\ clean' = FALSE
    /\ UNCHANGED <<wfile, cfgJson, index>>

FetchIndex ==
    /\ dpc = "index" /\ UNCHANGED <<published, wfile, cfgJson, pos>>
    /\ \/ /\ layout # Single /\ index' = TRUE /\ DlGoto("ask")
          /\ at' = 1 /\ try' = 0 /\ UNCHANGED clean
       \/ layout = Single /\ DlGoto("false") /\ UNCHANGED <<index, at, try, clean>>
       \/ DlGoto("false") /\ clean' = FALSE /\ UNCHANGED <<index, at, try>>

-----------------------------------------------------------------------------
(* download_file_async, for the current weight file.                       *)

(* One file failed for good: a single file leads on to the index, a shard  *)
(* ends the download.                                                      *)
FileFailed == DlGoto(IF layout = Single THEN "index" ELSE "false") /\ UNCHANGED try

Retry == IF try < MaxRetries THEN DlGoto("ask") /\ try' = try + 1 ELSE FileFailed

(* A plausible bug: an answer with the whole file is appended as well.     *)
AskAppends ==
    /\ dpc = "ask" /\ DlGoto("stream")
    /\ Len(wfile[Current]) < Size /\ pos' \in {1, Len(wfile[Current]) + 1}
    /\ UNCHANGED <<published, wfile, cfgJson, index, at, try, clean>>

(* A GET, with a Range when bytes are there: the rest is appended (206) or *)
(* the file started again (200).                                           *)
Ask ==
    /\ dpc = "ask" /\ DlGoto("stream")
    /\ \/ /\ Len(wfile[Current]) < Size
          /\ pos' = Len(wfile[Current]) + 1 /\ UNCHANGED wfile
       \/ pos' = 1 /\ wfile' = [wfile EXCEPT ![Current] = <<>>]
    /\ UNCHANGED <<published, cfgJson, index, at, try, clean>>

(* A Range that starts at the end of the file cannot be satisfied (416).   *)
AskBeyondEnd ==
    /\ dpc = "ask" /\ Len(wfile[Current]) = Size /\ Retry
    /\ UNCHANGED <<published, wfile, cfgJson, index, at, pos, clean>>

(* No connection, an error status, or the file cannot be opened.           *)
AskFails ==
    /\ dpc = "ask" /\ clean' = FALSE /\ (Retry \/ FileFailed)
    /\ UNCHANGED <<published, wfile, cfgJson, index, at, pos>>

WriteChunk ==
    /\ dpc = "stream" /\ pos <= Size
    /\ wfile' = [wfile EXCEPT ![Current] = Append(@, pos)] /\ pos' = pos + 1
    /\ UNCHANGED <<published, cfgJson, index, dpc, at, try, clean>>

(* The connection breaks, or the disk is full.                             *)
StreamFails ==
    /\ dpc = "stream" /\ clean' = FALSE /\ (Retry \/ FileFailed)
    /\ UNCHANGED <<published, wfile, cfgJson, index, at, pos>>

(* The next file, or the end.                                              *)
StreamEnds ==
    /\ dpc = "stream" /\ pos > Size /\ try' = 0
    /\ IF at < Len(layout) THEN at' = at + 1 /\ DlGoto("ask")
                           ELSE DlGoto("true") /\ UNCHANGED at
    /\ UNCHANGED <<published, wfile, cfgJson, index, pos, clean>>

Transfer == UnpackTarball \/ FetchConfig \/ HeadSingle \/ FetchIndex \/ Ask \/ AskBeyondEnd
            \/ AskFails \/ WriteChunk \/ StreamFails \/ StreamEnds

DlNext == CmdStart \/ CmdModelsDownload \/ CmdModelsRemove \/ KillDownload \/ Transfer

(* A running download is not suspended.                                    *)
DlFairness == WF_dlVars(Transfer)

DlSpec == DlInit /\ [][DlNext]_dlVars /\ DlFairness

-----------------------------------------------------------------------------

DlTypeOK ==
    /\ layout \in Layouts /\ name \in {"mlx", "quantized", "plain"} /\ tarball \in BOOLEAN
    /\ wfile \in [Weights -> Seq(Nat)]
    /\ cfgJson \in BOOLEAN /\ index \in BOOLEAN /\ clean \in BOOLEAN
    /\ dpc \in Returned \union {"tarball", "config", "head", "index", "ask", "stream"}
    /\ at \in 1..Len(layout) /\ pos \in 1..(Size + 1) /\ try \in 0..MaxRetries

(* Every weight file is the beginning of the published one, whatever broke *)
(* off, was retried, resumed or killed: resuming from its length is sound. *)
PrefixKept == \A f \in Weights : /\ Len(wfile[f]) <= Size
                                 /\ \A i \in 1..Len(wfile[f]) : wfile[f][i] = i

(* A download that reports success has left every weight file whole, and   *)
(* the configuration beside them.                                          *)
TrueMeansWhole == dpc = "true" => cfgJson /\ \A f \in ModelFiles : Whole(wfile[f])

(* Weight files are beginnings of the published ones, and whole when the   *)
(* download says so.                                                       *)
DownloadsAreWhole == PrefixKept /\ TrueMeansWhole

(* However often transfers fail, the command returns.                      *)
DownloadEnds == dpc \notin Returned ~> dpc \in Returned

(* "Check if model is downloaded AND complete": what start goes on to      *)
(* serve without downloading is whole.                                     *)
DownloadedIsComplete == dpc = "serve" => \A f \in ModelFiles : Whole(wfile[f])

(* "Resume from where we left off (works across retries AND fresh          *)
(* starts)": a download in which nothing fails succeeds.                   *)
CleanRunSucceeds == dpc = "false" => ~clean
=============================================================================
