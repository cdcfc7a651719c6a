------------------------------ MODULE Templates ------------------------------
(***************************************************************************)
(* The chat templates (main.rs): at every start the provider brings its    *)
(* cache of known templates up to date and gives the model it serves a     *)
(* template when it has none, each checked against the hash of the         *)
(* coordinator's manifest when there is one.                               *)
(*                                                                         *)
(* A file is "none", "good" (it has the hash of the manifest), "other" (it *)
(* is complete and has not) or "torn" (a transfer broke off).  The process *)
(* may be killed between any two steps.                                    *)
(***************************************************************************)
EXTENDS Integers

VARIABLES
    family,   \* "hub" (a template file on HuggingFace) | "qwen" (inside tokenizer_config.json)
    inline,   \* the tokenizer configuration of the model has a template
    manifest, \* this start knows the manifest's hashes
    cached,   \* the template in the cache
    jinja,    \* chat_template.jinja of the model
    tpc,      \* where the start is
    fresh,    \* the model had no template when this start began
    calm      \* every transfer of this start brought the good template

tplVars == <<family, inline, manifest, cached, jinja, tpc, fresh, calm>>

TplContents == {"none", "good", "other", "torn"}

TplInit ==
    /\ family \in {"hub", "qwen"} /\ inline \in BOOLEAN /\ manifest \in BOOLEAN
    /\ cached = "none" /\ jinja \in {"none", "other"}
    /\ tpc = "down" /\ fresh = TRUE /\ calm = TRUE

(* curl -f -o: the file, the beginning of it, or (an error status or no    *)
(* connection) what was there.                                             *)
Fetched(old) == {"good", "other", "torn", old}
Succeeded(r) == r \in {"good", "other"}
Noted(r) == calm' = (calm /\ r = "good")

(* What is there after the hash is checked.                                *)
Verified(c) == ~manifest \/ c = "good"

SameModel == UNCHANGED <<family, inline, manifest>>

BootTpl ==
    /\ tpc = "down" /\ tpc' = "cache" /\ manifest' \in BOOLEAN
    /\ fresh' = (jinja = "none") /\ calm' = TRUE
    /\ UNCHANGED <<family, inline, cached, jinja>>

KillTemplates == tpc \notin {"down"} /\ tpc' = "down"
                 /\ UNCHANGED <<family, inline, manifest, cached, jinja, fresh, calm>>

-----------------------------------------------------------------------------
(* ensure_templates_cached.                                                *)

(* A plausible bug: a template that is there is not checked.               *)
CacheCheckPresence ==
    /\ tpc = "cache" /\ SameModel /\ UNCHANGED <<jinja, fresh, calm>>
    /\ IF cached # "none" THEN tpc' = "ensure" /\ UNCHANGED cached
                          ELSE tpc' = "fetch" /\ cached' = "none"

(* A template with the right hash, or no hash to compare, is kept.         *)
CacheCheck ==
    /\ tpc = "cache" /\ SameModel /\ UNCHANGED <<jinja, fresh, calm>>
    /\ IF cached # "none" /\ Verified(cached)
       THEN tpc' = "ensure" /\ UNCHANGED cached
       ELSE tpc' = "fetch" /\ cached' = "none"

CacheFetch ==
    /\ tpc = "fetch" /\ SameModel /\ UNCHANGED <<jinja, fresh>>
    /\ \E r \in Fetched(cached) : /\ cached' = r /\ Noted(r)
                                  /\ tpc' = IF Succeeded(r) THEN "check" ELSE "ensure"

CacheVerify ==
    /\ tpc = "check" /\ tpc' = "ensure" /\ SameModel /\ UNCHANGED <<jinja, fresh, calm>>
    /\ cached' = IF Verified(cached) THEN cached ELSE "none"

-----------------------------------------------------------------------------
(* ensure_chat_template.                                                   *)

EnsureSkips ==
    /\ tpc = "ensure" /\ (jinja # "none" \/ inline) /\ tpc' = "serve"
    /\ SameModel /\ UNCHANGED <<cached, jinja, fresh, calm>>

(* From the cache, which loses a template with another hash.               *)
InstallCached ==
    /\ tpc = "ensure" /\ jinja = "none" /\ ~inline /\ SameModel /\ UNCHANGED fresh
    /\ \/ /\ cached # "none" /\ Verified(cached) /\ tpc' = "serve"
          /\ jinja' = cached /\ UNCHANGED <<cached, calm>>
       \/ /\ cached # "none" /\ Verified(cached) /\ tpc' = "serve"     \* the copy fails
          /\ calm' = FALSE /\ UNCHANGED <<cached, jinja>>
       \/ /\ cached = "none" \/ ~Verified(cached)
          /\ tpc' = "r2" /\ cached' = "none" /\ UNCHANGED <<jinja, calm>>

(* From the CDN, else from HuggingFace; for Qwen the template is written   *)
(* only when the whole configuration has come.                             *)
FetchTemplate(from, check, next) ==
    /\ tpc = from /\ SameModel /\ UNCHANGED <<cached, fresh>>
    /\ \E r \in Fetched(jinja) :
          /\ from = "hf" /\ family = "qwen" => r \in {"good", "other", jinja}
          /\ jinja' = r /\ Noted(r)
          /\ tpc' = IF Succeeded(r) THEN check ELSE next

(* verify_template, and a copy for the cache.                              *)
VerifyTemplate(check, next) ==
    /\ tpc = check /\ SameModel /\ UNCHANGED <<fresh, calm>>
    /\ IF Verified(jinja) THEN tpc' = "serve" /\ cached' = jinja /\ UNCHANGED jinja
                          ELSE tpc' = next /\ jinja' = "none" /\ UNCHANGED cached

TplNext ==
    \/ BootTpl \/ KillTemplates
    \/ CacheCheck \/ CacheFetch \/ CacheVerify
    \/ EnsureSkips \/ InstallCached
    \/ FetchTemplate("r2", "checkR2", "hf") \/ VerifyTemplate("checkR2", "hf")
    \/ FetchTemplate("hf", "checkHF", "serve") \/ VerifyTemplate("checkHF", "serve")

TplSpec == TplInit /\ [][TplNext]_tplVars

-----------------------------------------------------------------------------

TplTypeOK ==
    /\ family \in {"hub", "qwen"} /\ {inline, manifest, fresh, calm} \subseteq BOOLEAN
    /\ cached \in TplContents /\ jinja \in TplContents
    /\ tpc \in {"down", "cache", "fetch", "check", "ensure", "r2", "checkR2", "hf",
                "checkHF", "serve"}

(* Whatever earlier starts, broken transfers and kills left in the cache,  *)
(* a start that knows the manifest and whose transfers bring the published *)
(* template reports the template hash the coordinator expects.             *)
CacheHeals == tpc = "serve" /\ manifest /\ calm => cached = "good"

(* A start that knows the manifest never gives the model a complete        *)
(* template of another hash.                                               *)
InstalledMatches == tpc = "serve" /\ manifest /\ fresh => jinja # "other"

(* A start that knows the manifest ends with its template in the cache, if *)
(* the transfers go well, and with no complete other one in the model.  A  *)
(* torn chat_template.jinja that an earlier kill left is not excluded.     *)
TemplatesAreRight == CacheHeals /\ InstalledMatches
=============================================================================
