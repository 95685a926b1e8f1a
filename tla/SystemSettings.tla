--------------------------- MODULE SystemSettings ---------------------------
(***************************************************************************)
(* The settings of the whole system: the SMTP server, saved key by key,    *)
(* and the runtime settings that override the environment when the process *)
(* starts the next time.                                                   *)
(***************************************************************************)
EXTENDS ConsoleCalls

CONSTANT Env       \* the environment variables of the process ("": not set)

VARIABLES
    settings,      \* system_settings: the runtime settings
    smtp,          \* system_settings: the SMTP keys, by the save that wrote them
    up,            \* the process runs, or could be started again
    saves          \* history: each SMTP save, with the calls that were over when it began

settingVars == <<settings, smtp, up, saves>>
-----------------------------------------------------------------------------
(* One setting of each kind that the code tells apart, and texts for them.  *)

Keys == {"TENANT_CACHE_TTL_SECS", "KEY_ROTATION_LEAD_DAYS", "TRUST_FORWARDED_HEADERS", "PUBLIC_WEB_BASE_URL",
         "HSTS_MAX_AGE"}
Texts == {"", "1", "2", "5000000000", "true", "hello"}

\* RUNTIME_SETTING_DEFINITIONS
DbManaged == Keys \ {"HSTS_MAX_AGE"}
Kind(k) == CASE k = "TRUST_FORWARDED_HEADERS" -> "Boolean"
             [] k = "PUBLIC_WEB_BASE_URL" -> "Text"
             [] OTHER -> "UnsignedInteger"

\* str::parse to u32, to u64 and to bool.
U32 == {"1", "2"}
U64 == U32 \cup {"5000000000"}
Bool == {"true"}

\* What Config parses each setting to.
Parsed(k) == CASE k = "KEY_ROTATION_LEAD_DAYS" -> U32
               [] k = "TRUST_FORWARDED_HEADERS" -> Bool
               [] k = "PUBLIC_WEB_BASE_URL" -> Texts
               [] OTHER -> U64

\* The defaults.
Default == [k \in Keys |-> CASE k = "TRUST_FORWARDED_HEADERS" -> "false"
                             [] k = "PUBLIC_WEB_BASE_URL" -> "http://localhost:8080"
                             [] OTHER -> "1"]

\* The process has been started with this environment.
ASSUME EnvAssumption == Env \in [Keys -> Texts] /\ \A k \in Keys : Env[k] \in Parsed(k) \cup {""}

SmtpKeys == <<"host", "port", "username", "from_address", "use_tls">>

SettingsInit ==
    /\ settings = [k \in Keys |-> ""]
    /\ smtp = [k \in {"host", "port", "username", "from_address", "use_tls", "password"} |-> None]
    /\ up = TRUE /\ saves = [r \in Requests |-> None]
-----------------------------------------------------------------------------
(* SMTP.                                                                    *)

\* A password that is not given stays; an empty one clears it.
SmtpForm(r) ==
    /\ \E w \in {"keep", "write"} :
          /\ Send(r, "smtp", None, None, w, SmtpKeys[1])
          /\ saves' = [saves EXCEPT ![r] = [want |-> w, before |-> {q \in Requests : pc[q] \in {"ok", "failed"}}]]
    /\ UNCHANGED <<settings, smtp, up>>

\* Mutant of AfterKey: the form's use_tls is not saved.
AfterKeyButTls(i, w) ==
    IF i + 1 < Len(SmtpKeys) THEN SmtpKeys[i + 1] ELSE IF w = "keep" THEN "ok" ELSE "password"

\* update_smtp, from key to key.
AfterKey(i, w) ==
    IF i < Len(SmtpKeys) THEN SmtpKeys[i + 1] ELSE IF w = "keep" THEN "ok" ELSE "password"

\* upsert_plain
UpsertKey(r) ==
    \E i \in DOMAIN SmtpKeys :
        LET l == AfterKey(i, job[r].want) IN
        /\ pc[r] = SmtpKeys[i]
        /\ smtp' = [smtp EXCEPT ![SmtpKeys[i]] = r]
        /\ IF l = "ok" THEN Finish(r, l) ELSE Goto(r, l)
        /\ UNCHANGED <<settings, up, saves>>

UpsertPassword(r) ==
    /\ pc[r] = "password"
    /\ smtp' = [smtp EXCEPT !["password"] = r]
    /\ Finish(r, "ok")
    /\ UNCHANGED <<settings, up, saves>>

\* smtp_server: what a mail is sent with.
SmtpServer == IF smtp["host"] = None \/ smtp["from_address"] = None THEN None ELSE smtp
-----------------------------------------------------------------------------
(* Runtime settings.                                                        *)

\* Mutant of Valid: an integer may be as large as any of Config's.
ValidAsLong(k, v) ==
    /\ k \in DbManaged
    /\ v = "" \/ CASE Kind(k) = "UnsignedInteger" -> v \in U64
                   [] Kind(k) = "Boolean" -> v \in Bool
                   [] Kind(k) = "Text" -> TRUE

\* update_runtime_setting: `""` clears the override.
Valid(k, v) ==
    /\ k \in DbManaged
    /\ v = "" \/ CASE Kind(k) = "UnsignedInteger" -> v \in U32
                   [] Kind(k) = "Boolean" -> v \in Bool
                   [] Kind(k) = "Text" -> TRUE

RuntimeForm(r) ==
    /\ \E k \in Keys, v \in Texts : Send(r, "runtime", None, k, v, IF Valid(k, v) THEN "upsert" ELSE "failed")
    /\ UNCHANGED settingVars

UpsertSetting(r) ==
    /\ pc[r] = "upsert"
    /\ settings' = [settings EXCEPT ![job[r].arg] = job[r].want]
    /\ Finish(r, "ok")
    /\ UNCHANGED <<smtp, up, saves>>

\* ConfigResolver: default < environment < database, which counts only for the
\* settings that it manages.
Resolved(k) ==
    IF k \in DbManaged /\ settings[k] # "" THEN settings[k] ELSE IF Env[k] # "" THEN Env[k] ELSE Default[k]

\* from_env_and_db_settings
Startable == \A k \in Keys : Resolved(k) = Default[k] \/ Resolved(k) \in Parsed(k)

SettingsStep(r) == SmtpForm(r) \/ UpsertKey(r) \/ UpsertPassword(r) \/ RuntimeForm(r) \/ UpsertSetting(r)
=============================================================================
