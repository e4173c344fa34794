------------------------------- MODULE Settings -------------------------------
(***************************************************************************)
(* The name of this device: the settings panel (SettingsPanel.svelte), the *)
(* commands get_config and set_config (commands.rs), the configuration in  *)
(* memory and the file it is saved in and loaded from (app/config.rs).     *)
(*                                                                         *)
(* The port and the peer hint of the configuration are left out: no page   *)
(* sets them.  Saving truncates the file and then writes it, and nothing   *)
(* orders two saves: the panel calls set_config whenever its field loses   *)
(* the focus, whether or not an earlier call has ended.  The process may   *)
(* be killed between any two steps.                                        *)
(***************************************************************************)
EXTENDS Integers, Sequences, FiniteSetsExt

CONSTANTS
    Chars,      \* the characters of names
    Control,    \* stands for the control and bidi characters
    Blank,      \* stands for white space
    Unnamed,    \* "<unnamed>", a name like any other
    Default,    \* Config::default_device_name: the name of the host
    MaxName,    \* MAX_DEVICE_NAME_CODEPOINTS (64 in the code)
    Inputs,     \* bound: what the user may type, or has put into the file
    Slots,      \* bound: calls of set_config under way at once
    MaxBlurs,   \* bound: calls of set_config
    MaxTrouble  \* bound: crashes and failures to write

Names == Inputs \cup {Default, Unnamed}

ASSUME SettingsAssumption == MaxName \in Nat \ {0} /\ MaxBlurs \in Nat /\ MaxTrouble \in Nat
ASSUME NamesAssumption == Names \subseteq Seq(Chars)

NoFile == [name |-> Default, size |-> -1]
Idle   == [pc |-> "idle", sent |-> <<>>, mine |-> FALSE, alone |-> FALSE]

VARIABLES
    up,         \* the process runs
    memory,     \* config.device_name
    file,       \* config.json: what was written last and how long the file is
    call,       \* call[s]: a call of set_config
    panel,      \* "closed", "loading", "fetched" (get_config has read), "open"
    field,      \* deviceName, what the input shows
    original,   \* originalName
    set,        \* history: set_config has set the name in this run
    muddled,    \* history: the last save was not alone, failed or was cut short
    stray,      \* history: a call of a closed panel changed the name of this one
    blurs, trouble    \* numbers of calls and of crashes and failures

vars == <<up, memory, file, call, panel, field, original, set, muddled, stray,
          blurs, trouble>>
page == <<panel, field, original, stray>>

-----------------------------------------------------------------------------
(* str::trim, and trim() of the page.                                      *)
Trimmed(s) ==
    LET solid == {i \in DOMAIN s : s[i] # Blank} IN
    IF solid = {} THEN <<>> ELSE SubSeq(s, Min(solid), Max(solid))

(* filter: what is kept stays in its order.                                *)
Solid(s) ==
    LET kept   == {i \in DOMAIN s : s[i] # Control}
        Nth(k) == CHOOSE i \in kept : Cardinality({j \in kept : j <= i}) = k
    IN [k \in 1..Cardinality(kept) |-> s[Nth(k)]]

(* take(MAX_DEVICE_NAME_CODEPOINTS).                                       *)
Taken(s) == SubSeq(s, 1, Min({MaxName, Len(s)}))

(* Mutant of SanitizedName: the name is trimmed before it is cut.          *)
SanitizedTrimFirst(s) ==
    LET t == Taken(Trimmed(Solid(s))) IN IF t = <<>> THEN Unnamed ELSE t

(* sanitize_device_name.                                                   *)
SanitizedName(s) ==
    LET t == Trimmed(Taken(Solid(s))) IN IF t = <<>> THEN Unnamed ELSE t

(* Config::load: a file that is missing or does not parse gives the        *)
(* default.  It parses when nothing stands behind what was written last.   *)
Whole(f)  == f.size = Len(f.name)
Loaded(f) == IF Whole(f) THEN f.name ELSE Default

Init ==
    /\ up = TRUE
    /\ file \in {NoFile} \cup {[name |-> n, size |-> Len(n)] : n \in Inputs}
    /\ memory = Loaded(file)
    /\ call = [s \in Slots |-> Idle]
    /\ panel = "closed" /\ field = <<>> /\ original = <<>>
    /\ set = FALSE /\ muddled = FALSE /\ stray = FALSE
    /\ blurs = 0 /\ trouble = 0

-----------------------------------------------------------------------------
(* The panel is mounted and calls get_config (loadConfig) ...              *)
OpenPanel ==
    /\ up /\ panel = "closed" /\ panel' = "loading"
    /\ field' = <<>> /\ original' = <<>> /\ stray' = FALSE
    /\ UNCHANGED <<up, memory, file, call, set, muddled, blurs, trouble>>

(* ... which reads the configuration ...                                   *)
Fetch ==
    /\ up /\ panel = "loading" /\ panel' = "fetched"
    /\ original' = memory
    /\ UNCHANGED <<up, memory, file, call, field, set, muddled, stray, blurs, trouble>>

(* ... and its answer fills the field.                                     *)
Show ==
    /\ up /\ panel = "fetched" /\ panel' = "open"
    /\ field' = original
    /\ UNCHANGED <<up, memory, file, call, original, set, muddled, stray, blurs, trouble>>

Type(n) ==
    /\ up /\ panel = "open" /\ field' = n
    /\ UNCHANGED <<up, memory, file, call, panel, original, set, muddled, stray, blurs, trouble>>

Busy == {s \in Slots : call[s].pc # "idle"}

(* handleBlur: a blank field goes back to what it was; a name that is not  *)
(* the old one is sent.                                                    *)
Blur ==
    LET name == Trimmed(field) IN
    /\ up /\ panel = "open"
    /\ \/ /\ name = <<>> /\ field' = original
          /\ UNCHANGED <<call, blurs>>
       \/ /\ name # <<>> /\ name # original
          /\ blurs < MaxBlurs /\ blurs' = blurs + 1
          /\ \E s \in Slots \ Busy :
                call' = [r \in Slots |->
                            IF r = s THEN [pc |-> "sent", sent |-> name, mine |-> TRUE,
                                           alone |-> Busy = {}]
                            ELSE [call[r] EXCEPT !.alone = FALSE]]
          /\ UNCHANGED field
    /\ UNCHANGED <<up, memory, file, panel, original, set, muddled, stray, trouble>>

(* handleClose; the panel is unmounted and no longer hears of its calls.   *)
ClosePanel ==
    /\ up /\ panel # "closed" /\ panel' = "closed"
    /\ field' = <<>> /\ original' = <<>> /\ stray' = FALSE
    /\ call' = [s \in Slots |-> [call[s] EXCEPT !.mine = FALSE]]
    /\ UNCHANGED <<up, memory, file, set, muddled, blurs, trouble>>

At(s, pc)   == up /\ call[s].pc = pc
Goto(s, pc) == call' = [call EXCEPT ![s].pc = pc]

(* set_config refuses a name of which nothing is left.                     *)
Refuse(s) ==
    /\ At(s, "sent") /\ SanitizedName(call[s].sent) = Unnamed
    /\ Goto(s, "failed")
    /\ UNCHANGED <<up, memory, file, page, set, muddled, blurs, trouble>>

(* set_config takes the name over.                                         *)
Store(s) ==
    /\ At(s, "sent") /\ SanitizedName(call[s].sent) # Unnamed
    /\ memory' = SanitizedName(call[s].sent) /\ set' = TRUE
    /\ Goto(s, "open")
    /\ stray' = (stray \/ (panel \in {"fetched", "open"} /\ ~call[s].mine))
    /\ UNCHANGED <<up, file, panel, field, original, muddled, blurs, trouble>>

(* Mutant of Open: the file is not truncated.                              *)
OpenOver(s) ==
    /\ At(s, "open") /\ Goto(s, "write")
    /\ UNCHANGED <<up, memory, file, page, set, muddled, blurs, trouble>>

(* Config::save, of the configuration this call has stored: the file is    *)
(* truncated ...                                                           *)
Open(s) ==
    /\ At(s, "open") /\ Goto(s, "write")
    /\ file' = [file EXCEPT !.size = 0]
    /\ UNCHANGED <<up, memory, page, set, muddled, blurs, trouble>>

(* Mutant of Write: it appends.                                            *)
WriteBehind(s) ==
    LET name == SanitizedName(call[s].sent) IN
    /\ At(s, "write") /\ Goto(s, "saved")
    /\ file' = [name |-> name, size |-> file.size + Len(name)]
    /\ muddled' = ~call[s].alone
    /\ UNCHANGED <<up, memory, page, set, blurs, trouble>>

(* ... and written from its start; what another call wrote beyond the end  *)
(* of this name stays behind it.                                           *)
Write(s) ==
    LET name == SanitizedName(call[s].sent) IN
    /\ At(s, "write") /\ Goto(s, "saved")
    /\ file' = [name |-> name, size |-> Max({file.size, Len(name)})]
    /\ muddled' = ~call[s].alone
    /\ UNCHANGED <<up, memory, page, set, blurs, trouble>>

(* The file cannot be opened, or not be written.                           *)
SaveFails(s) ==
    /\ At(s, "open") \/ At(s, "write")
    /\ Goto(s, "failed")
    /\ trouble < MaxTrouble /\ trouble' = trouble + 1
    /\ muddled' = TRUE
    /\ UNCHANGED <<up, memory, file, page, set, blurs>>

(* Mutant of Answer: the panel does not keep the name that was saved.      *)
AnswerForgets(s) ==
    /\ At(s, "saved") \/ At(s, "failed")
    /\ call' = [call EXCEPT ![s] = Idle]
    /\ field' = IF call[s].mine THEN original ELSE field
    /\ UNCHANGED <<up, memory, file, panel, original, set, muddled, stray, blurs, trouble>>

(* The answer reaches the panel that is waiting for it: the field and the  *)
(* original take the name that was sent, or the field goes back.           *)
Answer(s) ==
    /\ At(s, "saved") \/ At(s, "failed")
    /\ call' = [call EXCEPT ![s] = Idle]
    /\ LET kept == IF call[s].pc = "saved" THEN call[s].sent ELSE original IN
       IF call[s].mine THEN original' = kept /\ field' = kept
       ELSE UNCHANGED <<original, field>>
    /\ UNCHANGED <<up, memory, file, panel, set, muddled, stray, blurs, trouble>>

(* The process is killed: what it did not write is gone.                   *)
Crash ==
    /\ up /\ trouble < MaxTrouble /\ trouble' = trouble + 1
    /\ up' = FALSE
    /\ muddled' = (muddled \/ \E s \in Slots : call[s].pc \in {"open", "write"})
    /\ call' = [s \in Slots |-> Idle]
    /\ panel' = "closed" /\ field' = <<>> /\ original' = <<>> /\ stray' = FALSE
    /\ UNCHANGED <<memory, file, set, blurs>>

(* It is started again and loads the file.                                 *)
Restart ==
    /\ ~up /\ up' = TRUE
    /\ memory' = Loaded(file) /\ set' = FALSE /\ muddled' = FALSE
    /\ UNCHANGED <<file, call, page, blurs, trouble>>

Next ==
    \/ OpenPanel \/ Fetch \/ Show \/ Blur \/ ClosePanel \/ Crash \/ Restart
    \/ \E n \in Inputs : Type(n)
    \/ \E s \in Slots : \/ Refuse(s) \/ Store(s) \/ Open(s) \/ Write(s) \/ SaveFails(s)
                        \/ Answer(s)

Spec == Init /\ [][Next]_vars

-----------------------------------------------------------------------------
Phases == {"idle", "sent", "open", "write", "saved", "failed"}
Calls  == [pc : Phases, sent : Seq(Chars), mine : BOOLEAN, alone : BOOLEAN]

(* The types.  A file is as long as the name it had at first or as one     *)
(* that was cut, whatever the saves write over each other.                 *)
TypeOK ==
    /\ up \in BOOLEAN /\ memory \in Seq(Chars)
    /\ file \in [name : Seq(Chars), size : {-1} \cup 0..MaxName \cup {Len(n) : n \in Names}]
    /\ call \in [Slots -> Calls]
    /\ panel \in {"closed", "loading", "fetched", "open"}
    /\ field \in Seq(Chars) /\ original \in Seq(Chars)
    /\ set \in BOOLEAN /\ muddled \in BOOLEAN /\ stray \in BOOLEAN
    /\ blurs \in 0..MaxBlurs /\ trouble \in 0..MaxTrouble

(* Once the user has set a name, this device offers one that its peers     *)
(* take as it is: sanitizing it again changes nothing, and it is not the   *)
(* name of the nameless.                                                   *)
OfferedIsClean == set => memory # Unnamed /\ SanitizedName(memory) = memory

(* When no call is under way and the last save ran by itself and to its    *)
(* end, a restart finds the name that is in use.                           *)
RestartKeepsName ==
    (\A s \in Slots : call[s].pc \notin {"sent", "open", "write"}) /\ ~muddled =>
        Loaded(file) = memory

(* When no call is under way, the panel takes the name in use for the old  *)
(* one (it sends only what differs from it), unless a save has failed, two *)
(* have overlapped or one of an earlier panel came late.                   *)
PanelKnowsName ==
    panel = "open" /\ Busy = {} /\ ~muddled /\ ~stray =>
        original = memory \/ SanitizedName(original) = memory
=============================================================================
