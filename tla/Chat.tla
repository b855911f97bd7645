--------------------------------- MODULE Chat ---------------------------------
(***************************************************************************)
(* The demo page's chat panel (demo/wasm/chat.go) over the durable runs it *)
(* starts: OpenRouter's PKCE sign-in, which leaves the page and comes back *)
(* to a new one, the key it leaves in sessionStorage, and a turn that is   *)
(* sent and waited for.  Page code runs on one thread: an action is what   *)
(* it does from one wait to the next.                                      *)
(*                                                                         *)
(* A sign-in flow is a number: it stands for the verifier, for the code    *)
(* the provider issues against its challenge, and for the key the code is  *)
(* exchanged for; 0 is none of them.                                       *)
(***************************************************************************)
EXTENDS AgentRun

CONSTANT MaxFlows  \* bound: sign-ins begun in a behaviour

ASSUME ChatAssumption == BootDeps = {"none"} /\ MaxFlows \in Nat

VARIABLES
    storage,  \* the tab's sessionStorage: key and verifier
    url,      \* the code in the address bar
    asked,    \* the flow the provider's page is open for
    flows,    \* flows begun
    tab,      \* the page: what it awaits, its panel, its sends
    calm      \* runs sent from a signed-in panel, undisturbed since

chatVars == <<storage, url, asked, flows, tab, calm>>
pageVars == <<vars, chatVars>>

Flow == 0 .. MaxFlows

\* index.html: the sign-in button is the one that is enabled.
Loading == [phase |-> "boot", held |-> 0, leaving |-> 0, enabled |-> {"sign-in"},
            typed |-> FALSE, sends |-> {}]

ChatInit ==
    /\ Init
    /\ storage = [key |-> 0, verifier |-> 0]
    /\ url = 0 /\ asked = 0 /\ flows = 0
    /\ tab = Loading /\ calm = {}

Enabled(button) == up /\ button \in tab.enabled
SignedIn == Enabled("sign-out")

\* The panel alone.
applyKeyState_PanelOnly(k) ==
    /\ tab' = [tab EXCEPT !.phase = "idle", !.enabled = IF k = 0 THEN {"sign-in"}
                 ELSE {"sign-out", "chat-input", "chat-send"}]
    /\ UNCHANGED vars

\* The panel and the registered dependencies; before it is called with a key the
\* page has those it booted with.
applyKeyState(k) ==
    /\ tab' = [tab EXCEPT !.phase = "idle", !.enabled = IF k = 0 THEN {"sign-in"}
                 ELSE {"sign-out", "chat-input", "chat-send"}]
    /\ IF k = 0 THEN UNCHANGED vars ELSE SignIn

\* boot's last step: a page a redirect came back to finishes the sign-in.
wireChat ==
    /\ up /\ tab.phase = "boot"
    /\ IF url # 0 /\ storage.verifier # 0
         THEN tab' = [tab EXCEPT !.phase = "exchange", !.held = storage.verifier]
              /\ UNCHANGED vars
         ELSE applyKeyState(IF url # 0 THEN 0 ELSE storage.key)
    /\ UNCHANGED <<storage, url, asked, flows, calm>>

\* PKCE: a code is good for the verifier it was issued against alone.
Exchange(verifier, code) == verifier = code

\* The exchange has answered: with a key, or with an error, for whatever reason.
completeSignIn ==
    /\ up /\ tab.phase = "exchange"
    /\ \/ /\ Exchange(tab.held, url)
          /\ storage' = [key |-> url, verifier |-> 0]
          /\ url' = 0
          /\ applyKeyState(storage'.key)
       \/ /\ storage' = [storage EXCEPT !.verifier = 0]
          /\ UNCHANGED url
          /\ applyKeyState(0)
    /\ UNCHANGED <<asked, flows, calm>>

\* A verifier is kept and the navigation begins; the page runs on until it is
\* unloaded.
signIn ==
    /\ Enabled("sign-in") /\ tab.phase # "boot" /\ flows < MaxFlows
    /\ flows' = flows + 1
    /\ storage' = [storage EXCEPT !.verifier = flows']
    /\ tab' = [tab EXCEPT !.leaving = flows']
    /\ UNCHANGED <<vars, url, asked, calm>>

\* The key stays behind.
signOut_KeyKept ==
    /\ Enabled("sign-out") /\ SignOut
    /\ tab' = [tab EXCEPT !.enabled = {"sign-in"}]
    /\ calm' = calm \ {w \in Workflows : ~Ended(w)}
    /\ UNCHANGED <<storage, url, asked, flows>>

\* clearKey, then applyKeyState("").
signOut ==
    /\ Enabled("sign-out") /\ SignOut
    /\ storage' = [key |-> 0, verifier |-> 0]
    /\ tab' = [tab EXCEPT !.enabled = {"sign-in"}]
    /\ calm' = calm \ {w \in Workflows : ~Ended(w)}
    /\ UNCHANGED <<url, asked, flows>>

Type ==
    /\ Enabled("chat-input") /\ ~tab.typed
    /\ tab' = [tab EXCEPT !.typed = TRUE]
    /\ UNCHANGED <<vars, storage, url, asked, flows, calm>>

\* send, up to its wait for the result: what is in the input is enqueued,
\* whatever has become of the key.
send(w) ==
    /\ Enabled("chat-send") /\ tab.typed
    /\ Enqueue(w)
    /\ tab' = [tab EXCEPT !.typed = FALSE, !.enabled = @ \ {"chat-send"},
                          !.sends = @ \cup {w}]
    /\ calm' = IF SignedIn THEN calm \cup {w} ELSE calm
    /\ UNCHANGED <<storage, url, asked, flows>>

\* The run has ended; the deferred call enables the button.
sendReturns(w) ==
    /\ up /\ w \in tab.sends /\ Ended(w)
    /\ tab' = [tab EXCEPT !.enabled = @ \cup {"chat-send"}, !.sends = @ \ {w}]
    /\ UNCHANGED <<vars, storage, url, asked, flows, calm>>

\* The page is unloaded: for the provider's page of the flow it was leaving
\* for, by the Back button for that of an earlier one, or to be loaded again.
Unload ==
    /\ Crash
    /\ \/ asked' \in (1 .. flows) \cup {tab.leaving} /\ asked' # 0 /\ url' = 0
       \/ UNCHANGED <<asked, url>>
    /\ tab' = Loading
    /\ calm' = calm \ {w \in Workflows : ~Ended(w)}
    /\ UNCHANGED <<storage, flows>>

\* A new page: from the provider with a code, or without one; all of boot up
\* to wireChat.
Load ==
    /\ Boot
    /\ IF asked = 0 THEN UNCHANGED url ELSE url' \in {0, asked}
    /\ asked' = 0
    /\ UNCHANGED <<storage, flows, tab, calm>>

RunStep(w) == Step(w) /\ UNCHANGED chatVars

ChatNext ==
    \/ wireChat \/ completeSignIn \/ signIn \/ signOut \/ Type \/ Unload \/ Load
    \/ \E w \in Workflows : send(w) \/ sendReturns(w) \/ RunStep(w)

ChatSpec == ChatInit /\ [][ChatNext]_pageVars

\* AgentRun's: the worker's goroutines run, and the user comes back to the page.
ChatFairSpec ==
    ChatSpec /\ WF_pageVars(Load) /\ \A w \in Workflows : WF_pageVars(RunStep(w))

-----------------------------------------------------------------------------
\* Once the page has settled, the dependencies it runs turns under are those of
\* the key in the tab: it is signed in with a key there, and a key there has it
\* signed in, unless the page was loaded with a code it could not redeem, which
\* is then still in its address bar (applyKeyState, completeSignIn, signOut).
DepsMatchKey ==
    up /\ tab.phase = "idle" =>
      /\ deps = "key" => storage.key # 0
      /\ storage.key # 0 /\ url = 0 => deps = "key"

\* A message sent from a panel that says signed in, in a page that is neither
\* signed out of nor unloaded before the run ends, is not reported as a success
\* unless it and an answer to it are stored (send, applyKeyState, AgentRun).
SentTurnIsRun ==
    \A w \in calm : status[w] = "SUCCESS" /\ result[w] = "SUCCESS" =>
        \E i, j \in DOMAIN events :
            /\ i < j /\ events[i].w = w /\ events[j].w = w
            /\ events[i].kind = "user" /\ events[j].kind = "model"
=============================================================================
