----------------------------- MODULE Settings -----------------------------
(***************************************************************************)
(* The settings a crawl runs with: the server's configuration, overridden   *)
(* by what the job's request asked for, and the renderers at hand           *)
(* (internal/engine/engine.go, effective* and has*Renderer).                *)
(***************************************************************************)
EXTENDS Integers

CONSTANTS
  ServerConfig,   \* limits by name; 0 or less means no limit
  JobConfig       \* the limits the job's request named

ASSUME LimitsAreNumbers ==
  /\ ServerConfig \in [DOMAIN ServerConfig -> Int]
  /\ JobConfig \in [DOMAIN JobConfig -> Int]
  /\ {"maxPages", "maxDepth", "maxDiscoveredUrls", "maxOnboardedHosts", "psiMaxPages",
      "axeMaxPages", "grammarMaxPages"} \subseteq DOMAIN ServerConfig

(* A positive limit of the job replaces the server's. *)
Limit(name) ==
  IF name \in DOMAIN JobConfig /\ JobConfig[name] > 0 THEN JobConfig[name]
  ELSE ServerConfig[name]

(* How many pages an audit takes: any number the job named replaces the     *)
(* server's, 0 and less mean all of them.                                   *)
AuditLimit(name) ==
  LET n == IF name \in DOMAIN JobConfig THEN JobConfig[name] ELSE ServerConfig[name]
  IN  IF n < 0 THEN 0 ELSE n

MaxPages == Limit("maxPages")
MaxDepth == Limit("maxDepth")
DiscoveredMax == Limit("maxDiscoveredUrls")
OnboardedMax == Limit("maxOnboardedHosts")
PSIMax == AuditLimit("psiMaxPages")
AxeMax == AuditLimit("axeMaxPages")
GrammarMax == AuditLimit("grammarMaxPages")

(* The remote browser is used when it is configured and not ruled out. *)
Remote(settings) == settings.provider # "local" /\ settings.remote

HasMenuRenderer(settings) == Remote(settings) \/ settings.renderer

HasContentRenderer(settings) == Remote(settings) \/ settings.playwright

(* Who renders a page the remote browser fails on: the local one, unless    *)
(* the configuration insists on the remote one.                             *)
RendersContent(settings, remoteFails) ==
  \/ Remote(settings) /\ ~remoteFails
  \/ settings.playwright /\ (Remote(settings) => settings.provider # "browserbase")

(* A page whose menus are opened has the renderer pool to fall back on. *)
RendersMenus(settings, remoteFails) ==
  RendersContent(settings, remoteFails) \/ settings.renderer

(* The render mode of the job's request replaces the server's. *)
RenderMode(settings) == IF settings.asked = "" THEN settings.render ELSE settings.asked
=============================================================================
