------------------------------- MODULE Process -------------------------------
(***************************************************************************)
(* The whole life of the process.  The modules are imported, and the       *)
(* logger reads the configuration; the application is built; the server    *)
(* listens; the handlers of signals and uncaught exceptions are            *)
(* registered.  Whatever throws before the last of these ends the process, *)
(* and so does a signal.  Then the event loop turns for the first time,    *)
(* and ServerLifecycle goes on.                                            *)
(***************************************************************************)
EXTENDS ServerLifecycle

CONSTANT Environments   \* the environments it is started with

\* The members of envSchema without a default, and those with one.
Required == {"DB_HOST", "DB_USER", "DB_PASSWORD", "DB_NAME", "JWT_SECRET"}
Defaulted == {"NODE_ENV", "PORT", "DB_PORT", "DB_CONNECTION_LIMIT", "LOG_LEVEL", "JWT_ISSUER",
              "JWT_ACCESS_TOKEN_EXPIRES_IN", "JWT_REFRESH_TOKEN_EXPIRES_IN"}
Names == Required \cup Defaulted

\* A "good" NODE_ENV is development or test; "tooLarge" is a PORT above 65535,
\* which the schema admits.
Values == {"good", "absent", "invalid", "production", "tooLarge"}

ASSUME ProcessAssumption == Environments \subseteq [Names -> Values]

VARIABLES
  environ,   \* process.env
  devDeps,   \* whether pino-pretty, a devDependency, is installed
  stage      \* how far server.js is

given == <<environ, devDeps>>
processVars == <<vars, given, stage>>

\* Whether the port is free is decided here and shows when the event loop turns.
ProcessInit ==
  /\ Init
  /\ environ \in Environments /\ devDeps \in BOOLEAN
  /\ stage = "import"

Goto(s) == stage' = s /\ UNCHANGED <<vars, given>>

-----------------------------------------------------------------------------
(* The first run of server.js *)

\* envSchema.safeParse succeeds.
Parsed ==
  /\ \A n \in Names : environ[n] # "invalid"
  /\ \A n \in Required : environ[n] # "absent"

\* Every NODE_ENV but production, the default too, logs by pino-pretty.
LoggerStarts == devDeps \/ environ["NODE_ENV"] = "production"

\* logger.js is the first to read env.
Import ==
  /\ stage = "import"
  /\ \/ Parsed /\ LoggerStarts /\ Goto("create")
     \/ ~(Parsed /\ LoggerStarts) /\ Goto("threw")

\* createApp: the container makes the pool, which connects to nothing yet.
CreateApp == stage = "create" /\ Goto("listen")

\* app.listen throws at a number that is not a port.  That the port is taken is
\* an event, which comes later.
Listen ==
  /\ stage = "listen"
  /\ \/ environ["PORT"] # "tooLarge" /\ Goto("register")
     \/ environ["PORT"] = "tooLarge" /\ Goto("threw")

\* process.on, in the same run as app.listen.
Register == stage = "register" /\ Goto("up")

\* SIGTERM or SIGINT ends a process that has no handler for it.
Kill == stage \in {"import", "create", "listen", "register"} /\ Goto("killed")

-----------------------------------------------------------------------------
(* The event loop *)

\* Mutant of Turns: the handlers are registered in the callback of app.listen.
TurnsBeforeRegister == stage \in {"register", "up"}

\* No event is handled before server.js has run to its end.
Turns == stage = "up"

Live(action) == Turns /\ action /\ UNCHANGED <<given, stage>>

ProcessNext == Import \/ CreateApp \/ Listen \/ Register \/ Kill \/ Live(Next)

\* A timer fires.  Nothing else is sure: a client may stay, and MySQL not answer.
ProcessSpec ==
  /\ ProcessInit /\ [][ProcessNext]_processVars
  /\ \A s \in Shutdowns : WF_processVars(Live(ForcedExit(s)))

-----------------------------------------------------------------------------
(* Properties *)

\* A process that ends without shutdown, by an error of its start or by a signal
\* that came too early, had not accepted a client: every signal after the first
\* connection drains.
NobodyIsKilled == stage \in {"threw", "killed"} => \A c \in Conns : sock[c] = "none"
=============================================================================
