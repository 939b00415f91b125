---------------------------- MODULE ServerOptions ----------------------------
(***************************************************************************)
(* The options of the gRPC server: setters, validate, the initialization   *)
(* file with its secrets in line or in files, the copy that                *)
(* MagnitudeServiceOptions keeps, and what the Server built from them       *)
(* listens with.                                                            *)
(***************************************************************************)
EXTENDS Integers

CONSTANTS
    Hosts,        \* arguments of setHost
    Ports,        \* arguments of setPort
    Texts,        \* secrets, which may be empty
    Given,        \* those among them that the setters are called with
    Sizes,        \* arguments of setMaximumRequestMessageSizeInBytes
    Ages,         \* arguments of setMaximumConnectionAge and its grace period
    Files,        \* initialization files
    Garbage,      \* a text that does not read as the number or flag it should be
    NoSecret,     \* std::nullopt
    NoOptions,    \* no options were set on the MagnitudeServiceOptions
    NoServer,     \* no Server was constructed
    MaxInt,       \* 2^31 - 1
    DefaultSize,  \* 65536 bytes
    DefaultAge,   \* 2 minutes
    DefaultGrace, \* 2 seconds
    ReceiveLimit  \* what gRPC limits received messages to by default

MaxPort == 65535

Secrets == {"serverKey", "serverCertificate", "accessToken", "clientCertificate"}

\* A file maps the settings it has to their texts.  The setting of a secret may
\* name a file instead, of which the model has the contents or what is wrong.
FileKey == [serverKey |-> "serverKeyFile", serverCertificate |-> "serverCertificateFile",
            accessToken |-> "accessTokenFile", clientCertificate |-> "clientCertificateFile"]
SecretKeys == Secrets \cup {FileKey[s] : s \in Secrets}
NumberKeys == {"port", "maximumRequestMessageSizeInBytes",
               "maximumConnectionAgeInMilliSeconds",
               "maximumConnectionAgeGracePeriodInMilliSeconds"}
Unusable == {"missing", "unreadable", "blank"}

ASSUME FilesAssumption ==
    \A f \in Files :
        /\ DOMAIN f \subseteq {"host", "enableReflection"} \cup NumberKeys \cup SecretKeys
        /\ "host" \in DOMAIN f => f["host"] \in Hosts
        /\ "enableReflection" \in DOMAIN f => f["enableReflection"] \in BOOLEAN \cup {Garbage}
        /\ \A k \in NumberKeys \cap DOMAIN f : f[k] \in Int \cup {Garbage}
        /\ \A k \in Secrets \cap DOMAIN f : f[k] \in Texts
        /\ \A s \in Secrets :
              FileKey[s] \in DOMAIN f => f[FileKey[s]] \in (Texts \ {""}) \cup Unusable
ASSUME ArgumentsAssumption ==
    /\ Ports \subseteq 0..MaxPort /\ Sizes \subseteq Int /\ Ages \subseteq Int
    /\ "localhost" \in Hosts
    /\ MaxInt \in Nat /\ DefaultSize \in 1..MaxInt
    /\ DefaultAge \in 1..MaxInt /\ DefaultGrace \in 0..MaxInt
    /\ Given \subseteq Texts /\ NoSecret \notin Texts /\ Garbage \notin Int \cup BOOLEAN
    /\ Texts \cap Unusable = {}

VARIABLES
    options,   \* a ServerOptions
    mGRPCServerOptions,  \* the copy in a MagnitudeServiceOptions, or NoOptions
    server,    \* the Server last constructed, or NoServer
    outcome    \* whether the last operation returned or threw

vars == <<options, mGRPCServerOptions, server, outcome>>

DefaultOptions ==
    [mHost |-> "localhost", mPort |-> 50000, secrets |-> [s \in Secrets |-> NoSecret],
     mReflectionEnabled |-> FALSE, mMaximumRequestMessageSizeInBytes |-> DefaultSize,
     mMaximumConnectionAge |-> DefaultAge, mMaximumGracePeriod |-> DefaultGrace]

Init ==
    /\ options = DefaultOptions
    /\ mGRPCServerOptions = NoOptions
    /\ server = NoServer
    /\ outcome = "done"

-----------------------------------------------------------------------------

(***************************************************************************)
(* ServerOptions, one option at a time.                                    *)
(***************************************************************************)
Throw == outcome' = "threw" /\ UNCHANGED options
Become(new) == outcome' = "done" /\ options' = new

SetHost(host) ==
    /\ IF host = "" THEN Throw ELSE Become([options EXCEPT !.mHost = host])
    /\ UNCHANGED <<mGRPCServerOptions, server>>

SetPort(port) ==
    /\ IF port = 0 THEN Throw ELSE Become([options EXCEPT !.mPort = port])
    /\ UNCHANGED <<mGRPCServerOptions, server>>

\* setServerKey, setServerCertificate, setAccessToken, setClientCertificate
SetSecret(s, text) ==
    /\ IF text = "" THEN Throw ELSE Become([options EXCEPT !.secrets[s] = text])
    /\ UNCHANGED <<mGRPCServerOptions, server>>

\* enableReflection, disableReflection
SetReflection(enabled) ==
    /\ Become([options EXCEPT !.mReflectionEnabled = enabled])
    /\ UNCHANGED <<mGRPCServerOptions, server>>

SetMaximumRequestMessageSizeInBytes(size) ==
    /\ IF size < 1
       THEN Throw
       ELSE Become([options EXCEPT !.mMaximumRequestMessageSizeInBytes = size])
    /\ UNCHANGED <<mGRPCServerOptions, server>>

SetMaximumConnectionAge(age) ==
    /\ IF age < 1 THEN Throw ELSE Become([options EXCEPT !.mMaximumConnectionAge = age])
    /\ UNCHANGED <<mGRPCServerOptions, server>>

SetMaximumConnectionAgeGracePeriod(period) ==
    /\ IF period < 0 THEN Throw ELSE Become([options EXCEPT !.mMaximumGracePeriod = period])
    /\ UNCHANGED <<mGRPCServerOptions, server>>

HasSecret(o, s) == o.secrets[s] # NoSecret

\* Mutant of Valid: with no certificate and no key everything is well.
ValidPairOnly(o) == HasSecret(o, "serverCertificate") <=> HasSecret(o, "serverKey")

\* validate() returns
Valid(o) ==
    \/ HasSecret(o, "serverCertificate") /\ HasSecret(o, "serverKey")
    \/ \A s \in Secrets : ~HasSecret(o, s)

-----------------------------------------------------------------------------

(***************************************************************************)
(* fromInitializationFile                                                  *)
(***************************************************************************)
GetOrDefault(f, key, default) == IF key \in DOMAIN f THEN f[key] ELSE default

\* A stream reads a negative number into a uint16_t by taking it modulo 2^16.
ReadPort(f) ==
    LET text == GetOrDefault(f, "port", 50000)
    IN  IF text = Garbage THEN Garbage
        ELSE IF text \in (-MaxPort)..MaxPort THEN text % (MaxPort + 1) ELSE Garbage

ReadInt(f, key, default) ==
    LET text == GetOrDefault(f, key, default)
    IN  IF text = Garbage THEN Garbage
        ELSE IF text \in (-MaxInt - 1)..MaxInt THEN text ELSE Garbage

readSecretFile(contents) == IF contents \in Unusable THEN Garbage ELSE contents

\* Mutant of resolveSecret: the client certificate comes from the token's file.
resolveSecretOfToken(f, s) ==
    LET fileKey == IF s = "clientCertificate" THEN "accessTokenFile" ELSE FileKey[s]
    IN  CASE s \in DOMAIN f /\ fileKey \in DOMAIN f -> Garbage
          [] s \notin DOMAIN f /\ fileKey \in DOMAIN f -> readSecretFile(f[fileKey])
          [] s \in DOMAIN f /\ fileKey \notin DOMAIN f -> f[s]
          [] OTHER -> NoSecret

resolveSecret(f, s) ==
    CASE s \in DOMAIN f /\ FileKey[s] \in DOMAIN f -> Garbage
      [] s \notin DOMAIN f /\ FileKey[s] \in DOMAIN f -> readSecretFile(f[FileKey[s]])
      [] s \in DOMAIN f /\ FileKey[s] \notin DOMAIN f -> f[s]
      [] OTHER -> NoSecret

LoadedOptions(f) ==
    [mHost |-> GetOrDefault(f, "host", "localhost"),
     mPort |-> ReadPort(f),
     secrets |-> [s \in Secrets |-> resolveSecret(f, s)],
     mReflectionEnabled |-> GetOrDefault(f, "enableReflection", FALSE),
     mMaximumRequestMessageSizeInBytes |->
        ReadInt(f, "maximumRequestMessageSizeInBytes", DefaultSize),
     mMaximumConnectionAge |-> ReadInt(f, "maximumConnectionAgeInMilliSeconds", DefaultAge),
     mMaximumGracePeriod |->
        ReadInt(f, "maximumConnectionAgeGracePeriodInMilliSeconds", DefaultGrace)]

\* Nothing that was read is garbage or out of the range its setter takes, and the
\* options are valid together.
Loadable(o) ==
    /\ o.mHost # ""
    /\ o.mPort \notin {Garbage, 0}
    /\ \A s \in Secrets : o.secrets[s] \notin {Garbage, ""}
    /\ o.mReflectionEnabled # Garbage
    /\ o.mMaximumRequestMessageSizeInBytes # Garbage
    /\ o.mMaximumRequestMessageSizeInBytes >= 1
    /\ o.mMaximumConnectionAge # Garbage /\ o.mMaximumConnectionAge >= 1
    /\ o.mMaximumGracePeriod # Garbage /\ o.mMaximumGracePeriod >= 0
    /\ Valid(o)

\* A file that does not exist, or that read_ini cannot parse.
FileMissing == Throw /\ UNCHANGED <<mGRPCServerOptions, server>>

FromInitializationFile(f) ==
    /\ IF Loadable(LoadedOptions(f)) THEN Become(LoadedOptions(f)) ELSE Throw
    /\ UNCHANGED <<mGRPCServerOptions, server>>

-----------------------------------------------------------------------------

(***************************************************************************)
(* Who the options are handed to.                                          *)
(***************************************************************************)

\* MagnitudeServiceOptions::setGRPCOptions
SetGRPCOptions ==
    /\ IF Valid(options)
       THEN mGRPCServerOptions' = options /\ outcome' = "done"
       ELSE outcome' = "threw" /\ UNCHANGED mGRPCServerOptions
    /\ UNCHANGED <<options, server>>

useTLS(o) == HasSecret(o, "serverKey") /\ HasSecret(o, "serverCertificate")

\* The Server copies the options without validating them, and gives the service
\* the access token it is to ask for.
ConstructServer ==
    /\ server' = [mGRPCOptions |-> options,
                  mAccessToken |-> IF useTLS(options) THEN options.secrets["accessToken"]
                                                      ELSE NoSecret]
    /\ outcome' = "done"
    /\ UNCHANGED <<options, mGRPCServerOptions>>

\* static_cast<int> of a count of milliseconds
ToInt(count) == ((count + MaxInt + 1) % (2 * (MaxInt + 1))) - (MaxInt + 1)

\* What ServerImpl::start tells the builder, and what gRPC then does about it.  It never
\* reads the client certificate.  The channel arguments have the names of gRPC's macros,
\* not the names they stand for.
Listening(s) ==
    [address |-> <<s.mGRPCOptions.mHost, s.mGRPCOptions.mPort>>,
     credentials |-> IF useTLS(s.mGRPCOptions)
                     THEN <<s.mGRPCOptions.secrets["serverKey"],
                            s.mGRPCOptions.secrets["serverCertificate"]>>
                     ELSE <<>>,
     clientCertificate |-> NoSecret,
     accessToken |-> s.mAccessToken,
     reflection |-> FALSE,
     maxSendMessageSize |-> s.mGRPCOptions.mMaximumRequestMessageSizeInBytes,
     maxReceiveMessageSize |-> ReceiveLimit,
     channelArguments |->
        [GRPC_ARG_MAX_CONNECTION_AGE_MS |-> ToInt(s.mGRPCOptions.mMaximumConnectionAge),
         GRPC_ARG_MAX_CONNECTION_AGE_GRACE_MS |-> ToInt(s.mGRPCOptions.mMaximumGracePeriod)]]

Next ==
    \/ \E host \in Hosts : SetHost(host)
    \/ \E port \in Ports : SetPort(port)
    \/ \E s \in Secrets, text \in Given : SetSecret(s, text)
    \/ \E enabled \in BOOLEAN : SetReflection(enabled)
    \/ \E size \in Sizes : SetMaximumRequestMessageSizeInBytes(size)
    \/ \E age \in Ages : SetMaximumConnectionAge(age)
    \/ \E period \in Ages : SetMaximumConnectionAgeGracePeriod(period)
    \/ \E f \in Files : FromInitializationFile(f)
    \/ FileMissing
    \/ SetGRPCOptions
    \/ ConstructServer

Spec == Init /\ [][Next]_vars

-----------------------------------------------------------------------------

\* Every option is one its setter takes, set one by one or read from a file.
Options ==
    [mHost : Hosts \ {""}, mPort : 1..MaxPort,
     secrets : [Secrets -> (Texts \ {""}) \cup {NoSecret}], mReflectionEnabled : BOOLEAN,
     mMaximumRequestMessageSizeInBytes : Nat \ {0}, mMaximumConnectionAge : Nat \ {0},
     mMaximumGracePeriod : Nat]

TypeOK ==
    /\ options \in Options
    /\ mGRPCServerOptions \in Options \cup {NoOptions}
    /\ server = NoServer \/ /\ server.mGRPCOptions \in Options
                            /\ server.mAccessToken \in Texts \cup {NoSecret}
    /\ outcome \in {"done", "threw"}

\* A server whose options are valid uses three of its four secrets: callers are asked
\* for the token that was configured, and if there is any secret, the client certificate
\* included, the port has the key and the certificate that were configured.  The client
\* certificate itself is not used: clients are not asked for theirs, although validate()
\* refuses one without the pair because it is "to enable mTLS".
TokenAndPairAreUsed ==
    server # NoServer /\ Valid(server.mGRPCOptions) =>
        LET secrets == server.mGRPCOptions.secrets
        IN  /\ Listening(server).accessToken = secrets["accessToken"]
            /\ Listening(server).credentials =
                   IF \E s \in Secrets : HasSecret(server.mGRPCOptions, s)
                   THEN <<secrets["serverKey"], secrets["serverCertificate"]>>
                   ELSE <<>>
            /\ \A s \in {"serverKey", "serverCertificate"} :
                   Listening(server).credentials # <<>> => secrets[s] # NoSecret

\* A file that is accepted is taken at its word about secrets: one is configured exactly
\* if one of its own two settings is there, and is what that setting holds.
SecretsComeFromTheirOwnSettings ==
    [][outcome' = "done" => \A f \in Files : FromInitializationFile(f) =>
          \A s \in Secrets :
              LET own == {s, FileKey[s]} \cap DOMAIN f
              IN  IF own = {} THEN ~HasSecret(options', s)
                  ELSE \A k \in own : options'.secrets[s] = f[k]]_vars

=============================================================================
