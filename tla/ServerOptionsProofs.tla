------------------------ MODULE ServerOptionsProofs ------------------------
(***************************************************************************)
(* What ServerOptions shows for a few files, for all files and arguments.  *)
(***************************************************************************)
EXTENDS ServerOptions, TLAPS

\* A constructed server has the token of its options if it uses TLS, and none otherwise.
ServerInv ==
    server # NoServer =>
        server.mAccessToken = IF useTLS(server.mGRPCOptions)
                              THEN server.mGRPCOptions.secrets["accessToken"]
                              ELSE NoSecret

IInv == TypeOK /\ ServerInv

-----------------------------------------------------------------------------

\* Ports.
LEMMA PortRange ==
    /\ \A t \in Int : t % (MaxPort + 1) \in 0..MaxPort
    /\ \A p \in 0..MaxPort : p # 0 => p \in 1..MaxPort
<1> DEFINE m == MaxPort
<1>1. m \in Nat
    BY DEF MaxPort
<1> HIDE DEF m
<1>2. /\ \A t \in Int : t % (m + 1) \in 0..m
      /\ \A p \in 0..m : p # 0 => p \in 1..m
    BY <1>1
<1> QED BY <1>2 DEF m

(***************************************************************************)
(* Files.                                                                  *)
(***************************************************************************)

\* What resolveSecret finds is garbage, absent or a text.
LEMMA ResolvedType ==
    ASSUME NEW f \in Files, NEW s \in Secrets
    PROVE  resolveSecret(f, s) \in Texts \cup {Garbage, NoSecret}
<1>1. s \in DOMAIN f => f[s] \in Texts
    BY FilesAssumption
<1>2. FileKey[s] \in DOMAIN f => f[FileKey[s]] \in (Texts \ {""}) \cup Unusable
    BY FilesAssumption
<1>3. FileKey[s] \in DOMAIN f => readSecretFile(f[FileKey[s]]) \in Texts \cup {Garbage}
    BY <1>2 DEF readSecretFile
<1> QED BY <1>1, <1>3 DEF resolveSecret

\* Options read from a file are garbage somewhere, or fit for their setters.
LEMMA LoadedType ==
    ASSUME NEW f \in Files, Loadable(LoadedOptions(f))
    PROVE  LoadedOptions(f) \in Options
<1> DEFINE o == LoadedOptions(f)
<1>1. o.mHost \in Hosts \ {""}
    <2>1. GetOrDefault(f, "host", "localhost") \in Hosts
        BY FilesAssumption, ArgumentsAssumption DEF GetOrDefault
    <2> QED BY <2>1 DEF Loadable, LoadedOptions
<1>2. o.mPort \in 1..MaxPort
    <2>1. GetOrDefault(f, "port", 50000) \in Int \cup {Garbage}
        <3>1. "port" \in DOMAIN f => f["port"] \in Int \cup {Garbage}
            BY FilesAssumption DEF NumberKeys
        <3> QED BY <3>1 DEF GetOrDefault
    <2>2. GetOrDefault(f, "port", 50000) # Garbage =>
              GetOrDefault(f, "port", 50000) % (MaxPort + 1) \in 0..MaxPort
        BY <2>1, PortRange
    <2>3. ReadPort(f) \in 0..MaxPort \cup {Garbage}
        BY <2>2 DEF ReadPort
    <2>4. o.mPort = ReadPort(f)
        BY DEF LoadedOptions
    <2>5. o.mPort # Garbage /\ o.mPort # 0
        BY DEF Loadable
    <2>6. o.mPort \in 0..MaxPort
        BY <2>3, <2>4, <2>5
    <2> QED BY <2>5, <2>6, PortRange
<1>3. o.secrets \in [Secrets -> (Texts \ {""}) \cup {NoSecret}]
    <2>1. o.secrets = [s \in Secrets |-> resolveSecret(f, s)]
        BY DEF LoadedOptions
    <2>2. \A s \in Secrets : o.secrets[s] \notin {Garbage, ""}
        BY DEF Loadable
    <2> QED BY <2>1, <2>2, ResolvedType
<1>4. o.mReflectionEnabled \in BOOLEAN
    <2>1. GetOrDefault(f, "enableReflection", FALSE) \in BOOLEAN \cup {Garbage}
        BY FilesAssumption DEF GetOrDefault
    <2>2. /\ o.mReflectionEnabled = GetOrDefault(f, "enableReflection", FALSE)
          /\ o.mReflectionEnabled # Garbage
        BY DEF Loadable, LoadedOptions
    <2> QED BY <2>1, <2>2
<1>5. ASSUME NEW key \in NumberKeys, NEW default \in Int
      PROVE  ReadInt(f, key, default) \in Int \cup {Garbage}
    <2>1. GetOrDefault(f, key, default) \in Int \cup {Garbage}
        BY FilesAssumption DEF GetOrDefault
    <2> QED BY <2>1 DEF ReadInt
<1>6. o.mMaximumRequestMessageSizeInBytes \in Nat \ {0}
    <2>1. DefaultSize \in Int
        BY ArgumentsAssumption
    <2>2. o.mMaximumRequestMessageSizeInBytes
            = ReadInt(f, "maximumRequestMessageSizeInBytes", DefaultSize)
        BY DEF LoadedOptions
    <2>3. o.mMaximumRequestMessageSizeInBytes \in Int
        BY <1>5, <2>1, <2>2 DEF NumberKeys, Loadable
    <2>4. o.mMaximumRequestMessageSizeInBytes >= 1
        BY DEF Loadable
    <2> QED BY <2>3, <2>4
<1>7. o.mMaximumConnectionAge \in Nat \ {0}
    <2>1. DefaultAge \in Int
        BY ArgumentsAssumption
    <2>2. o.mMaximumConnectionAge
            = ReadInt(f, "maximumConnectionAgeInMilliSeconds", DefaultAge)
        BY DEF LoadedOptions
    <2>3. o.mMaximumConnectionAge \in Int
        BY <1>5, <2>1, <2>2 DEF NumberKeys, Loadable
    <2>4. o.mMaximumConnectionAge >= 1
        BY DEF Loadable
    <2> QED BY <2>3, <2>4
<1>8. o.mMaximumGracePeriod \in Nat
    <2>1. DefaultGrace \in Int
        BY ArgumentsAssumption
    <2>2. o.mMaximumGracePeriod
            = ReadInt(f, "maximumConnectionAgeGracePeriodInMilliSeconds", DefaultGrace)
        BY DEF LoadedOptions
    <2>3. o.mMaximumGracePeriod \in Int
        BY <1>5, <2>1, <2>2 DEF NumberKeys, Loadable
    <2>4. o.mMaximumGracePeriod >= 0
        BY DEF Loadable
    <2> QED BY <2>3, <2>4
<1> QED BY <1>1, <1>2, <1>3, <1>4, <1>6, <1>7, <1>8 DEF Options, LoadedOptions

-----------------------------------------------------------------------------

(***************************************************************************)
(* The invariant.                                                          *)
(***************************************************************************)
LEMMA Initially == Init => IInv
<1>1. DefaultOptions \in Options
    <2>1. DefaultSize \in Nat \ {0} /\ DefaultAge \in Nat \ {0} /\ DefaultGrace \in Nat
        BY ArgumentsAssumption
    <2>2. "localhost" \in Hosts \ {""}
        BY ArgumentsAssumption
    <2>3. 50000 \in 1..MaxPort
        BY DEF MaxPort
    <2>4. [s \in Secrets |-> NoSecret] \in [Secrets -> (Texts \ {""}) \cup {NoSecret}]
        OBVIOUS
    <2> QED BY <2>1, <2>2, <2>3, <2>4 DEF DefaultOptions, Options
<1> QED BY <1>1 DEF Init, IInv, TypeOK, ServerInv

\* The operations on the options leave them fit, and leave the copies alone.
LEMMA OptionsStayFit ==
    ASSUME TypeOK, [Next]_vars
    PROVE  options' \in Options
<1> USE DEF TypeOK
<1>1. ASSUME NEW host \in Hosts, SetHost(host)
      PROVE  options' \in Options
    BY <1>1 DEF SetHost, Throw, Become, Options
<1>2. ASSUME NEW port \in Ports, SetPort(port)
      PROVE  options' \in Options
    <2>1. port # 0 => port \in 1..MaxPort
        BY ArgumentsAssumption, PortRange
    <2> QED BY <1>2, <2>1 DEF SetPort, Throw, Become, Options
<1>3. ASSUME NEW s \in Secrets, NEW text \in Given, SetSecret(s, text)
      PROVE  options' \in Options
    <2>1. CASE text = ""
        BY <1>3, <2>1 DEF SetSecret, Throw
    <2>2. CASE text # ""
        <3>1. [options.secrets EXCEPT ![s] = text]
                \in [Secrets -> (Texts \ {""}) \cup {NoSecret}]
            BY <2>2, ArgumentsAssumption DEF Options
        <3>2. options' = [options EXCEPT !.secrets = [options.secrets EXCEPT ![s] = text]]
            BY <1>3, <2>2 DEF SetSecret, Become
        <3> QED BY <3>1, <3>2 DEF Options
    <2> QED BY <2>1, <2>2
<1>4. ASSUME NEW enabled \in BOOLEAN, SetReflection(enabled)
      PROVE  options' \in Options
    BY <1>4 DEF SetReflection, Become, Options
<1>5. ASSUME NEW size \in Sizes, SetMaximumRequestMessageSizeInBytes(size)
      PROVE  options' \in Options
    <2>1. ~(size < 1) => size \in Nat \ {0}
        BY ArgumentsAssumption
    <2>2. \/ options' = options
          \/ options' = [options EXCEPT !.mMaximumRequestMessageSizeInBytes = size] /\ ~(size < 1)
        BY <1>5 DEF SetMaximumRequestMessageSizeInBytes, Throw, Become
    <2> QED BY <2>1, <2>2 DEF Options
<1>6. ASSUME NEW age \in Ages, SetMaximumConnectionAge(age)
      PROVE  options' \in Options
    <2>1. ~(age < 1) => age \in Nat \ {0}
        BY ArgumentsAssumption
    <2>2. \/ options' = options
          \/ options' = [options EXCEPT !.mMaximumConnectionAge = age] /\ ~(age < 1)
        BY <1>6 DEF SetMaximumConnectionAge, Throw, Become
    <2> QED BY <2>1, <2>2 DEF Options
<1>7. ASSUME NEW period \in Ages, SetMaximumConnectionAgeGracePeriod(period)
      PROVE  options' \in Options
    <2>1. ~(period < 0) => period \in Nat
        BY ArgumentsAssumption
    <2>2. \/ options' = options
          \/ options' = [options EXCEPT !.mMaximumGracePeriod = period] /\ ~(period < 0)
        BY <1>7 DEF SetMaximumConnectionAgeGracePeriod, Throw, Become
    <2> QED BY <2>1, <2>2 DEF Options
<1>8. ASSUME NEW f \in Files, FromInitializationFile(f)
      PROVE  options' \in Options
    BY <1>8, LoadedType DEF FromInitializationFile, Throw, Become
<1>9. CASE FileMissing \/ SetGRPCOptions \/ ConstructServer \/ UNCHANGED vars
    BY <1>9 DEF FileMissing, Throw, SetGRPCOptions, ConstructServer, vars
<1> QED BY <1>1, <1>2, <1>3, <1>4, <1>5, <1>6, <1>7, <1>8, <1>9 DEF Next

\* Only SetGRPCOptions and ConstructServer touch the copies.
LEMMA CopiesKept ==
    ASSUME [Next]_vars, ~SetGRPCOptions, ~ConstructServer
    PROVE  UNCHANGED <<mGRPCServerOptions, server>> /\ outcome' \in {"done", "threw", outcome}
    BY DEF Next, vars, SetHost, SetPort, SetSecret, SetReflection,
           SetMaximumRequestMessageSizeInBytes, SetMaximumConnectionAge,
           SetMaximumConnectionAgeGracePeriod, FromInitializationFile, FileMissing, Throw, Become

LEMMA Inductive == IInv /\ [Next]_vars => IInv'
<1> SUFFICES ASSUME IInv, [Next]_vars
             PROVE  IInv'
    OBVIOUS
<1>1. options' \in Options
    BY OptionsStayFit DEF IInv
<1>2. CASE SetGRPCOptions
    BY <1>1, <1>2 DEF SetGRPCOptions, IInv, TypeOK, ServerInv
<1>3. CASE ConstructServer
    <2>1. options.secrets["accessToken"] \in Texts \cup {NoSecret}
        BY DEF IInv, TypeOK, Options, Secrets
    <2>2. /\ server'.mGRPCOptions = options
          /\ server'.mAccessToken = IF useTLS(options) THEN options.secrets["accessToken"]
                                                       ELSE NoSecret
          /\ UNCHANGED <<options, mGRPCServerOptions>>
          /\ outcome' = "done"
        BY <1>3 DEF ConstructServer
    <2>3. TypeOK'
        BY <2>1, <2>2 DEF IInv, TypeOK
    <2>4. ServerInv'
        BY <2>2 DEF ServerInv
    <2> QED BY <2>3, <2>4 DEF IInv
<1>4. CASE ~SetGRPCOptions /\ ~ConstructServer
    <2>1. UNCHANGED <<mGRPCServerOptions, server>> /\ outcome' \in {"done", "threw"}
        BY <1>4, CopiesKept DEF IInv, TypeOK
    <2>2. TypeOK'
        BY <1>1, <2>1 DEF IInv, TypeOK
    <2>3. ServerInv'
        BY <2>1 DEF IInv, ServerInv
    <2> QED BY <2>2, <2>3 DEF IInv
<1> QED BY <1>2, <1>3, <1>4

\* Every option the setters, a file or a copy leave behind is in its range.
THEOREM TypeCorrect == Spec => []TypeOK
<1>1. IInv => TypeOK
    BY DEF IInv
<1> QED BY Initially, Inductive, <1>1, PTL DEF Spec

\* Options that validate and hold any secret hold the pair, so that useTLS is true: the
\* token that was configured is asked for, and the port has that key and that certificate.
\* With no secret the port is open.  What becomes of a client certificate is not said.
THEOREM TokenAndPairUsed == Spec => []TokenAndPairAreUsed
<1>1. ASSUME IInv, server # NoServer, Valid(server.mGRPCOptions)
      PROVE  LET secrets == server.mGRPCOptions.secrets
             IN  /\ Listening(server).accessToken = secrets["accessToken"]
                 /\ Listening(server).credentials =
                        IF \E s \in Secrets : HasSecret(server.mGRPCOptions, s)
                        THEN <<secrets["serverKey"], secrets["serverCertificate"]>>
                        ELSE <<>>
                 /\ \A s \in {"serverKey", "serverCertificate"} :
                        Listening(server).credentials # <<>> => secrets[s] # NoSecret
    <2> DEFINE o == server.mGRPCOptions
    <2>1. Listening(server).accessToken = server.mAccessToken
        BY DEF Listening
    <2>2. CASE useTLS(o)
        <3>1. Listening(server).credentials = <<o.secrets["serverKey"],
                                                o.secrets["serverCertificate"]>>
            BY <2>2 DEF Listening
        <3>2. server.mAccessToken = o.secrets["accessToken"]
            BY <1>1, <2>2 DEF IInv, ServerInv
        <3>3. \A s \in {"serverKey", "serverCertificate"} :
                  s \in Secrets /\ HasSecret(o, s) /\ o.secrets[s] # NoSecret
            BY <2>2 DEF useTLS, HasSecret, Secrets
        <3> QED BY <2>1, <3>1, <3>2, <3>3
    <2>3. CASE ~useTLS(o)
        <3>1. \A s \in Secrets : ~HasSecret(o, s)
            BY <1>1, <2>3 DEF Valid, useTLS
        <3>2. o.secrets["accessToken"] = NoSecret
            BY <3>1 DEF HasSecret, Secrets
        <3>3. server.mAccessToken = NoSecret
            BY <1>1, <2>3 DEF IInv, ServerInv
        <3>4. Listening(server).credentials = <<>>
            BY <2>3 DEF Listening
        <3> QED BY <2>1, <3>1, <3>2, <3>3, <3>4
    <2> QED BY <2>2, <2>3
<1>2. IInv => TokenAndPairAreUsed
    BY <1>1 DEF TokenAndPairAreUsed
<1> QED BY Initially, Inductive, <1>2, PTL DEF Spec

\* fromInitializationFile takes each secret from its own two settings.
THEOREM OwnSettings == Spec => SecretsComeFromTheirOwnSettings
<1>1. ASSUME NEW f \in Files, FromInitializationFile(f), outcome' = "done",
             NEW s \in Secrets
      PROVE  LET own == {s, FileKey[s]} \cap DOMAIN f
             IN  IF own = {} THEN ~HasSecret(options', s)
                 ELSE \A k \in own : options'.secrets[s] = f[k]
    <2>1. Loadable(LoadedOptions(f)) /\ options' = LoadedOptions(f)
        BY <1>1 DEF FromInitializationFile, Throw, Become
    <2>2. options'.secrets[s] = resolveSecret(f, s)
        BY <2>1 DEF LoadedOptions
    <2>3. resolveSecret(f, s) # Garbage
        BY <2>1, <2>2 DEF Loadable
    <2>4. readSecretFile(f[FileKey[s]]) \in {Garbage, f[FileKey[s]]}
        BY DEF readSecretFile
    <2> QED BY <2>2, <2>3, <2>4 DEF resolveSecret, HasSecret
<1>2. [outcome' = "done" => \A f \in Files : FromInitializationFile(f) =>
          \A s \in Secrets :
              LET own == {s, FileKey[s]} \cap DOMAIN f
              IN  IF own = {} THEN ~HasSecret(options', s)
                  ELSE \A k \in own : options'.secrets[s] = f[k]]_vars
    BY <1>1
<1> QED BY <1>2, PTL DEF Spec, SecretsComeFromTheirOwnSettings

=============================================================================
