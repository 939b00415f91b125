-------------------------- MODULE MCServerOptions --------------------------
(***************************************************************************)
(* Files: complete ones, one for each way in which a setting or a          *)
(* combination of settings is wrong.                                        *)
(***************************************************************************)
EXTENDS ServerOptions, TLC

TLS == "serverKeyFile" :> "secret" @@ "serverCertificate" :> "other"

Broken ==
    {"host" :> "", "port" :> 0, "port" :> 70000, "port" :> Garbage,
     "enableReflection" :> Garbage, "maximumRequestMessageSizeInBytes" :> 0,
     "maximumRequestMessageSizeInBytes" :> Garbage,
     "maximumConnectionAgeInMilliSeconds" :> 0,
     "maximumConnectionAgeInMilliSeconds" :> 8,
     "maximumConnectionAgeGracePeriodInMilliSeconds" :> -1,
     "serverKey" :> "secret", "serverCertificate" :> "secret",
     "accessToken" :> "secret", "clientCertificateFile" :> "secret",
     TLS @@ "serverKey" :> "secret", TLS @@ "accessToken" :> "",
     TLS @@ "accessTokenFile" :> "missing", TLS @@ "accessTokenFile" :> "blank",
     TLS @@ "clientCertificateFile" :> "unreadable"}

Sound ==
    {<<>>, TLS, TLS @@ "accessTokenFile" :> "secret", TLS @@ "accessToken" :> "secret",
     TLS @@ "clientCertificate" :> "secret",
     "enableReflection" :> TRUE @@ "port" :> 50000 @@ "host" :> "localhost" @@
        "maximumRequestMessageSizeInBytes" :> 4 @@
        "maximumConnectionAgeInMilliSeconds" :> 5 @@
        "maximumConnectionAgeGracePeriodInMilliSeconds" :> 5}

MCFiles == Broken \cup Sound

MCAges == {-1, 5}

=============================================================================
