------------------------------ MODULE Startup ------------------------------
(***************************************************************************)
(* A validator process with its start: main reads the configuration from a *)
(* file, the environment and the secret manager, validates it, connects to *)
(* the database and to both chains and creates the services, and what is   *)
(* wrong on the way ends the process.  What was started then lives as      *)
(* Lifecycle says, and its burn signer signs with the key of KmsSigner     *)
(* where the configuration names that key.                                 *)
(***************************************************************************)
EXTENDS Lifecycle, KmsSigner, Sequences, SequencesExt

CONSTANTS
    MintMonitor, MintSigner, MintExecutor,
    BurnMonitor, BurnSigner, BurnExecutor, Health,   \* the services
    Files,          \* the configurations a file may hold, or Unreadable
    Envs,           \* the environments: a configuration of overriding values
    Unreadable,     \* a file that cannot be read or parsed
    Unset,          \* the value of a variable that is empty
    Malformed,      \* the value of a variable that does not parse
    Secrets,        \* what the secret manager holds: name -> value
    MnemonicKey,    \* valid mnemonic -> public key for the Pocket chain
    KmsKeys,        \* name of a KMS key -> [secp256k1, key]
    Unprefixed,     \* private key -> the same without the prefix 0x
    EthereumKey,    \* private key that parses -> its account
    PocketChain, EthereumChain,  \* what the nodes say their chain is
    Controller,     \* what the mint controller contract says of itself
    Digests,        \* the digests there are to sign, of Scalars and zero
    CallsFail       \* whether a call of another process may fail

Workers == {MintMonitor, MintSigner, MintExecutor, BurnMonitor, BurnSigner, BurnExecutor}
ASSUME DigestsAssumption == Digests \subseteq Scalars \cup {0}
ASSUME WorkersAssumption == Services = Workers \cup {Health}

VARIABLES
    stage,          \* what main does next, or how it ended
    config,         \* app.Config
    signature       \* the last signature of the burn signer's run:
                    \* [kind, digest, nonce, result]

startupVars == <<stage, config, signature>>
processVars == <<vars, startupVars>>

\* A setting that is neither in the file nor in the environment.
NoConfig ==
    [ mongo |-> [URI |-> "", Database |-> "", TimeoutMillis |-> 0],
      ethereum |-> [PrivateKey |-> "", RPCURL |-> "", RPCTimeoutMillis |-> 0, ChainID |-> "",
                    WrappedPocketAddress |-> "", MintControllerAddress |-> "",
                    ValidatorAddresses |-> <<>>],
      pocket |-> [Mnemonic |-> "", GcpKmsKeyName |-> "", RPCURL |-> "", GRPCEnabled |-> FALSE,
                  GRPCHost |-> "", GRPCPort |-> 0, RPCTimeoutMillis |-> 0, ChainID |-> "",
                  TxFee |-> 0, Bech32Prefix |-> "", CoinDenom |-> "",
                  MultisigAddress |-> [prefix |-> "", threshold |-> 0, keys |-> <<>>],
                  MultisigPublicKeys |-> <<>>, MultisigThreshold |-> 0, MintDisabled |-> FALSE],
      services |-> [s \in Workers |-> [Enabled |-> FALSE, IntervalMillis |-> 0]],
      health |-> [IntervalMillis |-> 0, ReadLastHealth |-> FALSE],
      gsm |-> [Enabled |-> FALSE, MongoSecretName |-> "", PoktSecretName |-> "",
               EthSecretName |-> ""] ]

\* models.Config: a public key is its number in the order of the addresses,
\* what is not one is 0, and likewise with accounts; a multisig is what its
\* address is made of.
MultisigConfig == [prefix : STRING, threshold : Nat, keys : Seq(Nat)]
ServiceConfig == [Enabled : BOOLEAN, IntervalMillis : Int]
Config ==
    [ mongo : [URI : STRING, Database : STRING, TimeoutMillis : Int],
      ethereum : [PrivateKey : STRING, RPCURL : STRING, RPCTimeoutMillis : Int,
                  ChainID : STRING, WrappedPocketAddress : STRING,
                  MintControllerAddress : STRING, ValidatorAddresses : Seq(Nat)],
      pocket : [Mnemonic : STRING, GcpKmsKeyName : STRING, RPCURL : STRING,
                GRPCEnabled : BOOLEAN, GRPCHost : STRING, GRPCPort : Nat,
                RPCTimeoutMillis : Int, ChainID : STRING, TxFee : Int,
                Bech32Prefix : STRING, CoinDenom : STRING, MultisigAddress : MultisigConfig,
                MultisigPublicKeys : Seq(Nat), MultisigThreshold : Nat,
                MintDisabled : BOOLEAN],
      services : [Workers -> ServiceConfig],
      health : [IntervalMillis : Int, ReadLastHealth : BOOLEAN],
      gsm : [Enabled : BOOLEAN, MongoSecretName : STRING, PoktSecretName : STRING,
             EthSecretName : STRING] ]

-----------------------------------------------------------------------------
(* The environment *)

\* A variable overrides what the file says, unless it is empty or, with no
\* more than a warning, unless it does not parse.
Overridden(env, section) ==
    [s \in DOMAIN section |-> IF env[s] \in {Unset, Malformed} THEN section[s] ELSE env[s]]

ReadMongo(e, c) == Overridden(e.mongo, c.mongo)
ReadEthereum(e, c) == Overridden(e.ethereum, c.ethereum)
ReadPocket(e, c) == Overridden(e.pocket, c.pocket)
ReadServices(e, c) == [s \in Workers |-> Overridden(e.services[s], c.services[s])]
ReadHealthCheck(e, c) == Overridden(e.health, c.health)
ReadSecretManager(e, c) == Overridden(e.gsm, c.gsm)

WithEnvironment(e, c) ==
    [ mongo |-> ReadMongo(e, c), ethereum |-> ReadEthereum(e, c), pocket |-> ReadPocket(e, c),
      services |-> ReadServices(e, c), health |-> ReadHealthCheck(e, c),
      gsm |-> ReadSecretManager(e, c) ]

\* Files and variables are parsed to values of the types of the settings.
ASSUME ConfigAssumption ==
    \A f \in (Files \ {Unreadable}) \cup {NoConfig}, e \in Envs :
        WithEnvironment(e, f) \in Config

-----------------------------------------------------------------------------
(* The secret manager *)

\* Each of the three keys is configured or has a secret, and every secret
\* that is named can be read.
SecretsGiven(c) ==
    /\ c.mongo.URI # "" \/ c.gsm.MongoSecretName # ""
    /\ c.ethereum.PrivateKey # "" \/ c.gsm.EthSecretName # ""
    /\ c.pocket.Mnemonic # "" \/ c.pocket.GcpKmsKeyName # "" \/ c.gsm.PoktSecretName # ""
    /\ {c.gsm.MongoSecretName, c.gsm.EthSecretName, c.gsm.PoktSecretName}
           \subseteq DOMAIN Secrets \cup {""}

\* A secret is a text.
ASSUME SecretsAssumption == \A name \in DOMAIN Secrets : Secrets[name] \in STRING

SecretOr(name, value) == IF name = "" THEN value ELSE Secrets[name]

WithSecrets(c) ==
    [c EXCEPT !.mongo.URI = SecretOr(c.gsm.MongoSecretName, @),
              !.ethereum.PrivateKey = SecretOr(c.gsm.EthSecretName, @),
              !.pocket.Mnemonic = SecretOr(c.gsm.PoktSecretName, @)]

-----------------------------------------------------------------------------
(* Keys and addresses *)

\* An empty string is neither a mnemonic nor a private key, and no private key
\* that parses has a prefix.
ASSUME KeysAssumption ==
    /\ "" \notin DOMAIN MnemonicKey \cup DOMAIN EthereumKey
    /\ \A key \in DOMAIN EthereumKey : Unprefixed[key] = key

\* The key of a signer, or 0.
NewMnemonicSigner(mnemonic) ==
    IF mnemonic \in DOMAIN MnemonicKey THEN MnemonicKey[mnemonic] ELSE 0

NewGcpKmsSigner(name) ==
    IF name \in DOMAIN KmsKeys /\ KmsKeys[name].secp256k1 THEN KmsKeys[name].key ELSE 0

\* A mnemonic goes before a KMS key.
UsesKms(c) == c.pocket.Mnemonic = "" /\ c.pocket.GcpKmsKeyName # ""

CreatePocketSigner(c) ==
    IF UsesKms(c) THEN NewGcpKmsSigner(c.pocket.GcpKmsKeyName)
    ELSE NewMnemonicSigner(c.pocket.Mnemonic)

\* CosmosPublicKeyFromHex of every key succeeds.
PublicKeysParse(keys) == 0 \notin ToSet(keys)

IsValidBech32Address(prefix, address) == address.prefix = prefix

\* Mutant of MultisigOf: the keys in the order of the configuration.
MultisigOfListed(c) ==
    [ prefix |-> c.pocket.Bech32Prefix, threshold |-> c.pocket.MultisigThreshold,
      keys |-> c.pocket.MultisigPublicKeys ]

\* sort.Slice of the keys by address.
SortKeys(keys) ==
    LET order == CHOOSE p \in Bijection(DOMAIN keys, DOMAIN keys) :
                     \A i, j \in DOMAIN keys : i < j => keys[p[i]] <= keys[p[j]]
    IN  [i \in DOMAIN keys |-> keys[order[i]]]

\* The address of the multisig is a hash of the threshold and the keys in
\* their order, so the keys are sorted by address first.
MultisigOf(c) ==
    [ prefix |-> c.pocket.Bech32Prefix, threshold |-> c.pocket.MultisigThreshold,
      keys |-> SortKeys(c.pocket.MultisigPublicKeys) ]

\* Mutant of PocketSignerValid: any threshold and address.
PocketSignerValidUnchecked(c) ==
    LET keys == c.pocket.MultisigPublicKeys
    IN  PublicKeysParse(keys) /\ CreatePocketSigner(c) \in ToSet(keys)

\* GetPocketSignerAndMultisig: the keys parse and the own is among them, and
\* the vault is the multisig of these keys and this threshold.
PocketSignerValid(c) ==
    LET keys == c.pocket.MultisigPublicKeys
    IN  /\ PublicKeysParse(keys)
        /\ CreatePocketSigner(c) \in ToSet(keys)
        /\ c.pocket.MultisigThreshold \in 1 .. Len(keys)
        /\ MultisigOf(c) = c.pocket.MultisigAddress

\* GetEthereumSigner: the account of the private key, or 0.
EthereumSigner(c) ==
    IF c.ethereum.PrivateKey \in DOMAIN EthereumKey THEN EthereumKey[c.ethereum.PrivateKey] ELSE 0

-----------------------------------------------------------------------------
(* Validation *)

MongoValid(c) == c.mongo.URI # "" /\ c.mongo.Database # "" /\ c.mongo.TimeoutMillis # 0

WithoutPrefix(c) == [c EXCEPT !.ethereum.PrivateKey = Unprefixed[@]]

IsValidEthereumAddress(address) == address # 0

EthereumValid(c) ==
    LET e == c.ethereum
    IN  /\ e.RPCURL # "" /\ e.ChainID # "" /\ e.RPCTimeoutMillis # 0
        /\ e.WrappedPocketAddress # "" /\ e.MintControllerAddress # ""
        /\ \A address \in ToSet(e.ValidatorAddresses) : IsValidEthereumAddress(address)
        /\ EthereumSigner(c) \in ToSet(e.ValidatorAddresses)

PocketValid(c) ==
    LET p == c.pocket
    IN  /\ IF p.GRPCEnabled THEN p.GRPCHost # "" /\ p.GRPCPort # 0 ELSE p.RPCURL # ""
        /\ p.RPCTimeoutMillis # 0 /\ p.ChainID # "" /\ p.Bech32Prefix # "" /\ p.CoinDenom # ""
        /\ IsValidBech32Address(p.Bech32Prefix, p.MultisigAddress)
        /\ Len(p.MultisigPublicKeys) > 1
        /\ p.Mnemonic # "" \/ p.GcpKmsKeyName # ""
        /\ PocketSignerValid(c)

IntervalsValid(c) ==
    /\ \A s \in Workers : c.services[s].Enabled => c.services[s].IntervalMillis # 0
    /\ c.health.IntervalMillis # 0

\* The services that run: MintDisabled disables the signer and the executor
\* of mints as well, but not their monitor.
EnabledServices(c) ==
    {s \in Workers : c.services[s].Enabled}
        \ (IF c.pocket.MintDisabled THEN {MintSigner, MintExecutor} ELSE {})

\* What NewMintSigner compares with the contract, and what the constructors
\* of three services ask of the limit.
ServicesValid(c) ==
    /\ MintSigner \in EnabledServices(c) =>
           /\ Controller.validatorCount = Len(c.ethereum.ValidatorAddresses)
           /\ Controller.signerThreshold <= Controller.validatorCount
           /\ Controller.chainID = c.ethereum.ChainID
           /\ Controller.address = c.ethereum.MintControllerAddress
    /\ EnabledServices(c) \cap {MintMonitor, MintSigner, BurnSigner} # {} =>
           c.pocket.TxFee <= Controller.maxMintLimit

-----------------------------------------------------------------------------
(* The start *)

NotAsked == [kind |-> "none", digest |-> 0, nonce |-> 1, result |-> NoSignature]

ProcessInit ==
    /\ Init
    /\ stage = "file" /\ config = NoConfig
    /\ signature = NotAsked

\* A stage in which cond is asked and a call is made.  The process has ended
\* as "refused" when cond does not hold, and as "failed" when the call fails.
Stage(name, cond, calls, next) ==
    /\ stage = name
    /\ \/ cond /\ stage' = next
       \/ ~cond /\ stage' = "refused"
       \/ calls /\ CallsFail /\ stage' = "failed"
    /\ UNCHANGED <<vars, signature>>

\* Without a file the configuration stays as it is.
ReadFile ==
    \E f \in Files \cup {NoConfig} :
        /\ Stage("file", f # Unreadable, FALSE, "env")
        /\ config' = IF f = Unreadable THEN config ELSE f

ReadENV ==
    \E e \in Envs :
        /\ Stage("env", TRUE, FALSE, "secrets")
        /\ config' = WithEnvironment(e, config)

ReadSecrets ==
    LET enabled == config.gsm.Enabled
    IN  /\ Stage("secrets", enabled => SecretsGiven(config), enabled, "validate")
        /\ config' = IF enabled /\ SecretsGiven(config) THEN WithSecrets(config) ELSE config

ValidateConfig ==
    LET c == WithoutPrefix(config)
    IN  /\ Stage("validate",
                 MongoValid(c) /\ EthereumValid(c) /\ PocketValid(c) /\ IntervalsValid(c),
                 UsesKms(c), "database")
        /\ config' = c

\* InitDB connects and creates every index and the locker.
Connect == Stage("database", TRUE, TRUE, "indexes") /\ UNCHANGED config

SetupIndexesAndLocker == Stage("indexes", TRUE, TRUE, "cosmos") /\ UNCHANGED config

ValidateCosmosNetwork ==
    /\ Stage("cosmos", PocketChain = config.pocket.ChainID, TRUE, "ethereum")
    /\ UNCHANGED config

ValidateEthereumNetwork ==
    /\ Stage("ethereum", EthereumChain = config.ethereum.ChainID, TRUE, "health")
    /\ UNCHANGED config

\* The signers are created once more, with their calls.
NewHealthCheck ==
    /\ Stage("health", PocketSignerValid(config) /\ EthereumSigner(config) # 0,
             UsesKms(config), "services")
    /\ UNCHANGED config

\* The constructors of the services that are enabled connect to both chains.
NewServices ==
    /\ Stage("services", ServicesValid(config), EnabledServices(config) # {}, "started")
    /\ UNCHANGED config

-----------------------------------------------------------------------------
(* What was started *)

\* A signature is gone with the run that asked for it.
Started(action) ==
    /\ stage = "started"
    /\ action
    /\ UNCHANGED <<stage, config>>
    /\ signature' = IF BurnSigner \in Runners /\ loop'[BurnSigner] = "run"
                    THEN signature ELSE NotAsked

\* One call of EthSign or CosmosSign of the KMS signer, with the nonce the
\* service chooses.  The burn signer calls CosmosSign; EthSign is called by
\* the tool that tests a key (scripts/gcp_kms).
Sign(kind, digest, nonce) ==
    LET answer == AsymmetricSign(digest, nonce)
    IN  /\ stage = "started" /\ UsesKms(config)
        /\ BurnSigner \in Runners /\ loop[BurnSigner] = "run"
        /\ answer.s # 0
        /\ signature' = [ kind |-> kind, digest |-> digest, nonce |-> nonce,
                          result |-> IF kind = "eth" THEN EthSignHash(answer, digest)
                                     ELSE CosmosSignHash(answer, digest) ]
        /\ UNCHANGED <<vars, stage, config>>

Starting ==
    \/ ReadFile \/ ReadENV \/ ReadSecrets \/ ValidateConfig
    \/ Connect \/ SetupIndexesAndLocker
    \/ ValidateCosmosNetwork \/ ValidateEthereumNetwork \/ NewHealthCheck \/ NewServices

ProcessNext ==
    \/ Starting
    \/ Started(Next)
    \/ \E kind \in {"eth", "cosmos"}, digest \in Digests, nonce \in Scalars :
           Sign(kind, digest, nonce)

\* As for Lifecycle; a start is not interrupted by anything but its end.
ProcessSpec ==
    /\ ProcessInit /\ [][ProcessNext]_processVars
    /\ WF_processVars(Starting)
    /\ WF_processVars(Started(StartServices)) /\ WF_processVars(Started(BeginStop))
    /\ WF_processVars(Started(Disconnect))
    /\ \A s \in Services : WF_processVars(Started(StopService(s)))
    /\ \A s \in Runners :
           /\ WF_processVars(Started(EndRun(s))) /\ WF_processVars(Started(NextRun(s)))
           /\ SF_processVars(Started(StopReceived(s)))

-----------------------------------------------------------------------------
(* Properties *)

\* The vault is the multisig of the keys in whatever order they are listed.
VaultIsMultisig(p) ==
    LET vault == p.MultisigAddress
        Count(seq, k) == Cardinality({i \in DOMAIN seq : seq[i] = k})
    IN  /\ vault.prefix = p.Bech32Prefix /\ vault.threshold = p.MultisigThreshold
        /\ vault.threshold \in 1 .. Len(vault.keys)
        /\ \A i, j \in DOMAIN vault.keys : i < j => vault.keys[i] <= vault.keys[j]
        /\ \A k \in ToSet(vault.keys) \cup ToSet(p.MultisigPublicKeys) :
               Count(vault.keys, k) = Count(p.MultisigPublicKeys, k)

\* What a validator needs to do its part of the bridge: a key of the vault
\* and one of an Ethereum validator, both chains, and complete settings.
Sound(c) ==
    LET key == Unprefixed[c.ethereum.PrivateKey]
        members == ToSet(c.pocket.MultisigPublicKeys)
        accounts == ToSet(c.ethereum.ValidatorAddresses)
    IN  /\ c.gsm.Enabled => SecretsGiven(c)
        /\ VaultIsMultisig(c.pocket) /\ Len(c.pocket.MultisigPublicKeys) > 1
        /\ 0 \notin members /\ CreatePocketSigner(c) \in members
        /\ 0 \notin accounts /\ key \in DOMAIN EthereumKey /\ EthereumKey[key] \in accounts
        /\ c.pocket.ChainID = PocketChain /\ c.ethereum.ChainID = EthereumChain
        /\ ServicesValid(c) /\ IntervalsValid(c) /\ MongoValid(c)
        /\ "" \notin {c.pocket.ChainID, c.pocket.CoinDenom, c.pocket.Bech32Prefix,
                      c.ethereum.ChainID, c.ethereum.RPCURL,
                      c.ethereum.WrappedPocketAddress, c.ethereum.MintControllerAddress}
        /\ IF c.pocket.GRPCEnabled THEN c.pocket.GRPCHost # "" /\ c.pocket.GRPCPort # 0
           ELSE c.pocket.RPCURL # ""
        /\ 0 \notin {c.pocket.RPCTimeoutMillis, c.ethereum.RPCTimeoutMillis}

\* The services of Lifecycle are those of the configurations that start.
ASSUME RunnersAssumption ==
    \A f \in (Files \ {Unreadable}) \cup {NoConfig}, e \in Envs :
        LET read == WithEnvironment(e, f)
            c == IF read.gsm.Enabled /\ SecretsGiven(read) THEN WithSecrets(read) ELSE read
        IN  Sound(c) => Runners = EnabledServices(c) \cup {Health}

\* Whatever file, environment and secrets say, and in whatever order they
\* override each other, the services run only with the vault's multisig, a
\* key of it, an account of the validators and the chains they were made for.
StartedIsSound == stage = "started" => Sound(config)

\* A configuration that has all of this is never refused: the order in which
\* a validator lists the keys, a prefix of its private key, or a variable
\* that does not parse beside a good value of the file is no reason.
SoundIsNotRefused ==
    [][stage # "refused" /\ stage' = "refused" => ~Sound(config)]_processVars

\* The brute force over recovery IDs finds one for every signature of the
\* service: EthSign always answers, and its answer gives the own key.
EthSignaturesRecover ==
    LET result == signature.result
    IN  signature.kind = "eth" =>
            /\ result.v \in {27, 28}
            /\ RecoverCompact(result, result.v - 27, signature.digest) = PrivateKey

\* CosmosSign hands out only valid signatures, and of the two forms of a
\* signature, which belong to a nonce and its opposite, exactly one: an
\* attempt it refuses can be repeated with success.
CosmosSignaturesAreCanonical ==
    LET result == signature.result
        digest == signature.digest
        opposite == AsymmetricSign(digest, Order - signature.nonce)
    IN  signature.kind = "cosmos" =>
            /\ result # NoSignature => Verifies(result, digest, PrivateKey)
            /\ (result = NoSignature) <=> (CosmosSignHash(opposite, digest) # NoSignature)

=============================================================================
