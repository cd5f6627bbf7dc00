SPECIFICATION ProcessSpec
CONSTANTS
    MintMonitor = mint_monitor
    MintSigner = mint_signer
    MintExecutor = mint_executor
    BurnMonitor = burn_monitor
    BurnSigner = burn_signer
    BurnExecutor = burn_executor
    Health = health
    EnabledWorkers = {mint_monitor, burn_signer}
    Services <- MCServices
    Empty <- MCEmpty
    Files <- MCFiles
    Envs <- MCEnvs
    Unreadable = Unreadable
    Unset = Unset
    Malformed = Malformed
    Secrets <- MCSecrets
    MnemonicKey <- MCMnemonicKey
    KmsKeys <- MCKmsKeys
    Unprefixed <- MCUnprefixed
    EthereumKey <- MCEthereumKey
    PocketChain = "pocket"
    EthereumChain = "1"
    Controller <- MCController
    CallsFail = TRUE
    Digests = {0, 5}
    Order = 7
    PrivateKey = 3
CHECK_DEADLOCK FALSE
INVARIANTS
    TypeOK
    NoRunAfterDisconnect
    StartedIsSound
    EthSignaturesRecover
    CosmosSignaturesAreCanonical
PROPERTIES
    SoundIsNotRefused
    SignalEndsProcess
