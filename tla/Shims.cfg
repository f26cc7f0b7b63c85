CONSTANTS
    None = None
    Handlers = {h1, h2}
    Bodies = {p}
    Ids = {a}
    SubIds = {x}
    Serial = TRUE
    Guarded = TRUE
    ServiceNames = {"servicedirectory", "accesscontextmanager", "apigateway",
        "dataform", "servicemesh", "clouddeploy", "alloydb",
        "networksecurity", "orgpolicy", "cloudendpoints", "cloudtrace",
        "dlp", "errorreporting", "storagetransfer", "batch", "cloudkms",
        "secretmanager", "filestore", "binaryauthorization",
        "resourcemanager", "privateca", "monitoring", "documentai",
        "dialogflowcx", "iam", "identityplatform", "logging", "aiplatform",
        "appengine", "artifactregistry", "bigtable", "cloudbuild",
        "dataflow", "composer", "dataproc", "dns", "managedkafka", "redis",
        "memcache", "compute", "firewall", "loadbalancer", "bigquery",
        "uploads", "cloudsql", "serverless", "gke", "workflows",
        "appengine_races", "batch_races", "composer_races",
        "dataproc_races", "managedkafka_races", "redis_races"}
SYMMETRY Swap
SPECIFICATION Spec
CHECK_DEADLOCK FALSE
INVARIANTS SettledIsDurable Importable ServedIsSaved ReadyIsBacked PartsAgree
PROPERTIES ContainersNamed  DiskChangesAreRequested PromisesStand
